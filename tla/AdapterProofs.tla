--------------------------- MODULE AdapterProofs ---------------------------
(***************************************************************************)
(* What an adapter returns is true, for every size of the pipe.  The       *)
(* places the calling thread goes through carry the proof: Honest says     *)
(* what each of them may rely on.  Then the adapter within a call: the two *)
(* keep what each promises, and the command is the one the call may run.   *)
(***************************************************************************)
EXTENDS AdaptedCall, ToolCallProofs

\* The initial state has nothing to be honest about.
LEMMA AdapterStarts == AdapterInit => AdapterIInv
<1>1. AdapterInit => AdapterTypeOK
  <2>1. <<>> \in Seq(Chunk)
    OBVIOUS
  <2> QED  BY <2>1 DEF AdapterInit, AdapterTypeOK
<1>2. AdapterInit => Honest
  BY DEF AdapterInit, Honest
<1> QED  BY <1>1, <1>2 DEF AdapterIInv

\* Taking a chunk leaves a pipe of chunks.
LEMMA TakeTypes ==
    ASSUME pipe \in Seq(Chunk), Take
    PROVE  pipe' \in Seq(Chunk) /\ output' \in BOOLEAN
  BY DEF Take

\* The command, its helper and the clock keep the places honest: they act only
\* before the adapter has returned, and deeds do not undo themselves.
LEMMA CommandKeeps ==
    ASSUME AdapterIInv, CommandStep \/ DeadlinePasses
    PROVE  AdapterIInv'
<1> USE DEF AdapterIInv, AdapterTypeOK, Honest, OwnTaken, AtWork
<1>1. CASE CommandWrites
  <2>1. pipe' \in Seq(Chunk)
    BY <1>1 DEF CommandWrites, Append_, Chunk
  <2> QED  BY <1>1, <2>1 DEF CommandWrites, Append_
<1>2. CASE HelperWrites
  <2>1. pipe' \in Seq(Chunk)
    BY <1>2 DEF HelperWrites, Append_, Chunk
  <2> QED  BY <1>2, <2>1 DEF HelperWrites, Append_
<1>3. CASE CommandForks   BY <1>3 DEF CommandForks
<1>4. CASE CommandExits   BY <1>4 DEF CommandExits
<1>5. CASE HelperEnds     BY <1>5 DEF HelperEnds
<1>6. CASE DeadlinePasses BY <1>6 DEF DeadlinePasses
<1> QED  BY <1>1, <1>2, <1>3, <1>4, <1>5, <1>6 DEF CommandStep

\* So does the calling thread: it reports a timeout past the deadline only, with the
\* command dead, and an exit once poll or the end of output has shown one.
LEMMA CallerKeeps ==
    ASSUME AdapterIInv, AdapterStep
    PROVE  AdapterIInv'
<1> USE DEF AdapterIInv, AdapterTypeOK, Honest, OwnTaken, Finish, Kill
<1>1. CASE Communicate
  <2>1. CASE late
    BY <1>1, <2>1 DEF Communicate
  <2>2. CASE ~late /\ Take
    <3>1. UNCHANGED <<at, kind, command, helper, late, buffered, reader, verdict>>
      BY <1>1, <2>2 DEF Communicate, EndOfOutput, Take
    <3>2. at = "communicate"
      BY <1>1 DEF Communicate
    <3> QED  BY <3>1, <3>2, <2>2, TakeTypes
  <2>3. CASE ~late /\ EndOfOutput
    <3>1. /\ at = "communicate" /\ at' = "returned" /\ verdict' = "exit"
          /\ UNCHANGED <<kind, command, helper, late, pipe, buffered, reader, output>>
      BY <1>1, <2>3 DEF Communicate, EndOfOutput, Take
    <3>2. command = "exited"
      BY <2>3, <3>1 DEF EndOfOutput, Open_
    <3>3. OwnTaken'
      BY <2>3, <3>1 DEF EndOfOutput
    <3> QED  BY <3>1, <3>2, <3>3
  <2> QED  BY <1>1, <2>1, <2>2, <2>3 DEF Communicate
<1>2. CASE Collect
  <2>1. CASE Take
    BY <1>2, <2>1, TakeTypes DEF Collect
  <2>2. CASE ~Take
    BY <1>2, <2>2 DEF Collect
  <2> QED  BY <2>1, <2>2
<1>3. CASE Check  BY <1>3 DEF Check
<1>4. CASE Select
  <2>1. CASE Take  BY <1>4, <2>1, TakeTypes DEF Select
  <2>2. CASE ~Take BY <1>4, <2>2 DEF Select
  <2> QED  BY <2>1, <2>2
<1>5. CASE Poll   BY <1>5 DEF Poll
<1>6. CASE Drain
  <2>1. CASE Take  BY <1>6, <2>1, TakeTypes DEF Drain
  <2>2. CASE ~Take BY <1>6, <2>2 DEF Drain
  <2> QED  BY <2>1, <2>2
<1>7. CASE Watch  BY <1>7 DEF Watch
<1>8. CASE Join   BY <1>8 DEF Join
<1> QED  BY <1>1, <1>2, <1>3, <1>4, <1>5, <1>6, <1>7, <1>8 DEF AdapterStep

\* So do the launch of a command and the reader thread.
LEMMA LaunchKeeps ==
    ASSUME AdapterIInv, NEW k \in Kind, Launch(k)
    PROVE  AdapterIInv'
  BY DEF AdapterIInv, AdapterTypeOK, Honest, OwnTaken, Launch, Kind

LEMMA ReaderKeeps ==
    ASSUME AdapterIInv, Reader
    PROVE  AdapterIInv'
<1> USE DEF AdapterIInv, AdapterTypeOK, Honest, OwnTaken, AtWork
<1>1. pipe' \in Seq(Chunk) /\ buffered' \in BOOLEAN
  <2>1. pipe # <<>> => Tail(pipe) \in Seq(Chunk)
    OBVIOUS
  <2> QED  BY <2>1 DEF Reader
<1>2. UNCHANGED <<kind, at, command, helper, late, output, verdict>>
  BY DEF Reader
<1>3. reader' \in {"testing", "reading", "over"} /\ at \notin {"idle", "returned"}
  BY DEF Reader
<1> QED  BY <1>1, <1>2, <1>3

LEMMA AdapterStepKeeps ==
    ASSUME AdapterIInv, [AdapterNext]_adapterVars
    PROVE  AdapterIInv'
<1>1. CASE UNCHANGED adapterVars
  BY <1>1 DEF adapterVars, AdapterIInv, AdapterTypeOK, Honest, OwnTaken
<1>2. CASE AdapterNext
  BY <1>2, LaunchKeeps, CallerKeeps, ReaderKeeps, CommandKeeps DEF AdapterNext
<1> QED  BY <1>1, <1>2

\* Variables of an adapter hold values of their types.
THEOREM AdapterTypeCorrect == AdapterSpec => []AdapterTypeOK
<1>1. AdapterIInv => AdapterTypeOK
  BY DEF AdapterIInv
<1> QED  BY AdapterStarts, AdapterStepKeeps, <1>1, PTL DEF AdapterSpec

\* A result is true: no command runs on behind it, a timeout was past its deadline,
\* an exit was one, and off winpty no output of the command was left unread
\* (stdio.py:22-68, pty.py:142-180).
THEOREM AdapterTellsTheTruth == AdapterSpec => []ResultsAreTrue
<1>1. AdapterIInv => ResultsAreTrue
  BY DEF AdapterIInv, AdapterTypeOK, Honest, ResultsAreTrue
<1> QED  BY AdapterStarts, AdapterStepKeeps, <1>1, PTL DEF AdapterSpec

-----------------------------------------------------------------------------
(* A call and its adapter.                                                 *)

\* Every step of the composition is a step of the calls, or one that leaves them alone,
\* and a step of the adapter, or one that leaves it alone.
LEMMA StepsOfBoth ==
    ASSUME [AdaptedNext]_adaptedVars
    PROVE  [Next]_vars /\ [AdapterNext]_adapterVars
<1>1. \A transport : Kinds(transport) \subseteq Kind
  BY DEF Kinds, Kind
<1>2. CASE Next /\ Follow
  BY <1>1, <1>2 DEF Follow, AdapterNext
<1>3. CASE Running /\ (AdapterStep \/ Reader \/ CommandStep \/ DeadlinePasses)
  BY <1>3 DEF Running, AdapterNext
<1>4. CASE UNCHANGED adaptedVars
  BY <1>4 DEF adaptedVars
<1> QED  BY <1>2, <1>3, <1>4 DEF AdaptedNext

\* Following a call into its adapter adds nothing to what calls do and takes nothing from
\* what adapters promise: all that is proved of either holds of the two together.
THEOREM FollowedCallsAreBoth == AdaptedSpec => Spec /\ AdapterSpec
<1>1. AdaptedInit => Init /\ AdapterInit
  BY DEF AdaptedInit
<1>2. [AdaptedNext]_adaptedVars => [Next]_vars /\ [AdapterNext]_adapterVars
  BY StepsOfBoth
<1> QED  BY <1>1, <1>2, PTL DEF AdaptedSpec, Spec, AdapterSpec

\* The adapter of the followed call is at rest until the call runs its command, and the
\* call reports on a command it ran once the adapter has returned.
Coupled ==
    /\ pc[Followed] \in BeforeDispatch => at = "idle"
    /\ at # "idle" => ran[Followed] # Nothing
    /\ pc[Followed] = "reporting" /\ ran[Followed] # Nothing => at = "returned"

\* A call comes to run something when it starts running, and reports on a command only
\* when it ran one.
LEMMA CommandsOfCalls ==
    ASSUME CallIInv, AuditInv, Next, NEW c \in Call
    PROVE  /\ pc'[c] \in BeforeDispatch => pc[c] \in BeforeDispatch
           /\ pc'[c] = "running" /\ pc[c] # "running" => ran'[c] # Nothing
           /\ pc'[c] # "running" \/ pc[c] = "running" => ran'[c] = ran[c]
           /\ pc'[c] = "reporting" /\ ran[c] # Nothing =>
                pc[c] \in {"running", "reporting"}
<1>1. /\ pc \in [Call -> {"idle", "presenting", "using", "refused", "starting",
                          "running", "reporting", "aborted"}]
      /\ ran \in [Call -> Scope \cup {Nothing}]
      /\ pc[c] \in BeforeDispatch => ran[c] = Nothing
  BY DEF CallIInv, CallTypeOK, AuditInv, AuditHonest
<1> USE DEF BeforeDispatch
<1>2. CASE CallStep(c)
  <2>1. CASE PresentApproval(c) \/ ApprovalRejected(c) \/ ConsumeApproval(c)
    BY <1>1, <2>1 DEF PresentApproval, ApprovalRejected, ConsumeApproval, Goto
  <2>2. CASE ReadForUse(c) \/ Write(c)
    BY <1>1, <2>2 DEF ReadForUse, Write, callVars
  <2>3. CASE RequestApproval(c) \/ Exit(c)
    BY <1>1, <2>3 DEF RequestApproval, Exit, Report, Goto
  <2>4. CASE Dispatch(c)
    <3>1. ScopeOf(request[c]) # Nothing
      BY DEF ScopeOf, Nothing
    <3>2. pc[c] = "starting"
      BY <2>4 DEF Dispatch
    <3>3. CASE pc' = [pc EXCEPT ![c] = "reporting"] /\ ran' = ran
      BY <1>1, <3>2, <3>3
    <3>4. CASE pc' = [pc EXCEPT ![c] = "running"]
               /\ ran' = [ran EXCEPT ![c] = ScopeOf(request[c])]
      BY <1>1, <3>1, <3>2, <3>4
    <3> QED  BY <2>4, <3>3, <3>4 DEF Dispatch, Report, Goto
  <2> QED  BY <1>2, <2>1, <2>2, <2>3, <2>4 DEF CallStep
<1>3. CASE Abort(c) \/ \E r \in Request_ : Begin(c, r)
  <2>1. CASE Abort(c)
    BY <1>1, <2>1 DEF Abort, Goto
  <2>2. CASE \E r \in Request_ : Begin(c, r)
    BY <1>1, <2>2 DEF Begin, Goto
  <2> QED  BY <1>3, <2>1, <2>2
<1>4. CASE ~CallStep(c) /\ ~Abort(c) /\ ~\E r \in Request_ : Begin(c, r)
  <2>1. Undisturbed(c)
    BY <1>4, OthersLeaveCalls
  <2> QED  BY <1>1, <2>1 DEF Undisturbed
<1> QED  BY <1>2, <1>3, <1>4

LEMMA CoupledStep ==
    ASSUME CallIInv, AuditInv, AdapterIInv, Coupled, [AdaptedNext]_adaptedVars
    PROVE  Coupled'
<1>1. Followed \in Call
  BY FollowedAssumption
<1>2. AuditHonest(Followed) /\ pc[Followed] \in BeforeDispatch => ran[Followed] = Nothing
  BY DEF AuditHonest
<1>3. CASE Next /\ Follow
  <2>1. CASE pc[Followed] # "running" /\ pc'[Followed] = "running"
    <3>1. at' # "idle" /\ ran'[Followed] # Nothing
      BY <1>1, <1>3, <2>1, CommandsOfCalls DEF Follow, Launch, Kinds
    <3> QED  BY <2>1, <3>1 DEF Coupled, BeforeDispatch
  <2>2. CASE ~(pc[Followed] # "running" /\ pc'[Followed] = "running")
    <3>1. /\ UNCHANGED adapterVars
          /\ pc[Followed] = "running" /\ pc'[Followed] = "reporting" => at = "returned"
      BY <1>3, <2>2 DEF Follow
    <3>2. /\ pc'[Followed] \in BeforeDispatch => pc[Followed] \in BeforeDispatch
          /\ ran'[Followed] = ran[Followed]
          /\ pc'[Followed] = "reporting" /\ ran[Followed] # Nothing =>
               pc[Followed] \in {"running", "reporting"}
      BY <1>1, <1>3, <2>2, CommandsOfCalls
    <3> QED  BY <3>1, <3>2 DEF Coupled, adapterVars
  <2> QED  BY <2>1, <2>2
<1>4. CASE Running /\ (AdapterStep \/ Reader \/ CommandStep \/ DeadlinePasses)
  <2>1. pc[Followed] = "running" /\ pc' = pc /\ ran' = ran
    BY <1>4 DEF Running, vars
  <2>2. at # "idle"
    BY <1>4 DEF AdapterStep, Communicate, Collect, Check, Select, Poll, Drain, Watch, Join,
       Reader, CommandStep, CommandWrites, HelperWrites, Append_, CommandForks,
       CommandExits, HelperEnds, DeadlinePasses, AtWork
  <2> QED  BY <2>1, <2>2 DEF Coupled, BeforeDispatch
<1>5. CASE UNCHANGED adaptedVars
  BY <1>5 DEF adaptedVars, vars, adapterVars, Coupled
<1> QED  BY <1>3, <1>4, <1>5 DEF AdaptedNext

\* An adapter starts a command only for a call that may run it, by the policy's leave and
\* its caller's confirmation or on an approval granted for the very scope, and that has
\* audited the start; and a call reports on its command only when that runs no longer
\* (executor.py:57-89, :131-184; stdio.py:22-68, pty.py:142-180).
THEOREM CommandsAreAccounted ==
    AdaptedSpec =>
        [](/\ command # "none" =>
                /\ ran[Followed] # Nothing
                /\ \/ Allowed(ran[Followed].manifest.policy, request[Followed].confirmed)
                   \/ /\ paid[Followed] # NoApproval
                      /\ Granted(queue, paid[Followed], ran[Followed])
                /\ \E i \in DOMAIN trail[Followed] :
                       trail[Followed][i] = Rec("audit", "started", paid[Followed])
           /\ pc[Followed] = "reporting" /\ ran[Followed] # Nothing =>
                at = "returned" /\ command # "running")
<1>1. Init /\ AdapterInit => Coupled
  BY FollowedAssumption DEF Init, AdapterInit, Coupled
<1>2. CallIInv /\ AuditInv /\ AdapterIInv /\ Coupled /\ [AdaptedNext]_adaptedVars => Coupled'
  BY CoupledStep
<1>3. AdapterIInv /\ [AdapterNext]_adapterVars => AdapterIInv'
  BY AdapterStepKeeps
<1>4. AdapterIInv /\ Coupled /\ RunsAreApproved /\ EffectsAreAudited =>
        /\ command # "none" =>
                /\ ran[Followed] # Nothing
                /\ \/ Allowed(ran[Followed].manifest.policy, request[Followed].confirmed)
                   \/ /\ paid[Followed] # NoApproval
                      /\ Granted(queue, paid[Followed], ran[Followed])
                /\ \E i \in DOMAIN trail[Followed] :
                       trail[Followed][i] = Rec("audit", "started", paid[Followed])
        /\ pc[Followed] = "reporting" /\ ran[Followed] # Nothing =>
                at = "returned" /\ command # "running"
  BY FollowedAssumption DEF AdapterIInv, Honest, Coupled, RunsAreApproved,
     EffectsAreAudited
<1> QED
  BY <1>1, <1>2, <1>3, <1>4, FollowedCallsAreBoth, AdapterStarts, CallInvariant, AuditInitOK,
     AuditStepInv, RunsApproved, EffectsAudited, PTL DEF AdaptedSpec, AdaptedInit, Spec,
     AdapterSpec
=============================================================================
