------------------------ MODULE PluginOperationProofs ------------------------
(***************************************************************************)
(* Proofs about PluginOperation, for every number of operations and every  *)
(* plan.  The lock excludes (LockIInv).  What operations leave behind      *)
(* rests on it: LeftIInv adds that a clone which was made or found is      *)
(* there and that a partial one is being made or was cut short, and that a *)
(* file about to be replaced was kept aside.  PairIInv adds which of the   *)
(* two files of a repair are its own after each of its steps, as long as   *)
(* no other repair is at work or was cut short.                            *)
(***************************************************************************)
EXTENDS PluginOperation, TLAPS

\* Where an operation is at work under the lock.
Work == {"locked", "starting", "ready", "running", "backed", "closing", "unlocking"}

LEMMA LockInit == Init => LockIInv
  <1> SUFFICES ASSUME Init PROVE LockIInv
    OBVIOUS
  <1>1. TypeOK
    BY DEF Init, TypeOK
  <1>2. OneAtATime /\ HolderIsAtWork
    BY DEF Init, OneAtATime, HolderIsAtWork, Inside
  <1>3. QED
    BY <1>1, <1>2 DEF Init, LockIInv

\* A step of an operation inside the lock that stays inside, the holder file as it is.
LEMMA StaysInside ==
    ASSUME LockIInv, TypeOK', NEW op \in Op, NEW place \in Work \ {"locked", "unlocking"},
           pc[op] \in Work \ {"locked", "unlocking"}, pc' = [pc EXCEPT ![op] = place],
           UNCHANGED <<lock, holder, stuck>>
    PROVE  LockIInv'
  <1>1. Inside' = Inside /\ op \in Inside
    BY DEF Inside, LockIInv, TypeOK, Work
  <1>2. QED
    BY <1>1 DEF LockIInv, TypeOK, OneAtATime, HolderIsAtWork, Work

LEMMA CommandsKeepTypes ==
    ASSUME TypeOK, NEW op \in Op,
           \/ SkipClone(op) \/ RunCommand(op) \/ Succeed(op) \/ Fail(op) \/ TimeOut(op)
    PROVE  TypeOK'
  <1>1. /\ step' \in [Op -> Nat] /\ pc' \in [Op -> {"ready", "running", "closing"} \cup
              {pc[x] : x \in Op}]
        /\ status' \in [Op -> {"none", "blocked", "completed", "failed", "raised"}]
    BY DEF TypeOK, SkipClone, RunCommand, Succeed, Fail, TimeOut, After, Goto
  <1>2. pc' \in [Op -> {"idle", "locked", "starting", "ready", "running", "backed",
                        "closing", "unlocking", "reporting", "done", "thrown", "dead"}]
    BY <1>1 DEF TypeOK
  <1>3. QED
    BY <1>1, <1>2 DEF TypeOK, SkipClone, RunCommand, Succeed, Fail, TimeOut

LEMMA CommandsKeepLock ==
    ASSUME LockIInv, NEW op \in Op,
           \/ SkipClone(op) \/ RunCommand(op) \/ Succeed(op) \/ Fail(op) \/ TimeOut(op)
    PROVE  LockIInv'
  <1>1. TypeOK'
    BY CommandsKeepTypes DEF LockIInv
  <1>2. CASE SkipClone(op)
    BY <1>1, <1>2 DEF SkipClone, LockIInv, OneAtATime, HolderIsAtWork, Inside
  <1>3. CASE RunCommand(op) \/ Succeed(op) \/ Fail(op) \/ TimeOut(op)
    <2>1. /\ pc[op] \in {"ready", "running"} /\ UNCHANGED <<lock, holder, stuck>>
          /\ \E place \in {"ready", "running", "closing"} :
                pc' = [pc EXCEPT ![op] = place]
      BY <1>3 DEF RunCommand, AtCommand, Succeed, Fail, TimeOut, After, Goto
    <2>2. QED
      BY <1>1, <2>1, StaysInside DEF Work
  <1>4. QED
    BY <1>2, <1>3

LEMMA FilesKeepLock ==
    ASSUME LockIInv, NEW op \in Op,
           BackUp(op) \/ Replace(op) \/ WriteFails(op) \/ Finish(op) \/ Raise(op)
    PROVE  LockIInv'
  <1>1. TypeOK'
    <2>1. Step(op) \in File => <<Step(op), file[Step(op)]>> \in File \X (Op \cup {NoOp})
      BY DEF LockIInv, TypeOK
    <2>2. CASE BackUp(op)
      <3> DEFINE version == <<Step(op), file[Step(op)]>>
      <3>1. version \in File \X (Op \cup {NoOp}) /\ backup' = backup \cup {version}
        BY <2>1, <2>2 DEF BackUp, AtFile
      <3> HIDE DEF version
      <3>2. backup' \subseteq File \X (Op \cup {NoOp})
        BY <3>1 DEF LockIInv, TypeOK
      <3>3. QED
        BY <2>2, <3>2 DEF LockIInv, TypeOK, BackUp, Goto
    <2>3. CASE Replace(op)
      <3>1. file' \in [File -> Op \cup {NoOp}]
        BY <2>3 DEF LockIInv, TypeOK, Replace
      <3>2. step' \in [Op -> Nat]
        BY <2>3 DEF LockIInv, TypeOK, Replace
      <3>3. QED
        BY <2>3, <3>1, <3>2 DEF LockIInv, TypeOK, Replace, Goto
    <2>4. CASE WriteFails(op) \/ Finish(op)
      BY <2>4 DEF LockIInv, TypeOK, WriteFails, Finish, Goto
    <2>5. CASE Raise(op)
      BY <2>5 DEF LockIInv, TypeOK, Raise, Goto
    <2>6. QED
      BY <2>2, <2>3, <2>4, <2>5
  <1>2. /\ pc[op] \in {"ready", "running", "backed"} /\ UNCHANGED <<lock, holder, stuck>>
        /\ \E place \in {"ready", "backed", "closing"} :
              pc' = [pc EXCEPT ![op] = place]
    BY DEF BackUp, Replace, WriteFails, Finish, Raise, AtCommand, Goto
  <1>3. QED
    BY <1>1, <1>2, StaysInside DEF Work

\* Taking the lock: nobody was inside, and no holder was named.
LEMMA AcquireKeepsLock ==
    ASSUME LockIInv, NEW op \in Op, Acquire(op)
    PROVE  LockIInv'
  <1>1. Inside = {} /\ holder = NoOp /\ stuck = NoOp
    BY DEF Acquire, LockIInv, OneAtATime, HolderIsAtWork
  <1>2. /\ TypeOK' /\ pc' = [pc EXCEPT ![op] = "locked"] /\ lock'
        /\ holder' = holder /\ stuck' = stuck
    BY DEF Acquire, LockIInv, TypeOK, Goto
  <1>3. Inside' = {op}
    BY <1>1, <1>2 DEF LockIInv, TypeOK, Inside
  <1>4. \A x \in Op : pc'[x] \in {"locked", "unlocking"} => holder' = NoOp
    BY <1>1, <1>2
  <1>5. QED
    BY <1>1, <1>2, <1>3, <1>4 DEF LockIInv, OneAtATime, HolderIsAtWork

LEMMA HolderKeepsLock ==
    ASSUME LockIInv, NEW op \in Op, NameHolder(op) \/ RemoveHolder(op)
    PROVE  LockIInv'
  <1>1. TypeOK'
    BY DEF NameHolder, RemoveHolder, LockIInv, TypeOK, Goto
  <1>2. op \in Inside /\ Inside' = Inside /\ UNCHANGED <<lock, stuck>>
    BY DEF NameHolder, RemoveHolder, LockIInv, TypeOK, Inside, Goto
  <1>3. \A x \in Op : pc'[x] \in {"locked", "unlocking"} => x = op
    BY <1>2 DEF LockIInv, OneAtATime, Inside, NameHolder, RemoveHolder, TypeOK, Goto
  <1>4. \A x \in Op : pc'[x] \in {"locked", "unlocking"} => holder' = NoOp
    BY <1>3 DEF NameHolder, RemoveHolder, LockIInv, TypeOK, Goto
  <1>5. HolderIsAtWork'
    BY <1>2 DEF HolderIsAtWork, LockIInv, OneAtATime, NameHolder, RemoveHolder
  <1>6. QED
    BY <1>1, <1>2, <1>4, <1>5 DEF LockIInv, OneAtATime

\* Giving it back: the only operation inside leaves, and no holder was named.
LEMMA RemoveLockKeepsLock ==
    ASSUME LockIInv, NEW op \in Op, RemoveLock(op)
    PROVE  LockIInv'
  <1>1. Inside = {op} /\ holder = NoOp /\ stuck = NoOp
    BY DEF RemoveLock, LockIInv, OneAtATime, Inside
  <1>2. /\ TypeOK' /\ holder' = holder /\ stuck' = stuck
        /\ \E place \in {"thrown", "reporting"} : pc' = [pc EXCEPT ![op] = place]
    BY DEF RemoveLock, LockIInv, TypeOK, Goto
  <1>3. Inside' = {}
    BY <1>1, <1>2 DEF LockIInv, TypeOK, Inside
  <1>4. QED
    BY <1>1, <1>2, <1>3 DEF LockIInv, OneAtATime, HolderIsAtWork

\* It cannot be given back: the only operation inside leaves it behind, and any holder
\* file names that operation or one that died.
LEMMA ReleaseFailsKeepsLock ==
    ASSUME LockIInv, NEW op \in Op, ReleaseFails(op)
    PROVE  LockIInv'
  <1>1. Inside = {op} /\ lock
    BY DEF ReleaseFails, LockIInv, OneAtATime, Inside
  <1>2. /\ TypeOK' /\ UNCHANGED <<lock, holder>> /\ stuck' = op
        /\ \E place \in {"thrown", "reporting"} : pc' = [pc EXCEPT ![op] = place]
    BY DEF ReleaseFails, LockIInv, TypeOK, Goto
  <1>3. Inside' = {} /\ \A x \in Op \ {op} : pc'[x] = pc[x]
    BY <1>1, <1>2 DEF LockIInv, TypeOK, Inside
  <1>4. HolderIsAtWork'
    BY <1>1, <1>2, <1>3 DEF LockIInv, TypeOK, HolderIsAtWork
  <1>5. \A x \in Op : pc'[x] \in {"locked", "unlocking"} => holder' = NoOp
    BY <1>3 DEF Inside
  <1>6. QED
    BY <1>1, <1>2, <1>3, <1>4, <1>5 DEF LockIInv, OneAtATime

\* A step outside the lock, and dying anywhere.
LEMMA OutsideKeepsLock ==
    ASSUME LockIInv, NEW op \in Op,
           Blocked(op) \/ Start(op) \/ Report(op) \/ Die(op)
    PROVE  LockIInv'
  <1>1. TypeOK'
    BY DEF Blocked, Start, Report, Die, LockIInv, TypeOK, Goto
  <1>2. CASE Start(op)
    BY <1>1, <1>2, StaysInside DEF Start, Goto, Work
  <1>3. CASE Blocked(op) \/ Report(op) \/ Die(op)
    <2>1. /\ UNCHANGED <<lock, holder, stuck>>
          /\ \/ pc[op] = "idle" /\ pc' = [pc EXCEPT ![op] = "done"]
             \/ pc[op] = "reporting" /\ pc' = [pc EXCEPT ![op] = "done"]
             \/ pc' = [pc EXCEPT ![op] = "dead"]
      BY <1>3 DEF Blocked, Report, Die, Goto
    <2>2. Inside' \subseteq Inside
      BY <2>1 DEF Inside, LockIInv, TypeOK
    <2>3. \A x \in Op : pc'[x] \in {"locked", "unlocking"} => pc[x] = pc'[x]
      BY <2>1 DEF LockIInv, TypeOK
    <2>4. \A x \in Op : (x \in Inside \/ pc[x] = "dead")
                            => (x \in Inside' \/ pc'[x] = "dead")
      BY <2>1 DEF LockIInv, TypeOK, Inside
    <2>5. QED
      BY <1>1, <2>1, <2>2, <2>3, <2>4 DEF LockIInv, TypeOK, OneAtATime, HolderIsAtWork
  <1>4. QED
    BY <1>2, <1>3

LEMMA LockStep == LockIInv /\ [Next]_vars => LockIInv'
  <1> SUFFICES ASSUME LockIInv, [Next]_vars PROVE LockIInv'
    OBVIOUS
  <1>1. ASSUME NEW op \in Op, Acquire(op) \/ Blocked(op) \/ OpStep(op) \/ Raise(op) \/ Die(op)
        PROVE  LockIInv'
    BY <1>1, AcquireKeepsLock, HolderKeepsLock, RemoveLockKeepsLock,
       ReleaseFailsKeepsLock, OutsideKeepsLock, CommandsKeepLock, FilesKeepLock DEF OpStep
  <1>2. CASE UNCHANGED vars
    BY <1>2 DEF vars, LockIInv, TypeOK, OneAtATime, HolderIsAtWork, Inside
  <1>3. QED
    BY <1>1, <1>2 DEF Next

-----------------------------------------------------------------------------
(* The theorems.                                                           *)

\* The inductive invariant of the lock.
THEOREM LockInvariant == Spec => []LockIInv
  BY LockInit, LockStep, PTL DEF Spec

\* However many operations meet on a plugin, and wherever they raise or die, at most
\* one is at work on it, and only while the lock directory exists.
THEOREM PluginExclusion == Spec => []OneAtATime
  <1>1. LockIInv => OneAtATime
    BY DEF LockIInv
  <1>2. QED
    BY <1>1, LockInvariant, PTL

\* Whoever is turned away never reads the name of an operation that is over, unless that
\* operation could not give its lock back.
THEOREM HoldersAreAtWork == Spec => []HolderIsAtWork
  <1>1. LockIInv => HolderIsAtWork
    BY DEF LockIInv
  <1>2. QED
    BY <1>1, LockInvariant, PTL
-----------------------------------------------------------------------------
(* What operations leave behind.                                           *)

\* What an operation is at, between its steps.
StepHonest(op) ==
    /\ pc[op] = "running" => step[op] \in DOMAIN plan[op] /\ Step(op) \in Command
    /\ pc[op] = "backed" =>
        AtFile(op) /\ <<Step(op), file[Step(op)]>> \in backup
    /\ status[op] = "completed" => step[op] \notin DOMAIN plan[op]
    /\ step[op] >= 1

Cloning(op) == pc[op] = "running" /\ Step(op) = "clone"

HasCloned(op) == \E i \in DOMAIN plan[op] : plan[op][i] = "clone" /\ i < step[op]

\* A clone that was made or found is there; a partial one is being made, or was cut.
CloneHonest ==
    /\ \A op \in Op : HasCloned(op) => repo # "absent" /\ \A x \in Op : ~Cloning(x)
    /\ \A op \in Op : Cloning(op) => repo = "partial"
    /\ repo = "partial" => cut \/ \E op \in Op : Cloning(op)

\* The inductive invariant of what is left behind, beside that of the lock.
LeftIInv ==
    /\ LockIInv
    /\ \A op \in Op : StepHonest(op)
    /\ CloneHonest
    /\ NothingOverwritten
\* A step of op leaves every other operation where it is.
Alone(op) ==
    /\ plan' = plan
    /\ \A x \in Op \ {op} : pc'[x] = pc[x] /\ step'[x] = step[x] /\ status'[x] = status[x]

LEMMA LeftInit == Init => LeftIInv
  <1> SUFFICES ASSUME Init PROVE LeftIInv
    OBVIOUS
  <1>1. LockIInv
    BY LockInit
  <1>2. \A op \in Op : StepHonest(op) /\ ~Cloning(op) /\ ~HasCloned(op)
    <2>1. ASSUME NEW op \in Op
          PROVE  plan[op] \in Seq(Command) \cup Seq(File)
      BY PlanAssumption DEF Init
    <2>2. QED
      BY <2>1 DEF Init, StepHonest, Cloning, HasCloned
  <1>3. CloneHonest
    BY <1>2 DEF CloneHonest, Init
  <1>4. NothingOverwritten
    <2>1. ASSUME NEW op \in Op, NEW i \in DOMAIN plan[op]
          PROVE  ~(i < step[op])
      <3>1. plan[op] \in Seq(Command) \cup Seq(File)
        BY PlanAssumption DEF Init
      <3>2. QED
        BY <3>1 DEF Init
    <2>2. QED
      BY <2>1 DEF NothingOverwritten, Init
  <1>5. QED
    BY <1>1, <1>2, <1>3, <1>4 DEF LeftIInv

LEMMA PlansAreSequences ==
    ASSUME TypeOK, NEW op \in Op
    PROVE  plan[op] \in Seq(Command) \cup Seq(File)
  BY PlanAssumption DEF TypeOK

LEMMA OnlyOneWorks ==
    ASSUME LockIInv, NEW op \in Op, pc[op] \in Work, NEW x \in Op, pc[x] \in Work
    PROVE  x = op
  BY DEF LockIInv, OneAtATime, Inside, Work

LEMMA StepsStayHonest ==
    ASSUME LeftIInv, NEW op \in Op, Alone(op), StepHonest(op)',
           pc[op] \in Work \/ (UNCHANGED file /\ backup \subseteq backup')
    PROVE  \A x \in Op : StepHonest(x)'
  <1> SUFFICES ASSUME NEW x \in Op, x # op PROVE StepHonest(x)'
    OBVIOUS
  <1>1. /\ pc'[x] = pc[x] /\ step'[x] = step[x] /\ status'[x] = status[x]
        /\ plan'[x] = plan[x] /\ Step(x)' = Step(x) /\ AtFile(x)' = AtFile(x)
    BY DEF Alone, Step, AtFile
  <1>2. pc[x] = "backed" => UNCHANGED file /\ backup \subseteq backup'
    BY OnlyOneWorks DEF LeftIInv, Work
  <1>3. StepHonest(x)
    BY DEF LeftIInv
  <1>4. QED
    BY <1>1, <1>2, <1>3 DEF StepHonest

\* Steps that neither begin nor end a clone, nor get past one.
LEMMA ClonesKept ==
    ASSUME LeftIInv, NEW op \in Op, Alone(op), UNCHANGED repo, cut => cut',
           ~Cloning(op)', Cloning(op) => cut',
           step'[op] = step[op]
               \/ (step'[op] = step[op] + 1
                   /\ (step[op] \in DOMAIN plan[op] /\ Step(op) = "clone" => repo # "absent"
                                                    /\ \A x \in Op : ~Cloning(x)))
    PROVE  CloneHonest'
  <1>1. \A x \in Op : Cloning(x)' => Cloning(x) /\ x # op
    BY DEF Alone, Cloning, Step
  <1>2. ASSUME NEW x \in Op, HasCloned(x)'
        PROVE  HasCloned(x) \/ (x = op /\ repo # "absent" /\ \A y \in Op : ~Cloning(y))
    <2>1. PICK i \in DOMAIN plan[x] : plan[x][i] = "clone" /\ i < step'[x]
      BY <1>2 DEF HasCloned, Alone
    <2>2. i \in Nat /\ step[x] \in Nat
      BY PlansAreSequences DEF LeftIInv, LockIInv, TypeOK
    <2>3. CASE i < step[x]
      BY <2>1, <2>3 DEF HasCloned
    <2>4. CASE ~(i < step[x])
      <3>1. x = op /\ step'[op] = step[op] + 1 /\ i = step[op]
        BY <2>1, <2>2, <2>4 DEF Alone
      <3>2. QED
        BY <2>1, <2>2, <3>1 DEF Step
    <2>5. QED
      BY <2>3, <2>4
  <1>3. \A x \in Op : HasCloned(x)' => repo' # "absent" /\ \A y \in Op : ~Cloning(y)'
    BY <1>1, <1>2 DEF LeftIInv, CloneHonest
  <1>4. \A x \in Op : Cloning(x)' => repo' = "partial"
    BY <1>1 DEF LeftIInv, CloneHonest
  <1>5. repo' = "partial" => cut' \/ \E x \in Op : Cloning(x)'
    <2>1. \A x \in Op \ {op} : Cloning(x)' = Cloning(x)
      BY DEF Alone, Cloning, Step
    <2>2. QED
      BY <2>1 DEF LeftIInv, CloneHonest
  <1>6. QED
    BY <1>3, <1>4, <1>5 DEF CloneHonest

\* Steps that put no file in place.
LEMMA VersionsKept ==
    ASSUME LeftIInv, NEW op \in Op, Alone(op), UNCHANGED file, backup \subseteq backup',
           step'[op] = step[op]
               \/ (step'[op] = step[op] + 1 /\ (step[op] \in DOMAIN plan[op] => Step(op) \notin File))
    PROVE  NothingOverwritten'
  <1>1. ASSUME NEW f \in File, NEW x \in Op, NEW i \in DOMAIN plan[x],
               plan[x][i] = f, i < step'[x]
        PROVE  i < step[x]
    <2>1. i \in Nat /\ step[x] \in Nat
      BY PlansAreSequences DEF LeftIInv, LockIInv, TypeOK
    <2>2. CASE x = op
      BY <1>1, <2>1, <2>2 DEF Step
    <2>3. CASE x # op
      BY <1>1, <2>3 DEF Alone
    <2>4. QED
      BY <2>2, <2>3
  <1>2. plan' = plan
    BY DEF Alone
  <1>3. QED
    BY <1>1, <1>2 DEF LeftIInv, NothingOverwritten

\* Steps of the lock, reports, failures, deaths, and keeping a version aside.
LEMMA MovesKeepLeft ==
    ASSUME LeftIInv, LockIInv', NEW op \in Op, Alone(op), UNCHANGED <<repo, file>>,
           step'[op] = step[op], backup \subseteq backup', cut => cut',
           Cloning(op) => cut', pc'[op] # "running",
           pc'[op] = "backed" => AtFile(op) /\ <<Step(op), file[Step(op)]>> \in backup',
           status'[op] = "completed" =>
               status[op] = "completed" \/ step[op] \notin DOMAIN plan[op]
    PROVE  LeftIInv'
  <1>1. StepHonest(op)'
    BY DEF LeftIInv, StepHonest, Alone, AtFile, Step
  <1>2. \A x \in Op : StepHonest(x)'
    BY <1>1, StepsStayHonest
  <1>3. ~Cloning(op)'
    BY DEF Cloning
  <1>4. CloneHonest'
    BY <1>3, ClonesKept
  <1>5. NothingOverwritten'
    BY VersionsKept
  <1>6. QED
    BY <1>2, <1>4, <1>5 DEF LeftIInv

\* A command that ends: the operation takes the next step, or closes.
LEMMA AfterFacts ==
    ASSUME LockIInv, NEW op \in Op, NEW exit, After(op, exit)
    PROVE  \/ /\ exit = 0 \/ Step(op) = "skill"
              /\ step' = [step EXCEPT ![op] = @ + 1] /\ status' = status
              /\ pc' = [pc EXCEPT ![op] = "ready"]
           \/ /\ step' = step /\ status' = [status EXCEPT ![op] = "failed"]
              /\ pc' = [pc EXCEPT ![op] = "closing"]
  BY DEF After, Optional, Goto

\* The step a command ends with, whatever it left in the repository.
LEMMA AfterHonest ==
    ASSUME LeftIInv, LockIInv', NEW op \in Op, pc[op] = "running", NEW exit,
           After(op, exit), UNCHANGED <<file, backup, plan>>
    PROVE  /\ Alone(op) /\ \A x \in Op : StepHonest(x)'
           /\ NothingOverwritten'
           /\ pc'[op] \in {"ready", "closing"}
           /\ step'[op] = step[op]
                \/ (step'[op] = step[op] + 1 /\ (exit = 0 \/ Step(op) = "skill"))
           /\ ~Cloning(op)'
  <1>1. /\ step \in [Op -> Nat] /\ pc \in [Op -> {pc[x] : x \in Op}]
        /\ status \in [Op -> {status[x] : x \in Op}]
    BY DEF LeftIInv, LockIInv, TypeOK
  <1>2. /\ pc'[op] \in {"ready", "closing"}
        /\ \/ step'[op] = step[op] /\ status'[op] = "failed"
           \/ /\ step'[op] = step[op] + 1 /\ (exit = 0 \/ Step(op) = "skill")
              /\ status'[op] = status[op]
    BY <1>1, AfterFacts DEF LeftIInv
  <1>3. Alone(op)
    BY <1>1, AfterFacts DEF LeftIInv, Alone
  <1>4. /\ Step(op) \in Command /\ step[op] \in DOMAIN plan[op] /\ status[op] # "completed"
        /\ step[op] \in Nat /\ step[op] >= 1
    BY <1>1 DEF LeftIInv, StepHonest
  <1>5. StepHonest(op)'
    <2>1. step'[op] >= 1 /\ status'[op] # "completed"
      BY <1>2, <1>4
    <2>2. QED
      BY <1>2, <2>1 DEF StepHonest
  <1>6. \A x \in Op : StepHonest(x)'
    BY <1>3, <1>5, StepsStayHonest
  <1>7. Step(op) \notin File
    BY <1>4 DEF Command, File
  <1>8. NothingOverwritten'
    BY <1>2, <1>3, <1>7, VersionsKept
  <1>9. ~Cloning(op)'
    BY <1>2 DEF Cloning
  <1>10. /\ pc'[op] \in {"ready", "closing"}
         /\ step'[op] = step[op]
                \/ (step'[op] = step[op] + 1 /\ (exit = 0 \/ Step(op) = "skill"))
    BY <1>2
  <1>11. QED
    BY <1>3, <1>6, <1>8, <1>9, <1>10

LEMMA CommandsKeepLeft ==
    ASSUME LeftIInv, NEW op \in Op,
           \/ SkipClone(op) \/ RunCommand(op) \/ Succeed(op) \/ Fail(op) \/ TimeOut(op)
    PROVE  LeftIInv'
  <1>1. LockIInv'
    BY CommandsKeepLock DEF LeftIInv
  <1>2. /\ step \in [Op -> Nat] /\ pc \in [Op -> {pc[x] : x \in Op}]
        /\ StepHonest(op) /\ step[op] \in Nat
    BY DEF LeftIInv, LockIInv, TypeOK
  <1>3. ASSUME pc[op] \in Work, NEW x \in Op, Cloning(x)
        PROVE  x = op
    BY <1>3, OnlyOneWorks DEF LeftIInv, Cloning, Work
  <1>4. CASE SkipClone(op)
    <2>1. /\ Alone(op) /\ UNCHANGED <<pc, repo, file, backup, cut, status>>
          /\ step'[op] = step[op] + 1 /\ pc[op] = "ready" /\ repo # "absent"
          /\ step[op] \in DOMAIN plan[op] /\ Step(op) = "clone"
      BY <1>2, <1>4 DEF SkipClone, Alone, AtCommand
    <2>2. \A x \in Op : ~Cloning(x)
      BY <1>3, <2>1 DEF Cloning, Work
    <2>3. StepHonest(op)'
      BY <1>2, <2>1 DEF StepHonest
    <2>4. \A x \in Op : StepHonest(x)'
      BY <2>1, <2>3, StepsStayHonest
    <2>5. CloneHonest'
      <3>1. ~Cloning(op)' /\ ~Cloning(op)
        BY <2>1 DEF Cloning
      <3>2. QED
        BY <2>1, <2>2, <3>1, ClonesKept
    <2>6. NothingOverwritten'
      BY <2>1, VersionsKept DEF File
    <2>7. QED
      BY <1>1, <2>4, <2>5, <2>6 DEF LeftIInv
  <1>5. CASE RunCommand(op)
    <2>1. /\ Alone(op) /\ UNCHANGED <<step, file, backup, cut, status>>
          /\ pc[op] = "ready" /\ pc'[op] = "running"
          /\ step[op] \in DOMAIN plan[op] /\ Step(op) \in Command
          /\ Step(op)' = Step(op)
      BY <1>2, <1>5 DEF RunCommand, Alone, AtCommand, Goto, Step
    <2>2. \A x \in Op : ~Cloning(x)
      BY <1>3, <2>1 DEF Cloning, Work
    <2>3. StepHonest(op)'
      BY <1>2, <2>1 DEF StepHonest, Alone
    <2>4. \A x \in Op : StepHonest(x)'
      BY <2>1, <2>3, StepsStayHonest
    <2>5. NothingOverwritten'
      BY <2>1, VersionsKept
    <2>6. \A x \in Op : HasCloned(x)' = HasCloned(x)
      BY <2>1 DEF HasCloned, Alone
    <2>7. \A x \in Op : Cloning(x)' => x = op /\ Step(op) = "clone"
      BY <2>1, <2>2 DEF Cloning, Alone, Step
    <2>8. CASE Step(op) = "clone"
      <3>1. repo = "absent" /\ repo' = "partial" /\ Cloning(op)'
        BY <1>5, <2>1, <2>8 DEF RunCommand, Cloning
      <3>2. QED
        BY <1>1, <2>4, <2>5, <2>6, <3>1 DEF LeftIInv, CloneHonest
    <2>9. CASE Step(op) # "clone"
      <3>1. repo' = repo /\ \A x \in Op : ~Cloning(x)'
        BY <1>5, <2>7, <2>9 DEF RunCommand
      <3>2. QED
        BY <1>1, <2>1, <2>2, <2>4, <2>5, <2>6, <3>1 DEF LeftIInv, CloneHonest
    <2>10. QED
      BY <2>8, <2>9
  <1>6. CASE Succeed(op) \/ Fail(op) \/ TimeOut(op)
    <2>1. PICK exit \in {0, 1, 124} :
              /\ pc[op] = "running" /\ UNCHANGED <<file, backup, plan>>
              /\ After(op, exit)
              /\ Step(op) # "clone" => repo' = repo
              /\ cut => cut'
              /\ Step(op) = "clone" =>
                    \/ exit = 0 /\ repo' = "whole"
                    \/ exit # 0 /\ repo' = "absent"
                    \/ exit # 0 /\ repo' = repo /\ cut'
      <3>1. CASE Succeed(op)
        <4>1. After(op, 0) /\ cut' = cut
          BY <3>1 DEF Succeed
        <4>2. QED
          BY <3>1, <4>1 DEF Succeed
      <3>2. CASE Fail(op)
        <4>1. After(op, 1) /\ cut' = cut
          BY <3>2 DEF Fail
        <4>2. QED
          BY <3>2, <4>1 DEF Fail
      <3>3. CASE TimeOut(op)
        <4>1. After(op, 124) /\ (cut => cut') /\ (Step(op) = "clone" => cut')
          BY <3>3 DEF TimeOut
        <4>2. QED
          BY <3>3, <4>1 DEF TimeOut
      <3>4. QED
        BY <1>6, <3>1, <3>2, <3>3
    <2>2. /\ Alone(op) /\ (\A x \in Op : StepHonest(x)') /\ NothingOverwritten'
          /\ pc'[op] \in {"ready", "closing"}
          /\ step'[op] = step[op]
                \/ (step'[op] = step[op] + 1 /\ (exit = 0 \/ Step(op) = "skill"))
          /\ ~Cloning(op)'
      BY <1>1, <2>1, AfterHonest
    <2>3. CASE Step(op) # "clone"
      <3>1. ~Cloning(op)
        BY <2>3 DEF Cloning
      <3>2. CloneHonest'
        BY <2>1, <2>2, <2>3, <3>1, ClonesKept
      <3>3. QED
        BY <1>1, <2>2, <3>2 DEF LeftIInv
    <2>4. CASE Step(op) = "clone"
      <3>1. Cloning(op) /\ repo = "partial" /\ \A x \in Op : ~HasCloned(x)
        BY <2>1, <2>4 DEF Cloning, LeftIInv, CloneHonest
      <3>2. \A x \in Op : ~Cloning(x)'
        BY <1>3, <2>1, <2>2 DEF Alone, Cloning, Step, Work
      <3>3. \A x \in Op : HasCloned(x)' => exit = 0
        <4>1. \A x \in Op \ {op} : ~HasCloned(x)'
          BY <3>1, <2>2 DEF HasCloned, Alone
        <4>2. step'[op] = step[op] => ~HasCloned(op)'
          BY <3>1, <2>2 DEF HasCloned, Alone
        <4>3. QED
          BY <2>2, <2>4, <4>1, <4>2
      <3>4. CloneHonest'
        BY <2>1, <2>4, <3>1, <3>2, <3>3 DEF CloneHonest
      <3>5. QED
        BY <1>1, <2>2, <3>4 DEF LeftIInv
    <2>5. QED
      BY <2>3, <2>4
  <1>7. QED
    BY <1>4, <1>5, <1>6

\* A version is replaced once it is kept aside.
LEMMA ReplaceKeepsLeft ==
    ASSUME LeftIInv, NEW op \in Op, Replace(op)
    PROVE  LeftIInv'
  <1>1. LockIInv'
    BY FilesKeepLock DEF LeftIInv
  <1> DEFINE g == Step(op)
  <1>2. /\ pc[op] = "backed" /\ g \in File /\ <<g, file[g]>> \in backup
        /\ step[op] \in DOMAIN plan[op] /\ step[op] \in Nat /\ step[op] >= 1
        /\ status[op] # "completed"
    BY DEF Replace, LeftIInv, LockIInv, TypeOK, StepHonest, AtFile
  <1>3. /\ Alone(op) /\ UNCHANGED <<repo, backup, cut, status>>
        /\ step'[op] = step[op] + 1 /\ pc'[op] = "ready"
    BY DEF Replace, Alone, Goto, LeftIInv, LockIInv, TypeOK
  <1>4. /\ file' = [file EXCEPT ![g] = op] /\ file \in [File -> Op \cup {NoOp}]
    BY DEF Replace, LeftIInv, LockIInv, TypeOK
  <1>5. \A x \in Op : StepHonest(x)'
    <2>1. StepHonest(op)'
      BY <1>2, <1>3 DEF StepHonest
    <2>2. QED
      BY <1>2, <1>3, <2>1, StepsStayHonest DEF Work
  <1>6. CloneHonest'
    <2>1. ~Cloning(op)' /\ ~Cloning(op) /\ g # "clone"
      BY <1>2, <1>3 DEF Cloning, File
    <2>2. QED
      BY <1>3, <2>1, ClonesKept
  <1>7. NothingOverwritten'
    <2> SUFFICES ASSUME NEW f \in File,
                        NEW v \in {x \in Op : \E i \in DOMAIN plan'[x] :
                                        plan'[x][i] = f /\ i < step'[x]} \cup {NoOp}
                 PROVE  file'[f] = v \/ <<f, v>> \in backup'
      BY DEF NothingOverwritten
    <2>1. v \in {x \in Op : \E i \in DOMAIN plan[x] : plan[x][i] = f /\ i < step[x]} \cup {NoOp}
            \/ (v = op /\ f = g)
      <3>1. CASE v # op
        BY <1>3, <3>1 DEF Alone
      <3>2. CASE v = op /\ v # NoOp
        <4>1. PICK i \in DOMAIN plan[op] : plan[op][i] = f /\ i < step[op] + 1
          BY <1>3, <3>2 DEF Alone
        <4>2. i \in Nat
          BY PlansAreSequences DEF LeftIInv, LockIInv
        <4>3. i < step[op] \/ i = step[op]
          BY <1>2, <4>1, <4>2
        <4>4. QED
          BY <3>2, <4>1, <4>3 DEF Step
      <3>3. QED
        BY <3>1, <3>2
    <2>2. CASE v = op /\ f = g
      BY <1>2, <1>4, <2>2
    <2>3. CASE v \in {x \in Op : \E i \in DOMAIN plan[x] : plan[x][i] = f /\ i < step[x]}
                     \cup {NoOp}
      <3>1. file[f] = v \/ <<f, v>> \in backup
        BY <2>3 DEF LeftIInv, NothingOverwritten
      <3>2. CASE f = g
        BY <1>2, <1>3, <3>1, <3>2
      <3>3. CASE f # g
        BY <1>3, <1>4, <3>1, <3>3
      <3>4. QED
        BY <3>2, <3>3
    <2>4. QED
      BY <2>1, <2>2, <2>3
  <1>8. QED
    BY <1>1, <1>5, <1>6, <1>7 DEF LeftIInv

\* An exception while a clone runs leaves it in any state, and counts as a cut.
LEMMA RaiseKeepsLeft ==
    ASSUME LeftIInv, NEW op \in Op, Raise(op)
    PROVE  LeftIInv'
  <1>1. LockIInv'
    BY FilesKeepLock DEF LeftIInv
  <1>2. /\ Alone(op) /\ UNCHANGED <<step, file, backup>> /\ pc[op] \in {"ready", "running"}
        /\ pc'[op] = "closing" /\ status'[op] = "raised" /\ (cut => cut')
    BY DEF Raise, AtCommand, Alone, Goto, LeftIInv, LockIInv, TypeOK
  <1>3. CASE ~Cloning(op)
    <2>1. repo' = repo
      BY <1>3 DEF Raise, Cloning
    <2>2. QED
      BY <1>1, <1>2, <1>3, <2>1, MovesKeepLeft
  <1>4. CASE Cloning(op)
    <2>1. \A x \in Op : StepHonest(x)'
      <3>1. StepHonest(op)'
        BY <1>2 DEF LeftIInv, StepHonest, Alone
      <3>2. QED
        BY <1>2, <3>1, StepsStayHonest
    <2>2. NothingOverwritten'
      BY <1>2, VersionsKept
    <2>3. \A x \in Op : ~HasCloned(x)'
      BY <1>2, <1>4 DEF LeftIInv, CloneHonest, HasCloned, Alone
    <2>4. \A x \in Op : ~Cloning(x)'
      BY <1>2, <1>4, OnlyOneWorks DEF LeftIInv, Cloning, Alone, Step, Work
    <2>5. repo' = "partial" => cut'
      BY <1>4 DEF Raise, Cloning
    <2>6. CloneHonest'
      BY <2>3, <2>4, <2>5 DEF CloneHonest
    <2>7. QED
      BY <1>1, <2>1, <2>2, <2>6 DEF LeftIInv
  <1>5. QED
    BY <1>3, <1>4

LEMMA OthersKeepLeft ==
    ASSUME LeftIInv, LockIInv', NEW op \in Op,
           \/ Acquire(op) \/ Blocked(op) \/ NameHolder(op) \/ Start(op) \/ RemoveHolder(op)
           \/ RemoveLock(op) \/ ReleaseFails(op) \/ Report(op) \/ WriteFails(op)
           \/ Finish(op) \/ Die(op) \/ BackUp(op)
    PROVE  LeftIInv'
  <1>1. /\ UNCHANGED <<plan, repo, file, step>> /\ (cut => cut')
        /\ \E place \in {"locked", "done", "starting", "ready", "unlocking", "thrown",
                         "reporting", "closing", "dead", "backed"} :
              pc' = [pc EXCEPT ![op] = place] /\ (place = "backed" => BackUp(op))
        /\ status' = status \/ \E what \in {"blocked", "failed"} :
              status' = [status EXCEPT ![op] = what]
           \/ Finish(op)
    <2>1. UNCHANGED <<plan, repo, file, step>>
      BY DEF Acquire, Blocked, NameHolder, Start, RemoveHolder, RemoveLock, ReleaseFails, Report,
             WriteFails, Finish, Die, BackUp
    <2>2. cut => cut'
      BY Zenon DEF Acquire, Blocked, NameHolder, Start, RemoveHolder, RemoveLock, ReleaseFails, Report,
             WriteFails, Finish, Die, BackUp
    <2>3. \E place \in {"locked", "done", "starting", "ready", "unlocking", "thrown",
                         "reporting", "closing", "dead", "backed"} :
              pc' = [pc EXCEPT ![op] = place] /\ (place = "backed" => BackUp(op))
      BY DEF Acquire, Blocked, NameHolder, Start, RemoveHolder, RemoveLock, ReleaseFails, Report,
             WriteFails, Finish, Die, Goto, BackUp
    <2>4. status' = status \/ (\E what \in {"blocked", "failed"} :
              status' = [status EXCEPT ![op] = what])
           \/ Finish(op)
      BY DEF Acquire, Blocked, NameHolder, Start, RemoveHolder, RemoveLock, ReleaseFails, Report,
             WriteFails, Die, BackUp
    <2>5. QED
      BY <2>1, <2>2, <2>3, <2>4
  <1>2. /\ pc \in [Op -> {pc[x] : x \in Op}] /\ status \in [Op -> {status[x] : x \in Op}]
    BY DEF LeftIInv, LockIInv, TypeOK
  <1>3. /\ backup \subseteq backup'
        /\ BackUp(op) => AtFile(op) /\ <<Step(op), file[Step(op)]>> \in backup'
    BY DEF Acquire, Blocked, NameHolder, Start, RemoveHolder, RemoveLock, ReleaseFails, Report, WriteFails,
           Finish, Die, BackUp
  <1>4. Alone(op)
    BY <1>1, <1>2 DEF Alone, Finish
  <1>5. Cloning(op) => cut'
    BY DEF Acquire, Blocked, NameHolder, Start, RemoveHolder, RemoveLock, ReleaseFails, Report, WriteFails,
           Finish, Die, BackUp, Cloning, AtFile, File
  <1>6. /\ pc'[op] # "running" /\ (pc'[op] = "backed" => BackUp(op))
        /\ status'[op] = "completed" => status[op] = "completed" \/ Finish(op)
    BY <1>1, <1>2
  <1>7. QED
    BY <1>1, <1>3, <1>4, <1>5, <1>6, MovesKeepLeft DEF Finish

LEMMA LeftStep == LeftIInv /\ [Next]_vars => LeftIInv'
  <1> SUFFICES ASSUME LeftIInv, [Next]_vars PROVE LeftIInv'
    OBVIOUS
  <1>1. LockIInv'
    BY LockStep DEF LeftIInv
  <1>2. ASSUME NEW op \in Op, Acquire(op) \/ Blocked(op) \/ OpStep(op) \/ Raise(op) \/ Die(op)
        PROVE  LeftIInv'
    BY <1>1, <1>2, OthersKeepLeft, RaiseKeepsLeft, ReplaceKeepsLeft, CommandsKeepLeft
       DEF OpStep
  <1>3. CASE UNCHANGED vars
    BY <1>1, <1>3 DEF vars, LeftIInv, StepHonest, AtFile, Step, CloneHonest, Cloning, HasCloned,
       NothingOverwritten
  <1>4. QED
    BY <1>2, <1>3 DEF Next

\* A repair never loses a version: each that was put in place, and the one before the
\* first, is in place or kept aside, for every plan and wherever operations die.
THEOREM VersionsSurvive == Spec => []NothingOverwritten
  <1>1. LeftIInv => NothingOverwritten
    BY DEF LeftIInv
  <1>2. Init => LeftIInv
    BY LeftInit
  <1>3. QED
    BY <1>1, <1>2, LeftStep, PTL DEF Spec

\* An install that reports success leaves a clone, and a partial one only if some clone
\* was cut short.
THEOREM InstallsLeaveRepositories == Spec => []InstallsLeaveClones
  <1>1. LeftIInv => InstallsLeaveClones
    <2> SUFFICES ASSUME LeftIInv, NEW op \in Op, status[op] = "completed",
                        NEW i \in DOMAIN plan[op], plan[op][i] = "clone"
                 PROVE  repo = "whole" \/ (repo = "partial" /\ cut)
      BY DEF InstallsLeaveClones
    <2>1. step[op] \notin DOMAIN plan[op] /\ step[op] >= 1 /\ step[op] \in Nat
      BY DEF LeftIInv, StepHonest, LockIInv, TypeOK
    <2>2. i < step[op]
      BY <2>1, PlansAreSequences DEF LeftIInv, LockIInv
    <2>3. repo # "absent" /\ \A x \in Op : ~Cloning(x)
      BY <2>2 DEF LeftIInv, CloneHonest, HasCloned
    <2>4. QED
      BY <2>3 DEF LeftIInv, CloneHonest, LockIInv, TypeOK
  <1>2. Init => LeftIInv
    BY LeftInit
  <1>3. QED
    BY <1>1, <1>2, LeftStep, PTL DEF Spec
-----------------------------------------------------------------------------
(* Clones that were skipped.                                               *)

Skipped(op) == \E i \in DOMAIN log[op] : log[op][i] = "skipped"

Entry == {"blocked", "started", "skipped", "command.started", "command.completed",
          "completed"}

\* The inductive invariant of what was skipped, beside that of what is left behind:
\* an operation that skipped a clone is past it.
SkipIInv ==
    /\ LeftIInv
    /\ log \in [Op -> Seq(Entry)]
    /\ \A op \in Op : Skipped(op) => HasCloned(op)

\* A step logs one entry at most, "skipped" only for a clone that it skips; no plan
\* changes and no operation goes back.
LEMMA EntriesAndSteps ==
    ASSUME NEW op \in Op,
           Acquire(op) \/ Blocked(op) \/ OpStep(op) \/ Raise(op) \/ Die(op)
    PROVE  /\ plan' = plan
           /\ step' = step \/ step' = [step EXCEPT ![op] = @ + 1]
           /\ \/ log' = log
              \/ \E what \in Entry : /\ log' = [log EXCEPT ![op] = Append(@, what)]
                                     /\ what = "skipped" => SkipClone(op)
  <1>1. plan' = plan
    BY DEF Acquire, Blocked, OpStep, Raise, Die, NameHolder, Start, SkipClone, RunCommand,
           Succeed, Fail, TimeOut, BackUp, Replace, WriteFails, Finish, RemoveHolder,
           RemoveLock, ReleaseFails, Report
  <1>2. step' = step \/ step' = [step EXCEPT ![op] = @ + 1]
    BY DEF Acquire, Blocked, OpStep, Raise, Die, NameHolder, Start, SkipClone, RunCommand,
           Succeed, Fail, TimeOut, BackUp, Replace, WriteFails, Finish, RemoveHolder,
           RemoveLock, ReleaseFails, Report, After
  <1>3. \/ log' = log
        \/ \E what \in Entry : /\ log' = [log EXCEPT ![op] = Append(@, what)]
                               /\ what = "skipped" => SkipClone(op)
    <2>1. CASE SkipClone(op)
      BY <2>1 DEF SkipClone, Log, Entry
    <2>2. CASE Blocked(op) \/ Start(op) \/ RunCommand(op) \/ Report(op)
      BY <2>2 DEF Blocked, Start, RunCommand, Report, Log, Entry
    <2>3. CASE Succeed(op) \/ Fail(op) \/ TimeOut(op)
      BY <2>3 DEF Succeed, Fail, TimeOut, After, Log, Entry
    <2>4. CASE \/ Acquire(op) \/ NameHolder(op) \/ BackUp(op) \/ Replace(op)
               \/ WriteFails(op) \/ Finish(op) \/ RemoveHolder(op) \/ RemoveLock(op)
               \/ ReleaseFails(op)
               \/ Raise(op) \/ Die(op)
      BY <2>4 DEF Acquire, NameHolder, BackUp, Replace, WriteFails, Finish, RemoveHolder,
                  RemoveLock, ReleaseFails, Raise, Die
    <2>5. QED
      BY <2>1, <2>2, <2>3, <2>4 DEF OpStep
  <1>4. QED
    BY <1>1, <1>2, <1>3

LEMMA SkipInit == Init => SkipIInv
  <1> SUFFICES ASSUME Init PROVE SkipIInv
    OBVIOUS
  <1>1. LeftIInv
    BY LeftInit
  <1>2. log \in [Op -> Seq(Entry)] /\ \A op \in Op : ~Skipped(op)
    BY DEF Init, Skipped
  <1>3. QED
    BY <1>1, <1>2 DEF SkipIInv

LEMMA SkipStep == SkipIInv /\ [Next]_vars => SkipIInv'
  <1> SUFFICES ASSUME SkipIInv, [Next]_vars PROVE SkipIInv'
    OBVIOUS
  <1>0. LeftIInv /\ LeftIInv'
    BY LeftStep DEF SkipIInv
  <1>1. ASSUME NEW op \in Op,
               Acquire(op) \/ Blocked(op) \/ OpStep(op) \/ Raise(op) \/ Die(op)
        PROVE  SkipIInv'
    <2>1. /\ plan' = plan /\ step \in [Op -> Nat]
          /\ step' = step \/ step' = [step EXCEPT ![op] = @ + 1]
      BY <1>0, <1>1, EntriesAndSteps DEF LeftIInv, LockIInv, TypeOK
    <2>2. ASSUME NEW x \in Op, HasCloned(x) PROVE HasCloned(x)'
      <3>1. PICK i \in DOMAIN plan[x] : plan[x][i] = "clone" /\ i < step[x]
        BY <2>2 DEF HasCloned
      <3>2. i \in Nat
        BY <1>0, PlansAreSequences DEF LeftIInv, LockIInv
      <3>3. i < step'[x]
        BY <2>1, <3>1, <3>2
      <3>4. QED
        BY <2>1, <3>1, <3>3 DEF HasCloned
    <2>3. CASE log' = log
      BY <1>0, <2>2, <2>3 DEF SkipIInv, Skipped
    <2>4. ASSUME NEW what \in Entry, log' = [log EXCEPT ![op] = Append(@, what)],
                 what = "skipped" => SkipClone(op)
          PROVE  SkipIInv'
      <3>1. log[op] \in Seq(Entry) /\ log' \in [Op -> Seq(Entry)]
        BY <2>4 DEF SkipIInv
      <3>2. log'[op] = Append(log[op], what) /\ \A x \in Op \ {op} : log'[x] = log[x]
        BY <2>4 DEF SkipIInv
      <3>3. ASSUME NEW x \in Op, Skipped(x)'
            PROVE  Skipped(x) \/ (x = op /\ what = "skipped")
        <4>1. CASE x = op
          BY <3>1, <3>2, <3>3, <4>1 DEF Skipped
        <4>2. CASE x # op
          BY <3>2, <3>3, <4>2 DEF Skipped
        <4>3. QED
          BY <4>1, <4>2
      <3>4. ASSUME SkipClone(op) PROVE HasCloned(op)'
        <4>1. /\ step[op] \in DOMAIN plan[op] /\ plan[op][step[op]] = "clone"
              /\ step'[op] = step[op] + 1 /\ step[op] \in Nat
          BY <2>1, <3>4 DEF SkipClone, AtCommand, Step
        <4>2. step[op] < step'[op]
          BY <4>1
        <4>3. QED
          BY <2>1, <4>1, <4>2 DEF HasCloned
      <3>5. \A x \in Op : Skipped(x)' => HasCloned(x)'
        BY <2>2, <2>4, <3>3, <3>4 DEF SkipIInv
      <3>6. QED
        BY <1>0, <3>1, <3>5 DEF SkipIInv
    <2>5. QED
      BY <1>0, <1>1, <2>3, <2>4, EntriesAndSteps
  <1>2. CASE UNCHANGED vars
    BY <1>0, <1>2 DEF vars, SkipIInv, Skipped, HasCloned
  <1>3. QED
    BY <1>1, <1>2 DEF Next

\* The clone an operation skipped as existing already is whole as long as no clone was
\* killed or left behind: a clone that goes on, or fails, is never mistaken for one
\* (operations.py:233-244).  A clone that was cut short is the only way to break what
\* SkippedCloneIsWhole says.
THEOREM SkippedClonesAreWhole == Spec => [](~cut => SkippedCloneIsWhole)
  <1>1. SkipIInv => (~cut => SkippedCloneIsWhole)
    <2> SUFFICES ASSUME SkipIInv, ~cut, NEW op \in Op, Skipped(op) PROVE repo = "whole"
      BY DEF SkippedCloneIsWhole, Skipped
    <2>1. HasCloned(op) /\ LeftIInv
      BY DEF SkipIInv
    <2>2. repo # "absent" /\ \A x \in Op : ~Cloning(x)
      BY <2>1 DEF LeftIInv, CloneHonest
    <2>3. QED
      BY <2>1, <2>2 DEF LeftIInv, CloneHonest, LockIInv, TypeOK
  <1>2. QED
    BY <1>1, SkipInit, SkipStep, PTL DEF Spec
-----------------------------------------------------------------------------
(* The two files of a repair.                                              *)

Repairing(op) == \E i \in DOMAIN plan[op] : plan[op][i] \in File

\* A repair that is not at work, nor failed or died: its files are both its own, or not.
Quiet(op) == pc[op] \in {"idle", "reporting", "done"} /\ status[op] # "failed"

OthersQuiet(op) == \A x \in Op \ {op} : Repairing(x) => Quiet(x)

\* The files a repair finds, and leaves after each of its steps.
PairSoFar(op) ==
    /\ step[op] = 1 => file["wrapper"] = file["manifest"]
    /\ step[op] = 2 => file["wrapper"] = op
    /\ step[op] = 3 => file["wrapper"] = op /\ file["manifest"] = op

RepairHonest(op) ==
    /\ step[op] \in 1..3
    /\ pc[op] = "idle" => step[op] = 1
    /\ pc[op] \in {"idle", "locked", "starting", "ready", "backed"} => status[op] = "none"
    /\ pc[op] \in {"closing", "unlocking"} => status[op] \in {"failed", "completed"}
    /\ pc[op] \in Work /\ status[op] # "failed" /\ OthersQuiet(op) => PairSoFar(op)

PairHonest ==
    /\ \A op \in Op : Repairing(op) => RepairHonest(op)
    /\ FilesBelongTogether

PairIInv == LeftIInv /\ PairHonest

LEMMA RepairsWriteBoth ==
    ASSUME TypeOK, NEW op \in Op, Repairing(op)
    PROVE  plan[op] = <<"wrapper", "manifest">> /\ DOMAIN plan[op] = 1..2
  BY RepairAssumption DEF TypeOK, Repairing

Together ==
    (\A op \in Op : Repairing(op) => Quiet(op)) => file["wrapper"] = file["manifest"]

LEMMA TogetherDef == FilesBelongTogether <=> Together
  <1>1. \A op \in Op : (Repairing(op) => Quiet(op)) <=>
            ((\E i \in DOMAIN plan[op] : plan[op][i] \in File) =>
                pc[op] \in {"idle", "reporting", "done"} /\ status[op] # "failed")
    BY DEF Repairing, Quiet
  <1>2. QED
    BY <1>1, Zenon DEF FilesBelongTogether, Together

LEMMA PairInit == Init => PairIInv
  <1> SUFFICES ASSUME Init PROVE PairIInv
    OBVIOUS
  <1>1. \A op \in Op : RepairHonest(op)
    BY DEF Init, RepairHonest, Work
  <1>2. FilesBelongTogether
    BY DEF Init, FilesBelongTogether, File
  <1>3. QED
    BY <1>1, <1>2, LeftInit DEF PairIInv, PairHonest

\* A step that leaves the files alone, and makes nobody quiet who was not.
LEMMA NobodyQuieter ==
    ASSUME PairIInv, LeftIInv', NEW op \in Op, Alone(op), UNCHANGED file,
           Repairing(op) => RepairHonest(op)' /\ (Quiet(op)' => Quiet(op))
    PROVE  PairIInv'
  <1>1. \A x \in Op : Repairing(x)' <=> Repairing(x)
    BY DEF Alone, Repairing
  <1>2. ASSUME NEW x \in Op, x # op
        PROVE  /\ Quiet(x)' <=> Quiet(x)
               /\ pc'[x] = pc[x] /\ status'[x] = status[x] /\ step'[x] = step[x]
               /\ PairSoFar(x)' <=> PairSoFar(x)
    BY <1>2 DEF Alone, Quiet, PairSoFar
  <1>3. \A x \in Op : Repairing(x)' /\ Quiet(x)' => Quiet(x)
    BY <1>1, <1>2
  <1>4. \A x \in Op : Repairing(x) => RepairHonest(x)'
    <2> SUFFICES ASSUME NEW x \in Op, Repairing(x), x # op PROVE RepairHonest(x)'
      OBVIOUS
    <2>1. OthersQuiet(x)' => OthersQuiet(x)
      BY <1>1, <1>3 DEF OthersQuiet
    <2>2. RepairHonest(x)
      BY DEF PairIInv, PairHonest
    <2>3. QED
      BY <1>2, <2>1, <2>2 DEF RepairHonest
  <1>5. FilesBelongTogether'
    <2>1. FilesBelongTogether
      BY DEF PairIInv, PairHonest
    <2>2. Together
      BY <2>1, TogetherDef
    <2>3. Together'
      BY <1>1, <1>3, <2>2 DEF Together
    <2>4. QED
      BY <2>3, TogetherDef, PTL
  <1>6. QED
    BY <1>1, <1>4, <1>5 DEF PairIInv, PairHonest

\* The facts about a repair that its steps use.
LEMMA RepairFacts ==
    ASSUME PairIInv, NEW op \in Op, Repairing(op)
    PROVE  /\ step[op] \in 1..3 /\ RepairHonest(op) /\ StepHonest(op)
           /\ plan[op] = <<"wrapper", "manifest">> /\ DOMAIN plan[op] = 1..2
           /\ ~AtCommand(op) /\ pc[op] # "running"
           /\ step[op] = 1 => Step(op) = "wrapper"
           /\ step[op] = 2 => Step(op) = "manifest"
  <1>1. /\ RepairHonest(op) /\ StepHonest(op)
        /\ plan[op] = <<"wrapper", "manifest">> /\ DOMAIN plan[op] = 1..2
    BY RepairsWriteBoth DEF PairIInv, PairHonest, LeftIInv, LockIInv
  <1>2. /\ step[op] \in DOMAIN plan[op] => Step(op) \notin Command
        /\ step[op] = 1 => Step(op) = "wrapper"
        /\ step[op] = 2 => Step(op) = "manifest"
    BY <1>1 DEF Step, Command
  <1>3. QED
    BY <1>1, <1>2 DEF RepairHonest, StepHonest, AtCommand

\* A repair is let in only while everything is quiet or something has failed.
LEMMA AcquireKeepsPairs ==
    ASSUME PairIInv, LeftIInv', NEW op \in Op, Acquire(op)
    PROVE  PairIInv'
  <1>1. /\ Alone(op) /\ UNCHANGED <<file, step, status>> /\ pc'[op] = "locked" /\ pc[op] = "idle"
    BY DEF Acquire, Alone, Goto, PairIInv, LeftIInv, LockIInv, TypeOK
  <1>2. ASSUME Repairing(op)
        PROVE  RepairHonest(op)'
    <2>1. step[op] = 1 /\ status[op] = "none" /\ Quiet(op)
      BY <1>1, <1>2, RepairFacts DEF RepairHonest, Quiet
    <2>2. OthersQuiet(op)' => OthersQuiet(op)
      BY <1>1 DEF OthersQuiet, Repairing, Quiet, Alone
    <2>3. OthersQuiet(op) => file["wrapper"] = file["manifest"]
      <3>1. Together
        BY TogetherDef DEF PairIInv, PairHonest
      <3>2. QED
        BY <2>1, <3>1 DEF Together, OthersQuiet
    <2>4. QED
      BY <1>1, <2>1, <2>2, <2>3 DEF RepairHonest, PairSoFar
  <1>3. ~Quiet(op)'
    BY <1>1 DEF Quiet
  <1>4. QED
    BY <1>1, <1>2, <1>3, NobodyQuieter

\* Steps of a repair at work that leave it at work, or that failed, or end it otherwise.
LEMMA MovesKeepPairs ==
    ASSUME PairIInv, LeftIInv', NEW op \in Op, Alone(op), UNCHANGED file,
           step'[op] = step[op], pc[op] # "idle",
           Repairing(op) =>
               /\ pc'[op] \notin {"idle", "reporting", "done"} \/ status'[op] = "failed" \/ Quiet(op)
               /\ pc'[op] \in {"locked", "starting", "ready", "backed"} => status'[op] = "none"
               /\ pc'[op] \in {"closing", "unlocking"} => status'[op] \in {"failed", "completed"}
               /\ pc'[op] # "idle"
               /\ pc'[op] \in Work /\ status'[op] # "failed" =>
                      pc[op] \in Work /\ status[op] # "failed"
    PROVE  PairIInv'
  <1>1. ASSUME Repairing(op)
        PROVE  RepairHonest(op)'
    <2>1. OthersQuiet(op)' => OthersQuiet(op)
      BY DEF OthersQuiet, Repairing, Quiet, Alone
    <2>2. PairSoFar(op)' <=> PairSoFar(op)
      BY DEF PairSoFar
    <2>3. RepairHonest(op)
      BY <1>1, RepairFacts
    <2>4. QED
      BY <1>1, <2>1, <2>2, <2>3 DEF RepairHonest
  <1>2. Repairing(op) => (Quiet(op)' => Quiet(op))
    BY DEF Quiet
  <1>3. QED
    BY <1>1, <1>2, NobodyQuieter

LEMMA BlockedKeepsPairs ==
    ASSUME PairIInv, LeftIInv', NEW op \in Op, Blocked(op)
    PROVE  PairIInv'
  <1>1. /\ Alone(op) /\ UNCHANGED <<file, step>> /\ pc'[op] = "done" /\ pc[op] = "idle"
        /\ status'[op] = "blocked"
    BY DEF Blocked, Alone, Goto, PairIInv, LeftIInv, LockIInv, TypeOK
  <1>2. Repairing(op) => RepairHonest(op)' /\ Quiet(op)
    BY <1>1, RepairFacts DEF RepairHonest, Quiet, Work
  <1>3. QED
    BY <1>1, <1>2, NobodyQuieter

\* A file is replaced: nobody else is at work, and the repair is not quiet.
LEMMA ReplaceKeepsPairs ==
    ASSUME PairIInv, LeftIInv', NEW op \in Op, Replace(op)
    PROVE  PairIInv'
  <1>1. /\ Alone(op) /\ UNCHANGED status /\ pc'[op] = "ready" /\ pc[op] = "backed"
        /\ step'[op] = step[op] + 1 /\ file' = [file EXCEPT ![Step(op)] = op]
        /\ file \in [File -> Op \cup {NoOp}] /\ AtFile(op)
    BY DEF Replace, Alone, Goto, PairIInv, LeftIInv, LockIInv, TypeOK, StepHonest
  <1>2. Repairing(op)
    BY <1>1 DEF AtFile, Repairing, Step
  <1>3. /\ step[op] \in 1..2 /\ RepairHonest(op)
        /\ step[op] = 1 => Step(op) = "wrapper"
        /\ step[op] = 2 => Step(op) = "manifest"
    BY <1>1, <1>2, RepairFacts DEF AtFile
  <1>4. RepairHonest(op)'
    <2>1. OthersQuiet(op)' => OthersQuiet(op)
      BY <1>1 DEF OthersQuiet, Repairing, Quiet, Alone
    <2>2. PairSoFar(op) => PairSoFar(op)'
      BY <1>1, <1>3 DEF PairSoFar, File
    <2>3. QED
      BY <1>1, <1>3, <2>1, <2>2 DEF RepairHonest, Work
  <1>5. ASSUME NEW x \in Op, x # op, Repairing(x)
        PROVE  RepairHonest(x)'
    <2>1. pc[x] \notin Work
      BY <1>1, <1>5, OnlyOneWorks DEF PairIInv, LeftIInv, Work
    <2>2. RepairHonest(x) /\ pc'[x] = pc[x] /\ step'[x] = step[x] /\ status'[x] = status[x]
      BY <1>1, <1>5 DEF PairIInv, PairHonest, Alone
    <2>3. QED
      BY <2>1, <2>2 DEF RepairHonest
  <1>6. \A x \in Op : Repairing(x)' <=> Repairing(x)
    BY <1>1 DEF Alone, Repairing
  <1>7. FilesBelongTogether'
    <2>1. ~Quiet(op)'
      BY <1>1 DEF Quiet
    <2>2. Together'
      BY <1>2, <1>6, <2>1 DEF Together
    <2>3. QED
      BY <2>2, TogetherDef, PTL
  <1>8. QED
    BY <1>4, <1>5, <1>6, <1>7 DEF PairIInv, PairHonest

\* The lock is given back, or left behind: a repair that completed has put both files
\* in place.
LEMMA ReleaseKeepsPairs ==
    ASSUME PairIInv, LeftIInv', NEW op \in Op, RemoveLock(op) \/ ReleaseFails(op)
    PROVE  PairIInv'
  <1>1. /\ Alone(op) /\ UNCHANGED <<file, step, status>>
        /\ pc[op] \in {"closing", "unlocking"} /\ pc'[op] \in {"thrown", "reporting"}
    BY DEF RemoveLock, ReleaseFails, Alone, Goto, PairIInv, LeftIInv, LockIInv, TypeOK
  <1>2. \A x \in Op : Repairing(x)' <=> Repairing(x)
    BY <1>1 DEF Alone, Repairing
  <1>3. ASSUME NEW x \in Op, Repairing(x)
        PROVE  RepairHonest(x)'
    <2>1. RepairHonest(x) /\ (x # op => pc[x] \notin Work)
      BY <1>1, <1>3, OnlyOneWorks DEF PairIInv, PairHonest, LeftIInv, Work
    <2>2. CASE x = op
      BY <1>1, <2>1, <2>2 DEF RepairHonest, Work
    <2>3. CASE x # op
      BY <1>1, <2>1, <2>3 DEF RepairHonest, Alone
    <2>4. QED
      BY <2>2, <2>3
  <1>4. Together'
    <2> SUFFICES ASSUME \A x \in Op : Repairing(x)' => Quiet(x)'
                 PROVE  file'["wrapper"] = file'["manifest"]
      BY DEF Together
    <2>1. CASE ~Repairing(op)
      <3>1. \A x \in Op : Repairing(x) => Quiet(x)
        BY <1>1, <1>2, <2>1 DEF Quiet, Alone
      <3>2. QED
        BY <1>1, <3>1, TogetherDef DEF Together, PairIInv, PairHonest
    <2>2. CASE Repairing(op)
      <3>1. OthersQuiet(op) /\ status[op] # "failed"
        BY <1>1, <1>2, <2>2 DEF OthersQuiet, Quiet, Alone
      <3>2. RepairHonest(op) /\ StepHonest(op) /\ DOMAIN plan[op] = 1..2
        BY <2>2, RepairFacts
      <3>3. step[op] = 3
        BY <1>1, <3>1, <3>2 DEF RepairHonest, StepHonest
      <3>4. PairSoFar(op)
        BY <1>1, <3>1, <3>2 DEF RepairHonest, Work
      <3>5. QED
        BY <1>1, <3>3, <3>4 DEF PairSoFar
    <2>3. QED
      BY <2>1, <2>2
  <1>5. FilesBelongTogether'
    BY <1>4, TogetherDef, PTL
  <1>6. QED
    BY <1>2, <1>3, <1>5 DEF PairIInv, PairHonest

\* Commands are not steps of a repair.
LEMMA CommandsKeepPairs ==
    ASSUME PairIInv, LeftIInv', NEW op \in Op,
           \/ SkipClone(op) \/ RunCommand(op) \/ Succeed(op) \/ Fail(op) \/ TimeOut(op)
           \/ Raise(op)
    PROVE  PairIInv'
  <1>1. AtCommand(op) \/ pc[op] = "running"
    BY DEF SkipClone, RunCommand, Succeed, Fail, TimeOut, Raise
  <1>2. ~Repairing(op)
    BY <1>1, RepairFacts
  <1>3. Alone(op) /\ UNCHANGED file
    BY DEF SkipClone, RunCommand, Succeed, Fail, TimeOut, Raise, After, Goto, Alone,
       PairIInv, LeftIInv, LockIInv, TypeOK
  <1>4. QED
    BY <1>2, <1>3, NobodyQuieter

LEMMA OthersKeepPairs ==
    ASSUME PairIInv, LeftIInv', NEW op \in Op,
           \/ NameHolder(op) \/ Start(op) \/ RemoveHolder(op) \/ Report(op)
           \/ BackUp(op) \/ WriteFails(op) \/ Finish(op) \/ Die(op)
    PROVE  PairIInv'
  <1>1. Alone(op) /\ UNCHANGED <<file, step>> /\ pc[op] # "idle"
    BY DEF NameHolder, Start, RemoveHolder, Report, BackUp, WriteFails, Finish, Die, Goto, Alone,
       PairIInv, LeftIInv, LockIInv, TypeOK
  <1>2. /\ pc \in [Op -> {pc[x] : x \in Op}] /\ status \in [Op -> {status[x] : x \in Op}]
    BY DEF PairIInv, LeftIInv, LockIInv, TypeOK
  <1>3. ASSUME Repairing(op)
        PROVE  RepairHonest(op)
    BY <1>3, RepairFacts
  <1>4. CASE NameHolder(op) \/ Start(op) \/ BackUp(op)
    <2>1. /\ pc[op] \in {"locked", "starting", "ready"} /\ status' = status
          /\ pc'[op] \in {"starting", "ready", "backed"}
      BY <1>2, <1>4 DEF NameHolder, Start, BackUp, Goto
    <2>2. QED
      BY <1>1, <1>3, <2>1, MovesKeepPairs DEF RepairHonest, Work
  <1>5. CASE RemoveHolder(op)
    <2>1. pc[op] = "closing" /\ pc'[op] = "unlocking" /\ status' = status
      BY <1>2, <1>5 DEF RemoveHolder, Goto
    <2>2. QED
      BY <1>1, <1>3, <2>1, MovesKeepPairs DEF RepairHonest, Work
  <1>6. CASE Report(op)
    <2>1. pc[op] = "reporting" /\ pc'[op] = "done" /\ status' = status
      BY <1>2, <1>6 DEF Report, Goto
    <2>2. QED
      BY <1>1, <2>1, MovesKeepPairs DEF Quiet, Work
  <1>7. CASE WriteFails(op)
    <2>1. pc'[op] = "closing" /\ status'[op] = "failed"
      BY <1>2, <1>7 DEF WriteFails, Goto
    <2>2. QED
      BY <1>1, <2>1, MovesKeepPairs
  <1>8. CASE Finish(op)
    <2>1. pc[op] = "ready" /\ pc'[op] = "closing" /\ status'[op] = "completed"
      BY <1>2, <1>8 DEF Finish, Goto
    <2>2. QED
      BY <1>1, <1>3, <2>1, MovesKeepPairs DEF RepairHonest, Work
  <1>9. CASE Die(op)
    <2>1. pc'[op] = "dead"
      BY <1>2, <1>9 DEF Die, Goto
    <2>2. QED
      BY <1>1, <2>1, MovesKeepPairs DEF Work
  <1>10. QED
    BY <1>4, <1>5, <1>6, <1>7, <1>8, <1>9

LEMMA PairStep == PairIInv /\ [Next]_vars => PairIInv'
  <1> SUFFICES ASSUME PairIInv, [Next]_vars PROVE PairIInv'
    OBVIOUS
  <1>1. LeftIInv'
    BY LeftStep DEF PairIInv
  <1>2. ASSUME NEW op \in Op, Acquire(op) \/ Blocked(op) \/ OpStep(op) \/ Raise(op) \/ Die(op)
        PROVE  PairIInv'
    BY <1>1, <1>2, AcquireKeepsPairs, BlockedKeepsPairs, ReplaceKeepsPairs,
       ReleaseKeepsPairs, CommandsKeepPairs, OthersKeepPairs DEF OpStep
  <1>3. CASE UNCHANGED vars
    <2>1. (\A op \in Op : Repairing(op) => RepairHonest(op))'
      BY <1>3 DEF vars, PairIInv, PairHonest, Repairing, RepairHonest, OthersQuiet, Quiet,
         PairSoFar
    <2>2. FilesBelongTogether'
      BY <1>3 DEF vars, PairIInv, PairHonest, FilesBelongTogether
    <2>3. QED
      BY <1>1, <2>1, <2>2 DEF PairIInv, PairHonest
  <1>4. QED
    BY <1>2, <1>3 DEF Next

\* Wrapper and manifest are of one repair whenever no repair is at work, failed or died.
THEOREM RepairsLeavePairs == Spec => []FilesBelongTogether
  <1>1. PairIInv => FilesBelongTogether
    BY DEF PairIInv, PairHonest
  <1>2. QED
    BY <1>1, PairInit, PairStep, PTL DEF Spec
=============================================================================
