--------------------------- MODULE PluginOperation ---------------------------
(***************************************************************************)
(* PluginOperationRunner of cbn_plugins/operations.py: installs, updates   *)
(* and repairs of one plugin by concurrent daemon threads and CLI          *)
(* processes.  A directory created with mkdir is their lock; a file inside *)
(* it names the holder.  An operation runs its commands (execute) or       *)
(* writes its files (execute_write) under the lock, removes the holder     *)
(* file and the directory, and reports.  It may raise or die at any step,  *)
(* and nobody ever breaks a lock that was left behind.                     *)
(***************************************************************************)
EXTENDS Integers, Sequences, FiniteSets

CONSTANTS
    Op,        \* the operations
    Plan,      \* the plans an operation may be given
    NoOp       \* no operation

\* The steps of a plan: commands of PluginManager.plan, or the files a repair writes.
Command == {"pip", "clone", "pull", "skill"}
File    == {"wrapper", "manifest"}

ASSUME PlanAssumption ==
    /\ NoOp \notin Op
    /\ Plan \subseteq Seq(Command) \cup Seq(File)

\* A repair writes the wrapper, then the manifest (_write_repair_entrypoint_files).
ASSUME RepairAssumption ==
    \A p \in Plan : (\E i \in DOMAIN p : p[i] \in File) => p = <<"wrapper", "manifest">>

VARIABLES
    lock,      \* the lock directory exists
    holder,    \* the operation the holder file names
    stuck,     \* the operation whose release failed, and left the lock behind
    repo,      \* the plugin's clone: "absent", "partial" or "whole"
    file,      \* the operation whose version each file holds (NoOp: an older one)
    backup,    \* the versions kept aside
    pc, plan, step, status,     \* where each operation stands
    cut,       \* a clone was killed, or its operation died, while it ran
    log        \* log[op]: audit records of op, each followed by its event

vars == <<lock, holder, stuck, repo, file, backup, pc, plan, step, status, cut, log>>

Init ==
    /\ lock = FALSE
    /\ holder = NoOp
    /\ stuck = NoOp
    /\ repo \in {"absent", "whole"}
    /\ file = [f \in File |-> NoOp]
    /\ backup = {}
    /\ pc = [op \in Op |-> "idle"]
    /\ plan \in [Op -> Plan]
    /\ step = [op \in Op |-> 1]
    /\ status = [op \in Op |-> "none"]
    /\ cut = FALSE
    /\ log = [op \in Op |-> <<>>]

Goto(op, place) == pc' = [pc EXCEPT ![op] = place]
Log(op, what)   == log' = [log EXCEPT ![op] = Append(@, what)]

Step(op) == plan[op][step[op]]

-----------------------------------------------------------------------------
(* The lock.                                                               *)

\* Faulty variant: a directory that exists already is taken for one's own.
AcquireAnyway(op) ==
    /\ pc[op] = "idle"
    /\ lock' = TRUE
    /\ Goto(op, "locked")
    /\ UNCHANGED <<stuck, holder, repo, file, backup, plan, step, status, cut, log>>

\* _acquire_lock: mkdir succeeds.
Acquire(op) ==
    /\ pc[op] = "idle"
    /\ ~lock
    /\ lock' = TRUE
    /\ Goto(op, "locked")
    /\ UNCHANGED <<stuck, holder, repo, file, backup, plan, step, status, cut, log>>

\* _acquire_lock: the directory exists, and the operation reports itself blocked.
Blocked(op) ==
    /\ pc[op] = "idle"
    /\ lock
    /\ status' = [status EXCEPT ![op] = "blocked"]
    /\ Log(op, "blocked")
    /\ Goto(op, "done")
    /\ UNCHANGED <<stuck, lock, holder, repo, file, backup, plan, step, cut>>

NameHolder(op) ==
    /\ pc[op] = "locked"
    /\ holder' = op
    /\ Goto(op, "starting")
    /\ UNCHANGED <<stuck, lock, repo, file, backup, plan, step, status, cut, log>>

\* The started record, outside the try block that releases the lock.
Start(op) ==
    /\ pc[op] = "starting"
    /\ Log(op, "started")
    /\ Goto(op, "ready")
    /\ UNCHANGED <<stuck, lock, holder, repo, file, backup, plan, step, status, cut>>

\* _release_lock: the holder file first, then the directory.
RemoveHolder(op) ==
    /\ pc[op] = "closing"
    /\ holder' = NoOp
    /\ Goto(op, "unlocking")
    /\ UNCHANGED <<stuck, lock, repo, file, backup, plan, step, status, cut, log>>

\* Faulty variant: the release is not in a finally block.
RemoveLockUnlessRaised(op) ==
    /\ pc[op] = "unlocking"
    /\ lock' = (status[op] = "raised")
    /\ Goto(op, IF status[op] = "raised" THEN "thrown" ELSE "reporting")
    /\ UNCHANGED <<stuck, holder, repo, file, backup, plan, step, status, cut, log>>

RemoveLock(op) ==
    /\ pc[op] = "unlocking"
    /\ lock' = FALSE
    /\ Goto(op, IF status[op] = "raised" THEN "thrown" ELSE "reporting")
    /\ UNCHANGED <<stuck, holder, repo, file, backup, plan, step, status, cut, log>>

\* The holder file or the directory cannot be removed: the exception is swallowed, what
\* is there stays for good, and the operation goes on as if it had given the lock back.
ReleaseFails(op) ==
    /\ pc[op] \in {"closing", "unlocking"}
    /\ stuck' = op
    /\ Goto(op, IF status[op] = "raised" THEN "thrown" ELSE "reporting")
    /\ UNCHANGED <<lock, holder, repo, file, backup, plan, step, status, cut, log>>

\* The last record; execute returns.
Report(op) ==
    /\ pc[op] = "reporting"
    /\ Log(op, "completed")
    /\ Goto(op, "done")
    /\ UNCHANGED <<stuck, lock, holder, repo, file, backup, plan, step, status, cut>>

-----------------------------------------------------------------------------
(* Commands.                                                               *)

AtCommand(op) ==
    pc[op] = "ready" /\ step[op] \in DOMAIN plan[op] /\ Step(op) \in Command

\* _execute_command: a clone is skipped when its directory exists.
SkipClone(op) ==
    /\ AtCommand(op)
    /\ Step(op) = "clone"
    /\ repo # "absent"
    /\ Log(op, "skipped")
    /\ step' = [step EXCEPT ![op] = @ + 1]
    /\ UNCHANGED <<stuck, lock, holder, repo, file, backup, pc, plan, status, cut>>

\* It is run otherwise; git clone starts by making the directory.
RunCommand(op) ==
    /\ AtCommand(op)
    /\ Step(op) = "clone" => repo = "absent"
    /\ repo' = IF Step(op) = "clone" THEN "partial" ELSE repo
    /\ Log(op, "command.started")
    /\ Goto(op, "running")
    /\ UNCHANGED <<stuck, lock, holder, file, backup, plan, step, status, cut>>

Optional(command) == command = "skill"

\* Faulty variant: the commands after a failed one run too.
AfterAnyway(op, exit) ==
    /\ Log(op, "command.completed")
    /\ status' = [status EXCEPT ![op] =
                    IF exit = 0 \/ Optional(Step(op)) THEN @ ELSE "failed"]
    /\ step' = [step EXCEPT ![op] = @ + 1]
    /\ Goto(op, "ready")

\* A required command that fails ends the operation.
After(op, exit) ==
    /\ Log(op, "command.completed")
    /\ \/ /\ exit = 0 \/ Optional(Step(op))
          /\ step' = [step EXCEPT ![op] = @ + 1]
          /\ Goto(op, "ready")
          /\ UNCHANGED status
       \/ /\ exit # 0 /\ ~Optional(Step(op))
          /\ status' = [status EXCEPT ![op] = "failed"]
          /\ Goto(op, "closing")
          /\ UNCHANGED step

\* The command succeeds; git pull needs a whole clone.
Succeed(op) ==
    /\ pc[op] = "running"
    /\ Step(op) = "pull" => repo = "whole"
    /\ repo' = IF Step(op) = "clone" THEN "whole" ELSE repo
    /\ After(op, 0)
    /\ UNCHANGED <<stuck, lock, holder, file, backup, plan, cut>>

\* It fails, or cannot be spawned; git clone removes what it made.
Fail(op) ==
    /\ pc[op] = "running"
    /\ repo' = IF Step(op) = "clone" THEN "absent" ELSE repo
    /\ After(op, 1)
    /\ UNCHANGED <<stuck, lock, holder, file, backup, plan, cut>>

\* Its timeout expires and it is killed: what it made stays.
TimeOut(op) ==
    /\ pc[op] = "running"
    /\ cut' = (cut \/ Step(op) = "clone")
    /\ After(op, 124)
    /\ UNCHANGED <<stuck, lock, holder, repo, file, backup, plan>>

-----------------------------------------------------------------------------
(* Files of an entrypoint repair.                                          *)

AtFile(op) == step[op] \in DOMAIN plan[op] /\ Step(op) \in File

\* Faulty variant: only the first version is ever kept aside.
BackUpOriginal(op) ==
    /\ pc[op] = "ready"
    /\ AtFile(op)
    /\ backup' = backup \cup ({<<Step(op), file[Step(op)]>>} \cap (File \X {NoOp}))
    /\ Goto(op, "backed")
    /\ UNCHANGED <<stuck, lock, holder, repo, file, plan, step, status, cut, log>>

\* _atomic_write_text_with_backup: copy the version there is (NoOp stands for the
\* file before the first repair, absent or not), then replace it.
BackUp(op) ==
    /\ pc[op] = "ready"
    /\ AtFile(op)
    /\ backup' = backup \cup {<<Step(op), file[Step(op)]>>}
    /\ Goto(op, "backed")
    /\ UNCHANGED <<stuck, lock, holder, repo, file, plan, step, status, cut, log>>

Replace(op) ==
    /\ pc[op] = "backed"
    /\ file' = [file EXCEPT ![Step(op)] = op]
    /\ step' = [step EXCEPT ![op] = @ + 1]
    /\ Goto(op, "ready")
    /\ UNCHANGED <<stuck, lock, holder, repo, backup, plan, status, cut, log>>

\* The writer raises: caught, and reported as a failure.
WriteFails(op) ==
    /\ pc[op] \in {"ready", "backed"}
    /\ AtFile(op)
    /\ status' = [status EXCEPT ![op] = "failed"]
    /\ Goto(op, "closing")
    /\ UNCHANGED <<stuck, lock, holder, repo, file, backup, plan, step, cut, log>>

-----------------------------------------------------------------------------
\* Every step of the plan has been taken.
Finish(op) ==
    /\ pc[op] = "ready"
    /\ step[op] \notin DOMAIN plan[op]
    /\ status' = [status EXCEPT ![op] = "completed"]
    /\ Goto(op, "closing")
    /\ UNCHANGED <<stuck, lock, holder, repo, file, backup, plan, step, cut, log>>

\* An append raises inside execute's try block, before a command or once it has
\* ended: the lock is released, and nothing is reported.
Raise(op) ==
    /\ AtCommand(op) \/ pc[op] = "running"
    /\ repo' \in IF pc[op] = "running" /\ Step(op) = "clone"
                THEN {"absent", "partial", "whole"} ELSE {repo}
    /\ cut' = (cut \/ (pc[op] = "running" /\ repo' = "partial"))
    /\ status' = [status EXCEPT ![op] = "raised"]
    /\ Goto(op, "closing")
    /\ UNCHANGED <<stuck, lock, holder, file, backup, plan, step, log>>

\* The process dies, or an exception leaves execute before its try block or after
\* it.  A clone that ran is left as it is.
Die(op) ==
    /\ pc[op] \notin {"idle", "done", "thrown", "dead"}
    /\ cut' = (cut \/ (pc[op] = "running" /\ Step(op) = "clone"))
    /\ Goto(op, "dead")
    /\ UNCHANGED <<stuck, lock, holder, repo, file, backup, plan, step, status, log>>

OpStep(op) ==
    \/ NameHolder(op) \/ Start(op) \/ SkipClone(op) \/ RunCommand(op)
    \/ Succeed(op) \/ Fail(op) \/ TimeOut(op) \/ BackUp(op) \/ Replace(op)
    \/ WriteFails(op) \/ Finish(op) \/ RemoveHolder(op) \/ RemoveLock(op)
    \/ ReleaseFails(op) \/ Report(op)

Next == \E op \in Op :
    Acquire(op) \/ Blocked(op) \/ OpStep(op) \/ Raise(op) \/ Die(op)

Spec == Init /\ [][Next]_vars

\* An operation that was let in goes on until it returns, raises or dies; a command
\* cannot outlive its timeout (operations.py:474-482).
FairSpec == Spec /\ \A op \in Op : WF_vars(OpStep(op))

-----------------------------------------------------------------------------
(* Properties.                                                             *)

\* Variables hold values of their types.
TypeOK ==
    /\ lock \in BOOLEAN
    /\ holder \in Op \cup {NoOp}
    /\ stuck \in Op \cup {NoOp}
    /\ repo \in {"absent", "partial", "whole"}
    /\ file \in [File -> Op \cup {NoOp}]
    /\ backup \subseteq File \X (Op \cup {NoOp})
    /\ pc \in [Op -> {"idle", "locked", "starting", "ready", "running", "backed",
                      "closing", "unlocking", "reporting", "done", "thrown", "dead"}]
    /\ plan \in [Op -> Plan]
    /\ step \in [Op -> Nat]
    /\ status \in [Op -> {"none", "blocked", "completed", "failed", "raised"}]
    /\ cut \in BOOLEAN

\* Operations at work under the lock.
Inside == {op \in Op : pc[op] \in {"locked", "starting", "ready", "running", "backed",
                                   "closing", "unlocking"}}

\* At most one operation is at work on the plugin, and only under the lock.
OneAtATime == /\ \A op1, op2 \in Inside : op1 = op2
              /\ Inside # {} => lock

\* Whoever is turned away reads the name of the operation at work, of one that died
\* there, of the one that could not give the lock back (operations.py:217-222), or none;
\* never that of an operation that gave it back (operations.py:197).
HolderIsAtWork ==
    holder # NoOp => lock /\ (holder \in Inside \/ pc[holder] = "dead" \/ holder = stuck)

\* With them, inductive: an operation has no holder file to name before it writes
\* one and none left when it removes the directory; nobody gets past a lock that was
\* left behind.
LockIInv ==
    /\ TypeOK
    /\ OneAtATime
    /\ HolderIsAtWork
    /\ \A op \in Op : pc[op] \in {"locked", "unlocking"} => holder = NoOp
    /\ stuck # NoOp => lock /\ Inside = {}

\* An install that reports success leaves a clone; a whole one, unless some clone
\* was killed or left behind before (operations.py:233-244 takes any directory).
InstallsLeaveClones ==
    \A op \in Op :
        (status[op] = "completed" /\ \E i \in DOMAIN plan[op] : plan[op][i] = "clone")
        => repo = "whole" \/ (repo = "partial" /\ cut)

\* Repair overwrites nothing for good: every version a repair put in place, and the
\* one before the first, is in place or was kept aside.
NothingOverwritten ==
    \A f \in File :
        LET versions == {op \in Op : \E i \in DOMAIN plan[op] :
                                        plan[op][i] = f /\ i < step[op]}
        IN  \A v \in versions \cup {NoOp} : file[f] = v \/ <<f, v>> \in backup

\* Wrapper and manifest come from one repair, unless one is at work, failed or died.
FilesBelongTogether ==
    (\A op \in Op : (\E i \in DOMAIN plan[op] : plan[op][i] \in File) =>
        pc[op] \in {"idle", "reporting", "done"} /\ status[op] # "failed")
    => file["wrapper"] = file["manifest"]

\* An operation that is let in ends, with a report unless it raised or died; the lock
\* is freed, also by one that raises (operations.py:99-100), unless one died or could
\* not remove it.
OperationsEnd ==
    /\ \A op \in Op : pc[op] = "locked" ~>
           \/ pc[op] \in {"thrown", "dead"}
           \/ pc[op] = "done" /\ log[op][Len(log[op])] = "completed"
    /\ lock ~> (~lock \/ stuck # NoOp \/ \E op \in Op : pc[op] = "dead")

\* A clone that was skipped because the repository already exists is whole.
SkippedCloneIsWhole ==
    \A op \in Op : (\E i \in DOMAIN log[op] : log[op][i] = "skipped") => repo = "whole"
=============================================================================
