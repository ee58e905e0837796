------------------------------ MODULE Adapter ------------------------------
(***************************************************************************)
(* One command run by an adapter: adapters/stdio.py, which leaves the      *)
(* waiting to subprocess.run, and adapters/pty.py, which polls a POSIX     *)
(* pseudo-terminal itself or, on Windows, a winpty process with a reader   *)
(* thread.  Around it is the command: it writes, may start a helper that   *)
(* shares its output, and exits, while the deadline comes nearer.  Output  *)
(* is abstracted to chunks: the command's own, and its helper's.           *)
(***************************************************************************)
EXTENDS Naturals, Sequences

CONSTANT PipeSize   \* bound: chunks the output of the command buffers

ASSUME PipeAssumption == PipeSize \in Nat \ {0}

Kind  == {"stdio", "stdioWindows", "pty", "ptyWindows"}
Chunk == {"own", "helper"}

VARIABLES
    kind,       \* the adapter and the platform it runs on
    at,         \* where the calling thread stands
    command,    \* the command: "running", "exited" by itself, or "killed"
    helper,     \* a process it left behind with its output open
    late,       \* timeout_seconds have passed
    pipe,       \* output written and not yet read
    buffered,   \* output_queue holds output of the winpty reader thread
    reader,     \* the reader thread
    output,     \* stdout of the result is not empty
    verdict     \* the result: "exit" with the command's code, or "timeout" (124)

adapterVars == <<kind, at, command, helper, late, pipe, buffered, reader, output,
                 verdict>>

AtWork == at \notin {"idle", "returned"}

\* The command, or a helper it started, may still write.
Open_ == command = "running" \/ helper = "running"

EndOfOutput == pipe = <<>> /\ ~Open_

AdapterInit ==
    /\ kind = "none"
    /\ at = "idle"
    /\ command = "none" /\ helper = "none"
    /\ late = FALSE
    /\ pipe = <<>> /\ buffered = FALSE
    /\ reader = "over"
    /\ output = FALSE
    /\ verdict = "none"

-----------------------------------------------------------------------------
(* The calling thread.                                                     *)

\* subprocess.run, Popen or PtyProcess.spawn starts the command.
Launch(k) ==
    /\ at = "idle"
    /\ kind' = k
    /\ at' = CASE k \in {"stdio", "stdioWindows"} -> "communicate"
               [] k = "pty"                       -> "check"
               [] k = "ptyWindows"                -> "watch"
    /\ command' = "running"
    /\ reader' = IF k = "ptyWindows" THEN "testing" ELSE "over"
    /\ UNCHANGED <<helper, late, pipe, buffered, output, verdict>>

Kill == command' = IF command = "running" THEN "killed" ELSE command

Take == pipe # <<>> /\ pipe' = Tail(pipe) /\ output' = TRUE

Finish(v) == at' = "returned" /\ verdict' = v

\* subprocess.run reads until the end of output.  Past the deadline it kills the
\* command; on Windows it then reads on until the end of output, without a deadline.
Communicate ==
    /\ at = "communicate"
    /\ \/ /\ late
          /\ Kill
          /\ IF kind = "stdio" THEN Finish("timeout")
                               ELSE at' = "collect" /\ UNCHANGED verdict
          /\ UNCHANGED <<pipe, output>>
       \/ ~late /\ Take /\ UNCHANGED <<at, command, verdict>>
       \/ ~late /\ EndOfOutput /\ Finish("exit") /\ UNCHANGED <<command, pipe, output>>
    /\ UNCHANGED <<kind, helper, late, buffered, reader>>

Collect ==
    /\ at = "collect"
    /\ \/ Take /\ UNCHANGED <<at, verdict>>
       \/ EndOfOutput /\ Finish("timeout") /\ UNCHANGED <<pipe, output>>
    /\ UNCHANGED <<kind, command, helper, late, buffered, reader>>

\* Faulty variant: the deadline is looked at only once output has arrived.
CheckOnOutput ==
    /\ at = "check"
    /\ IF late /\ output THEN Kill /\ Finish("timeout")
                         ELSE at' = "select" /\ UNCHANGED <<command, verdict>>
    /\ UNCHANGED <<kind, helper, late, pipe, buffered, reader, output>>

\* _call_posix_pty: the deadline, one read, then poll.
Check ==
    /\ at = "check"
    /\ IF late THEN Kill /\ Finish("timeout")
               ELSE at' = "select" /\ UNCHANGED <<command, verdict>>
    /\ UNCHANGED <<kind, helper, late, pipe, buffered, reader, output>>

Select ==
    /\ at = "select"
    /\ at' = "poll"
    /\ Take \/ (pipe = <<>> /\ UNCHANGED <<pipe, output>>)
    /\ UNCHANGED <<kind, command, helper, late, buffered, reader, verdict>>

\* Faulty variant: what the command wrote since the last read is not drained.
PollWithoutDrain ==
    /\ at = "poll"
    /\ IF command = "running" THEN at' = "check" /\ UNCHANGED verdict ELSE Finish("exit")
    /\ UNCHANGED <<kind, command, helper, late, pipe, buffered, reader, output>>

Poll ==
    /\ at = "poll"
    /\ at' = IF command = "running" THEN "check" ELSE "drain"
    /\ UNCHANGED <<kind, command, helper, late, pipe, buffered, reader, output, verdict>>

Drain ==
    /\ at = "drain"
    /\ \/ Take /\ UNCHANGED <<at, verdict>>
       \/ pipe = <<>> /\ Finish("exit") /\ UNCHANGED <<pipe, output>>
    /\ UNCHANGED <<kind, command, helper, late, buffered, reader>>

\* _call_windows_winpty: while the command is alive, drain what the reader thread
\* queued and look at the deadline; afterwards stop the reader.
Watch ==
    /\ at = "watch"
    /\ buffered' = FALSE
    /\ output' = (output \/ buffered)
    /\ \/ command # "running" /\ at' = "join" /\ verdict' = "exit" /\ UNCHANGED command
       \/ command = "running" /\ late /\ Kill /\ at' = "join" /\ verdict' = "timeout"
       \/ command = "running" /\ ~late /\ buffered /\ UNCHANGED <<at, command, verdict>>
    /\ UNCHANGED <<kind, helper, late, pipe, reader>>

\* reader.join(timeout=1): the reader is over, or a second has passed.
Join ==
    /\ at = "join"
    /\ Finish(verdict)
    /\ output' = (output \/ buffered)
    /\ buffered' = FALSE
    /\ UNCHANGED <<kind, command, helper, late, pipe, reader>>

\* _read_winpty_output, whose stop event is set once the caller joins it.
Reader ==
    /\ AtWork
    /\ \/ /\ reader = "testing"
          /\ reader' = IF at = "join" THEN "over" ELSE "reading"
          /\ UNCHANGED <<pipe, buffered>>
       \/ /\ reader = "reading"
          /\ pipe # <<>>
          /\ pipe' = Tail(pipe)
          /\ buffered' = TRUE
          /\ reader' = "testing"
       \/ /\ reader = "reading"
          /\ EndOfOutput
          /\ reader' = "over"
          /\ buffered' \in {buffered, TRUE}   \* EOFError, or the text of an OSError
          /\ UNCHANGED pipe
    /\ UNCHANGED <<kind, at, command, helper, late, output, verdict>>

AdapterStep ==
    Communicate \/ Collect \/ Check \/ Select \/ Poll \/ Drain \/ Watch \/ Join

-----------------------------------------------------------------------------
(* The command, its helper and the clock.                                  *)

Append_(chunk) ==
    /\ AtWork
    /\ Len(pipe) < PipeSize
    /\ pipe' = Append(pipe, chunk)
    /\ UNCHANGED <<kind, at, command, helper, late, buffered, reader, output, verdict>>

CommandWrites == command = "running" /\ Append_("own")

HelperWrites == helper = "running" /\ Append_("helper")

CommandForks ==
    /\ AtWork /\ command = "running" /\ helper = "none"
    /\ helper' = "running"
    /\ UNCHANGED <<kind, at, command, late, pipe, buffered, reader, output, verdict>>

CommandExits ==
    /\ AtWork /\ command = "running"
    /\ command' = "exited"
    /\ UNCHANGED <<kind, at, helper, late, pipe, buffered, reader, output, verdict>>

HelperEnds ==
    /\ AtWork /\ helper = "running"
    /\ helper' = "ended"
    /\ UNCHANGED <<kind, at, command, late, pipe, buffered, reader, output, verdict>>

DeadlinePasses ==
    /\ AtWork /\ ~late
    /\ late' = TRUE
    /\ UNCHANGED <<kind, at, command, helper, pipe, buffered, reader, output, verdict>>

CommandStep ==
    CommandWrites \/ HelperWrites \/ CommandForks \/ CommandExits \/ HelperEnds

AdapterNext ==
    (\E k \in Kind : Launch(k)) \/ AdapterStep \/ Reader \/ CommandStep \/ DeadlinePasses

AdapterSpec == AdapterInit /\ [][AdapterNext]_adapterVars

-----------------------------------------------------------------------------
(* Properties.                                                             *)

\* Variables hold values of their types.
AdapterTypeOK ==
    /\ kind \in Kind \cup {"none"}
    /\ at \in {"idle", "communicate", "collect", "check", "select", "poll", "drain",
               "watch", "join", "returned"}
    /\ command \in {"none", "running", "exited", "killed"}
    /\ helper \in {"none", "running", "ended"}
    /\ late \in BOOLEAN
    /\ pipe \in Seq(Chunk)
    /\ buffered \in BOOLEAN
    /\ reader \in {"testing", "reading", "over"}
    /\ output \in BOOLEAN
    /\ verdict \in {"none", "exit", "timeout"}

\* No output of the command itself is waiting to be read.
OwnTaken == \A i \in DOMAIN pipe : pipe[i] # "own"

\* The result says what happened: no command runs on behind it, a timeout was really
\* past its deadline, an exit code is that of a command that exited by itself, and
\* then its own output is all in the result, though it was read piecemeal while the
\* command wrote and exited (stdio.py:22-68, pty.py:142-180).  The exception is
\* winpty, whose reader may be stopped with output unread (pty.py:92-94).
ResultsAreTrue ==
    at = "returned" =>
        /\ command # "running"
        /\ verdict = "timeout" => late
        /\ verdict = "exit" => command = "exited" /\ (kind = "ptyWindows" \/ OwnTaken)

\* What each place relies on: a timeout being reported is past its deadline and its
\* command is dead, output is drained of a command that exited by itself, and no
\* command is killed but to report a timeout.
Honest ==
    /\ at = "idle" <=> command = "none"
    /\ verdict = "none" <=> at \notin {"join", "returned"}
    /\ at \in {"collect", "drain", "join", "returned"} => command # "running"
    /\ at = "drain" => command = "exited"
    /\ at = "collect" \/ verdict = "timeout" => late
    /\ command = "killed" => at = "collect" \/ verdict = "timeout"
    /\ at \in {"watch", "join"} => kind = "ptyWindows"
    /\ at = "returned" /\ verdict = "exit" /\ kind # "ptyWindows" => OwnTaken

AdapterIInv == AdapterTypeOK /\ Honest
=============================================================================
