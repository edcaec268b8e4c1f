----------------------------- MODULE WorkerJob -----------------------------
(***************************************************************************)
(* One prefork worker (daemon.rs, `worker_main`, `handle_conn`,            *)
(* `run_command`) and the signal handlers that may end it at any point:    *)
(* what it writes on the connection it serves, and when.  The answer to a  *)
(* command is one reply or several (a scan of a directory), each written   *)
(* in pieces: the session's number for the command, the text, the          *)
(* terminator.  The handlers write one terminated line and leave.          *)
(***************************************************************************)
EXTENDS Integers

CONSTANTS
    Signals,   \* which signals may come; a SIGTERM ("term") may be that of the
               \* teardown this worker's own SHUTDOWN command asked for
    Commands,  \* "scan" answers with one reply or several, "shutdown" with none
    TimeLimits, \* whether --max-scan-secs sets a limit (off or 0 sets none)
    MaxJobs,   \* cfg.max_jobs, 0 for no recycling
    MaxReplies, \* bound: replies to one command
    MaxCmds,   \* bound: commands in the life of the worker
    MaxConns   \* bound: connections

ASSUME WorkerAssumption ==
    /\ Signals \subseteq {"alarm", "xcpu", "abort", "term", "kill"}
    /\ Commands \subseteq {"scan", "shutdown"}
    /\ TimeLimits \subseteq BOOLEAN
    /\ MaxJobs \in Nat /\ MaxReplies \in Nat /\ MaxCmds \in Nat /\ MaxConns \in Nat

VARIABLES
    pc,       \* where the worker is
    open,     \* the connection is open
    connFd,   \* CURRENT_CONN_FD names it (otherwise -1)
    inJob,    \* IN_JOB
    timer,    \* the wall-clock timer is armed
    cpu,      \* the CPU limit has been set once
    timed,    \* max_scan_time and max_cpu_secs are not zero
    session,  \* IDSESSION or SESSION
    cmd,      \* the command under way
    left,     \* replies still to be written
    failed,   \* run_command returned an error
    partial,  \* text written without its terminator
    asked,    \* answers the client expects on this connection
    lines,    \* answers that were ended, and lines that answer nothing
    jobs,     \* connections served
    scans,    \* jobs, each between an `arm` and a `disarm` (for the bound)
    exit      \* how the worker left

vars == <<pc, open, connFd, inJob, timer, cpu, timed, session, cmd, left, failed, partial,
          asked, lines, jobs, scans, exit>>
sigVars == <<connFd, inJob, timer, cpu, timed>>      \* what the handlers depend on
wire == <<partial, asked, lines>>

Init ==
    /\ pc = "await"
    /\ open = FALSE /\ connFd = FALSE
    /\ inJob = FALSE /\ timer = FALSE /\ cpu = FALSE /\ timed \in TimeLimits
    /\ session = FALSE /\ cmd = "none" /\ left = 0 /\ failed = FALSE
    /\ partial = FALSE /\ asked = 0 /\ lines = 0
    /\ jobs = 0 /\ scans = 0 /\ exit = "none"

Exits(how) == pc' = "exited" /\ exit' = how
-----------------------------------------------------------------------------
(***************************************************************************)
(* The loop of `worker_main`.                                              *)
(***************************************************************************)
\* The generation is retired, or accept failed for good.
LeaveIdle ==
    /\ pc = "await"
    /\ \E how \in {"retired", "accepterror"} : Exits(how)
    /\ UNCHANGED <<open, sigVars, session, cmd, left, failed, wire, jobs, scans>>

Accept ==
    /\ pc = "await" /\ jobs < MaxConns
    /\ open' = TRUE
    /\ pc' = "accepted"
    /\ session' = FALSE
    /\ asked' = 0 /\ lines' = 0
    /\ UNCHANGED <<sigVars, cmd, left, failed, partial, jobs, scans, exit>>

\* Mutant of StoreFd: the descriptor is not recorded (once so on TCP).
StoreFdForgotten ==
    /\ pc = "accepted"
    /\ pc' = "read"
    /\ UNCHANGED <<open, sigVars, session, cmd, left, failed, wire, jobs, scans, exit>>

\* CURRENT_CONN_FD.store(fd).
StoreFd ==
    /\ pc = "accepted"
    /\ connFd' = TRUE
    /\ pc' = "read"
    /\ UNCHANGED <<open, inJob, timer, cpu, timed, session, cmd, left, failed, wire, jobs,
                   scans, exit>>

\* `handle_conn` reads a command: it opens a session,
ReadSession ==
    /\ pc = "read" /\ ~session /\ cmd = "none"
    /\ session' = TRUE
    /\ UNCHANGED <<pc, open, sigVars, cmd, left, failed, wire, jobs, scans, exit>>

\* asks for something,
ReadCommand(c) ==
    /\ pc = "read" /\ scans < MaxCmds
    /\ cmd' = c
    /\ asked' = IF c = "scan" THEN asked + 1 ELSE asked
    /\ pc' = "arm"
    /\ UNCHANGED <<open, sigVars, session, left, failed, partial, lines, jobs, scans, exit>>

\* or ends the connection: END, end of file, a read error or timeout.
ReadEnd ==
    /\ pc = "read"
    /\ pc' = "end"
    /\ UNCHANGED <<open, sigVars, session, cmd, left, failed, wire, jobs, scans, exit>>

\* `arm`, in its order: IN_JOB, the CPU limit, the timer.
ArmFlag ==
    /\ pc = "arm"
    /\ inJob' = TRUE
    /\ scans' = scans + 1
    /\ pc' = "armcpu"
    /\ UNCHANGED <<open, connFd, timer, cpu, timed, session, cmd, left, failed, wire, jobs, exit>>

\* With no limit set, neither is armed: a zero duration disarms the timer.
ArmCpu ==
    /\ pc = "armcpu"
    /\ cpu' = timed
    /\ pc' = "armtimer"
    /\ UNCHANGED <<open, connFd, inJob, timer, timed, session, cmd, left, failed, wire, jobs,
                   scans, exit>>

\* Mutant of ArmTimer: setitimer refuses the time asked for.
ArmTimerRefused ==
    /\ pc = "armtimer"
    /\ pc' = "run"
    /\ UNCHANGED <<open, sigVars, session, cmd, left, failed, wire, jobs, scans, exit>>

ArmTimer ==
    /\ pc = "armtimer"
    /\ timer' = timed
    /\ pc' = "run"
    /\ UNCHANGED <<open, connFd, inJob, cpu, timed, session, cmd, left, failed, wire, jobs,
                   scans, exit>>

\* What is written of a reply first: in a session, the command's number.
FirstPiece == IF session THEN "number" ELSE "text"

\* The command has run: it has a reply or several, or none (SHUTDOWN, which sends
\* the supervisor SIGTERM), or it failed with an I/O error, which closes the
\* connection without a reply.
Run ==
    /\ pc = "run"
    /\ \/ cmd = "scan" /\ left' \in 1..MaxReplies /\ pc' = FirstPiece /\ failed' = FALSE
       \/ cmd = "shutdown" /\ pc' = "disarm" /\ failed' = FALSE /\ UNCHANGED left
       \/ cmd = "scan" /\ pc' = "disarm" /\ failed' = TRUE /\ UNCHANGED left
    /\ UNCHANGED <<open, sigVars, session, cmd, wire, jobs, scans, exit>>

\* `write_reply`: the number and the text, then the terminator; each may fail.
WritePiece ==
    /\ pc \in {"number", "text"}
    /\ \/ partial' = TRUE /\ pc' = (IF pc = "number" THEN "text" ELSE "terminator")
          /\ UNCHANGED failed
       \/ pc' = "disarm" /\ failed' = TRUE /\ UNCHANGED partial
    /\ UNCHANGED <<open, sigVars, session, cmd, left, asked, lines, jobs, scans, exit>>

\* The last reply ends the answer.
WriteTerminator ==
    /\ pc = "terminator"
    /\ \/ /\ partial' = FALSE /\ left' = left - 1
          /\ IF left > 1 THEN pc' = FirstPiece /\ UNCHANGED lines
             ELSE pc' = "disarm" /\ lines' = lines + 1
          /\ UNCHANGED failed
       \/ failed' = TRUE /\ pc' = "disarm" /\ UNCHANGED <<left, partial, lines>>
    /\ UNCHANGED <<open, sigVars, session, cmd, asked, jobs, scans, exit>>

\* `disarm`, in its order: the timer, IN_JOB.  The CPU limit stays set.
DisarmTimer ==
    /\ pc = "disarm"
    /\ timer' = FALSE
    /\ pc' = "disarmflag"
    /\ UNCHANGED <<open, connFd, inJob, cpu, timed, session, cmd, left, failed, wire, jobs,
                   scans, exit>>

\* A session whose command succeeded reads the next one.
DisarmFlag ==
    /\ pc = "disarmflag"
    /\ inJob' = FALSE
    /\ pc' = IF session /\ ~failed THEN "read" ELSE "end"
    /\ UNCHANGED <<open, connFd, timer, cpu, timed, session, cmd, left, failed, wire, jobs,
                   scans, exit>>

\* Mutant of ClearFd: the descriptor is left recorded.
ClearFdForgotten ==
    /\ pc = "end"
    /\ pc' = "close"
    /\ UNCHANGED <<open, sigVars, session, cmd, left, failed, wire, jobs, scans, exit>>

\* CURRENT_CONN_FD.store(-1), before the stream is dropped.
ClearFd ==
    /\ pc = "end"
    /\ connFd' = FALSE
    /\ pc' = "close"
    /\ UNCHANGED <<open, inJob, timer, cpu, timed, session, cmd, left, failed, wire, jobs,
                   scans, exit>>

\* The second `disarm`, the stream dropped, the connection counted; a worker
\* that has reached its limit leaves.
Close ==
    /\ pc = "close"
    /\ timer' = FALSE /\ inJob' = FALSE
    /\ open' = FALSE
    /\ cmd' = "none" /\ left' = 0 /\ failed' = FALSE /\ partial' = FALSE
    /\ jobs' = jobs + 1
    /\ IF MaxJobs # 0 /\ jobs + 1 >= MaxJobs
       THEN Exits("recycled")
       ELSE pc' = "await" /\ UNCHANGED exit
    /\ UNCHANGED <<connFd, cpu, timed, session, asked, lines, scans>>
-----------------------------------------------------------------------------
(***************************************************************************)
(* The handlers.                                                           *)
(***************************************************************************)
\* Write one terminated line if `speaks`, then `_exit`.
LastWord(speaks, how) ==
    /\ pc # "exited"
    /\ lines' = IF speaks THEN lines + 1 ELSE lines
    /\ partial' = FALSE
    /\ Exits(how)
    /\ UNCHANGED <<open, sigVars, session, cmd, left, failed, asked, jobs, scans>>

\* Mutant of Alarm: the handler returns instead of leaving.
AlarmReturns ==
    /\ "alarm" \in Signals /\ timer /\ pc # "exited" /\ lines < MaxCmds + 2
    /\ lines' = IF connFd THEN lines + 1 ELSE lines
    /\ UNCHANGED <<pc, open, sigVars, session, cmd, left, failed, partial, asked, jobs,
                   scans, exit>>

\* `on_sigalrm`
Alarm == "alarm" \in Signals /\ timer /\ LastWord(connFd, "timeout")

\* `on_sigxcpu`: the limit set by the last `arm` may be met at any later time.
Xcpu == "xcpu" \in Signals /\ cpu /\ LastWord(connFd, "cpu")

\* `on_sigabrt`: an allocation failed, in a scan or reading a command.
Abort ==
    /\ "abort" \in Signals /\ pc \in {"read", "run"}
    /\ LastWord(connFd, "aborted")

\* `on_sigterm`
Term ==
    /\ "term" \in Signals
    /\ LastWord(connFd /\ inJob, "stopped")

\* SIGKILL (the OOM killer): no last word.
Kill == "kill" \in Signals /\ LastWord(FALSE, "killed")
-----------------------------------------------------------------------------
Worker ==
    \/ LeaveIdle
    \/ Accept
    \/ StoreFd
    \/ ReadSession
    \/ \E c \in Commands : ReadCommand(c)
    \/ ReadEnd
    \/ ArmFlag
    \/ ArmCpu
    \/ ArmTimer
    \/ Run
    \/ WritePiece
    \/ WriteTerminator
    \/ DisarmTimer
    \/ DisarmFlag
    \/ ClearFd
    \/ Close

Next ==
    \/ Worker
    \/ Alarm
    \/ Xcpu
    \/ Abort
    \/ Term
    \/ Kill

\* The worker is scheduled and a timer that is armed expires.  Neither a scan (Run)
\* nor a write to a client that does not read is assumed to return.
Fairness ==
    /\ WF_vars(ArmFlag) /\ WF_vars(ArmCpu) /\ WF_vars(ArmTimer)
    /\ WF_vars(DisarmTimer) /\ WF_vars(DisarmFlag)
    /\ WF_vars(Alarm)

Spec == Init /\ [][Next]_vars

FairSpec == Spec /\ Fairness
-----------------------------------------------------------------------------
(***************************************************************************)
(* Properties                                                              *)
(***************************************************************************)
\* The values the variables take.
TypeOK ==
    /\ pc \in {"await", "accepted", "read", "arm", "armcpu", "armtimer", "run", "number",
               "text", "terminator", "disarm", "disarmflag", "end", "close", "exited"}
    /\ {open, connFd, inJob, timer, cpu, timed, session, failed, partial} \subseteq BOOLEAN
    /\ cmd \in Commands \cup {"none"}
    /\ left \in 0..MaxReplies
    /\ asked \in 0..MaxCmds /\ lines \in 0..(MaxCmds + 1)
    /\ jobs \in 0..MaxConns /\ scans \in Nat
    /\ exit \in {"none", "retired", "accepterror", "recycled", "timeout", "cpu",
                 "aborted", "stopped", "killed"}

\* A handler never writes to a descriptor that has been closed, and perhaps
\* reused: CURRENT_CONN_FD is cleared before the stream is dropped.
FdIsOpen == connFd => open

\* A limit that fires, or an abort, never closes a connection in silence, and
\* neither does a SIGTERM inside a job ("a connection closed with no reply
\* reads as clean to some clients"): every answer due has an end, its own last
\* reply or the line of the handler that cut it short, after whatever part of it
\* was written.
NoSilentDeath ==
    pc = "exited" /\ open /\ ~failed =>
        /\ exit \in {"timeout", "cpu", "aborted"} => lines >= asked
        /\ exit = "stopped" /\ inJob => lines >= asked

\* The client is never sent more than one line beyond its answers, and then
\* the connection ends with it: it cannot put later answers out of step.  (The
\* handler's line comes after a whole answer when the signal comes before the
\* job is disarmed.)
OneExtraLineAtMost ==
    /\ lines <= asked + 1
    /\ lines > asked => pc = "exited"

\* Where there is a time limit, every job ends within it, one way or the other,
\* even if the scan or the client never comes back.  (With `--max-scan-secs off`
\* nothing ends a job that does not end by itself.)
JobsEnd == timed /\ inJob ~> ~inJob \/ pc = "exited"
=============================================================================
