-------------------------- MODULE WorkerJobProofs --------------------------
(***************************************************************************)
(* What a worker says on the connection it serves, whichever handler ends  *)
(* it and at whichever step, for any set of signals and commands, any      *)
(* number of connections and any limit on them.                            *)
(*                                                                         *)
(* Everything follows from where the worker is: CURRENT_CONN_FD is set on  *)
(* exactly one stretch of its steps, the timer and IN_JOB on stretches     *)
(* inside that one, and the lines sent are the answers due, short by the   *)
(* answer under way while a scan runs.                                     *)
(***************************************************************************)
EXTENDS WorkerJob, TLAPS

Writing   == {"number", "text", "terminator"}
Answering == {"arm", "armcpu", "armtimer", "run"} \cup Writing
Ending    == {"disarm", "disarmflag", "end"}
Recorded  == {"read"} \cup Answering \cup Ending

Typed ==
    /\ pc \in {"await", "accepted", "close", "exited"} \cup Recorded
    /\ asked \in Nat /\ lines \in Nat
    /\ open \in BOOLEAN /\ connFd \in BOOLEAN /\ inJob \in BOOLEAN
    /\ timer \in BOOLEAN /\ timed \in BOOLEAN /\ failed \in BOOLEAN /\ session \in BOOLEAN

\* CURRENT_CONN_FD is set from just after `accept` to just before the stream is
\* dropped, and the connection is open for longer at both ends.
FdTracksConnection ==
    /\ pc \in Recorded => connFd /\ open
    /\ pc \in {"await", "accepted", "close"} => ~connFd
    /\ pc \in {"accepted", "close"} => open
    /\ pc = "await" => ~open
    /\ FdIsOpen

\* The answers still due.
LinesTrackAnswers ==
    /\ pc = "await" => ~failed
    /\ pc \in {"accepted", "read"} => ~failed /\ lines = asked
    /\ pc \in Answering => ~failed /\ asked = lines + (IF cmd = "scan" THEN 1 ELSE 0)
    /\ pc \in Answering => cmd \in {"scan", "shutdown"}
    /\ pc \in Writing => cmd = "scan"
    /\ pc \in Ending \cup {"close"} => failed \/ lines = asked
    /\ pc # "exited" => lines <= asked
    /\ lines <= asked + 1
    /\ NoSilentDeath

\* The limits, if there are any, are on while the command runs and its replies
\* are written.
LimitsAreOn ==
    /\ timed /\ pc \in {"run"} \cup Writing => timer
    /\ pc \in (Answering \ {"arm"}) \cup {"disarm", "disarmflag"} => inJob
    /\ inJob => pc = "exited" \/ pc \in (Answering \ {"arm"}) \cup {"disarm", "disarmflag"}
    /\ timer => pc = "exited" \/ pc \in {"run", "disarm"} \cup Writing

\* The inductive invariant.
WorkerInv == Typed /\ FdTracksConnection /\ LinesTrackAnswers /\ LimitsAreOn

\* The worker starts with no connection.
LEMMA InitWorkerInv == Init => WorkerInv
<1> SUFFICES ASSUME Init PROVE WorkerInv OBVIOUS
<1> USE DEF Init, Writing, Answering, Ending, Recorded
<1>1. Typed BY WorkerAssumption DEF Typed
<1>2. FdTracksConnection BY DEF FdTracksConnection, FdIsOpen
<1>3. LinesTrackAnswers BY DEF LinesTrackAnswers, NoSilentDeath
<1>4. LimitsAreOn BY DEF LimitsAreOn
<1> QED BY <1>1, <1>2, <1>3, <1>4 DEF WorkerInv

\* A handler that ends the worker: it speaks where a scan's answer is still due.
LEMMA LastWordKeeps ==
    ASSUME WorkerInv, NEW speaks \in BOOLEAN, NEW how, LastWord(speaks, how),
           speaks => pc \in Recorded,
           how \in {"timeout", "cpu", "aborted"} => speaks = connFd,
           how = "stopped" => speaks = (connFd /\ inJob)
    PROVE  WorkerInv'
<1> USE DEF WorkerInv, LastWord, Exits, sigVars, Writing, Answering, Ending, Recorded
<1>1. Typed' BY DEF Typed
<1>2. FdTracksConnection' BY DEF FdTracksConnection, FdIsOpen
<1>3. LimitsAreOn' BY DEF LimitsAreOn
<1>4. lines' <= asked' + 1 BY DEF Typed, LinesTrackAnswers
<1>5. NoSilentDeath'
  <2> SUFFICES ASSUME open, ~failed,
                      how \in {"timeout", "cpu", "aborted"} \/ (how = "stopped" /\ inJob)
               PROVE  lines' >= asked'
    BY DEF NoSilentDeath
  <2>1. CASE connFd
    <3>1. lines' = lines + 1 BY <2>1
    <3>2. pc \in Recorded BY <2>1 DEF Typed, FdTracksConnection
    <3>3. asked <= lines + 1 BY <3>2 DEF Typed, LinesTrackAnswers
    <3> QED BY <3>1, <3>3 DEF Typed
  <2>2. CASE ~connFd
    <3>1. lines' = lines BY <2>2
    <3>2. pc \in {"accepted", "close"} BY <2>2 DEF Typed, FdTracksConnection
    <3>3. lines = asked BY <3>2 DEF Typed, LinesTrackAnswers
    <3> QED BY <3>1, <3>3 DEF Typed
  <2> QED BY <2>1, <2>2
<1>6. LinesTrackAnswers' BY <1>4, <1>5 DEF LinesTrackAnswers
<1> QED BY <1>1, <1>2, <1>3, <1>6

\* A step of the worker's own loop.
LEMMA WorkerKeeps == ASSUME WorkerInv, Worker PROVE WorkerInv'
<1> USE WorkerAssumption DEF WorkerInv, Writing, Answering, Ending, Recorded, Exits, sigVars, wire
<1>1. CASE LeaveIdle
  BY <1>1
  DEF LeaveIdle, Typed, FdTracksConnection, FdIsOpen, LinesTrackAnswers,
  NoSilentDeath, LimitsAreOn
<1>2. CASE Accept
  <2> USE <1>2 DEF Accept
  <2>1. Typed' BY DEF Typed
  <2>2. FdTracksConnection' BY DEF FdTracksConnection, FdIsOpen
  <2>3. LinesTrackAnswers' BY DEF Typed, LinesTrackAnswers, NoSilentDeath
  <2>4. LimitsAreOn' BY DEF LimitsAreOn
  <2> QED BY <2>1, <2>2, <2>3, <2>4
<1>3. CASE StoreFd
  <2> USE <1>3 DEF StoreFd
  <2>1. Typed' BY DEF Typed
  <2>2. FdTracksConnection' BY DEF FdTracksConnection, FdIsOpen
  <2>3. LinesTrackAnswers' BY DEF Typed, LinesTrackAnswers, NoSilentDeath
  <2>4. LimitsAreOn' BY DEF LimitsAreOn
  <2> QED BY <2>1, <2>2, <2>3, <2>4
<1>4. CASE ReadSession
  BY <1>4
  DEF ReadSession, Typed, FdTracksConnection, FdIsOpen, LinesTrackAnswers,
  NoSilentDeath, LimitsAreOn
<1>5. ASSUME NEW c \in Commands, ReadCommand(c) PROVE WorkerInv'
  BY <1>5
  DEF ReadCommand, Typed, FdTracksConnection, FdIsOpen, LinesTrackAnswers,
  NoSilentDeath, LimitsAreOn
<1>6. CASE ReadEnd
  BY <1>6
  DEF ReadEnd, Typed, FdTracksConnection, FdIsOpen, LinesTrackAnswers,
  NoSilentDeath, LimitsAreOn
<1>7. CASE ArmFlag
  BY <1>7
  DEF ArmFlag, Typed, FdTracksConnection, FdIsOpen, LinesTrackAnswers,
  NoSilentDeath, LimitsAreOn
<1>8. CASE ArmCpu
  BY <1>8
  DEF ArmCpu, Typed, FdTracksConnection, FdIsOpen, LinesTrackAnswers,
  NoSilentDeath, LimitsAreOn
<1>9. CASE ArmTimer
  BY <1>9
  DEF ArmTimer, Typed, FdTracksConnection, FdIsOpen, LinesTrackAnswers,
  NoSilentDeath, LimitsAreOn
<1>10. CASE Run
  <2> USE <1>10 DEF Run, FirstPiece
  <2>1. Typed' BY DEF Typed
  <2>2. FdTracksConnection' BY DEF FdTracksConnection, FdIsOpen
  <2>3. LinesTrackAnswers' BY DEF Typed, LinesTrackAnswers, NoSilentDeath
  <2>4. LimitsAreOn' BY DEF LimitsAreOn
  <2> QED BY <2>1, <2>2, <2>3, <2>4
<1>11. CASE WritePiece
  <2> USE <1>11 DEF WritePiece
  <2>1. Typed' BY DEF Typed
  <2>2. FdTracksConnection' BY DEF FdTracksConnection, FdIsOpen
  <2>3. LinesTrackAnswers' BY DEF Typed, LinesTrackAnswers, NoSilentDeath
  <2>4. LimitsAreOn' BY DEF LimitsAreOn
  <2> QED BY <2>1, <2>2, <2>3, <2>4
<1>12. CASE WriteTerminator
  <2> USE <1>12 DEF WriteTerminator, FirstPiece
  <2>a. lines' \in Nat /\ asked' \in Nat BY DEF Typed
  <2>1. Typed' BY <2>a DEF Typed
  <2>2. FdTracksConnection' BY DEF FdTracksConnection, FdIsOpen
  <2>3. LinesTrackAnswers' BY DEF Typed, LinesTrackAnswers, NoSilentDeath
  <2>4. LimitsAreOn' BY DEF LimitsAreOn
  <2> QED BY <2>1, <2>2, <2>3, <2>4
<1>13. CASE DisarmTimer
  BY <1>13
  DEF DisarmTimer, Typed, FdTracksConnection, FdIsOpen, LinesTrackAnswers,
  NoSilentDeath, LimitsAreOn
<1>14. CASE DisarmFlag
  BY <1>14
  DEF DisarmFlag, Typed, FdTracksConnection, FdIsOpen, LinesTrackAnswers,
  NoSilentDeath, LimitsAreOn
<1>15. CASE ClearFd
  BY <1>15
  DEF ClearFd, Typed, FdTracksConnection, FdIsOpen, LinesTrackAnswers,
  NoSilentDeath, LimitsAreOn
<1>16. CASE Close
  BY <1>16
  DEF Close, Typed, FdTracksConnection, FdIsOpen, LinesTrackAnswers,
  NoSilentDeath, LimitsAreOn
<1> QED
  BY <1>1, <1>2, <1>3, <1>4, <1>5, <1>6, <1>7, <1>8, <1>9, <1>10, <1>11, <1>12, <1>13,
     <1>14, <1>15, <1>16 DEF Worker

\* Every step, a signal's included, keeps the invariant.
LEMMA WorkerStep == ASSUME WorkerInv, [Next]_vars PROVE WorkerInv'
<1>1. CASE Worker BY <1>1, WorkerKeeps
<1>a. connFd /\ pc # "exited" => pc \in Recorded
  BY DEF WorkerInv, Typed, FdTracksConnection
<1>b. connFd \in BOOLEAN /\ (connFd /\ inJob) \in BOOLEAN BY DEF WorkerInv, Typed
<1>2. CASE Alarm
  <2>1. LastWord(connFd, "timeout") /\ pc # "exited" BY <1>2 DEF Alarm, LastWord
  <2> QED BY <2>1, <1>a, <1>b, LastWordKeeps
<1>3. CASE Xcpu
  <2>1. LastWord(connFd, "cpu") /\ pc # "exited" BY <1>3 DEF Xcpu, LastWord
  <2> QED BY <2>1, <1>a, <1>b, LastWordKeeps
<1>4. CASE Abort
  <2>1. LastWord(connFd, "aborted") /\ pc # "exited" BY <1>4 DEF Abort, LastWord
  <2> QED BY <2>1, <1>a, <1>b, LastWordKeeps
<1>5. CASE Term
  <2>1. LastWord(connFd /\ inJob, "stopped") /\ pc # "exited" BY <1>5 DEF Term, LastWord
  <2> QED BY <2>1, <1>a, <1>b, LastWordKeeps
<1>6. CASE Kill
  <2>1. LastWord(FALSE, "killed") BY <1>6 DEF Kill
  <2> QED BY <2>1, LastWordKeeps
<1>7. CASE UNCHANGED vars
  BY <1>7 DEF vars, WorkerInv, Typed, FdTracksConnection, FdIsOpen, LinesTrackAnswers,
              NoSilentDeath, LimitsAreOn
<1> QED BY <1>1, <1>2, <1>3, <1>4, <1>5, <1>6, <1>7 DEF Next

\* The invariant holds in every reachable state.
LEMMA WorkerInvariant == Spec => []WorkerInv
BY InitWorkerInv, WorkerStep, PTL DEF Spec

\* No handler writes to a descriptor that has been closed.
THEOREM HandlersWriteToOpenFd == Spec => []FdIsOpen
<1>1. WorkerInv => FdIsOpen BY DEF WorkerInv, FdTracksConnection
<1> QED BY <1>1, WorkerInvariant, PTL

\* No limit, and no SIGTERM inside a job, closes a connection in silence.
THEOREM DeathIsNeverSilent == Spec => []NoSilentDeath
<1>1. WorkerInv => NoSilentDeath BY DEF WorkerInv, LinesTrackAnswers
<1> QED BY <1>1, WorkerInvariant, PTL

\* A line that answers nothing is the last thing on its connection.
THEOREM ExtraLineIsLast == Spec => []OneExtraLineAtMost
<1>1. WorkerInv => OneExtraLineAtMost
  BY DEF WorkerInv, Typed, LinesTrackAnswers, OneExtraLineAtMost
<1> QED BY <1>1, WorkerInvariant, PTL

\* What JobsEnd rests on: with a time limit set, neither a scan nor the write of
\* its replies ever runs without its timer, and outside jobs no timer is left
\* behind.
THEOREM JobsAreTimed ==
    Spec => [](/\ timed /\ pc \in {"run", "number", "text", "terminator"} => timer
               /\ pc # "exited" /\ timer => inJob)
<1>1. WorkerInv => /\ timed /\ pc \in {"run", "number", "text", "terminator"} => timer
                   /\ pc # "exited" /\ timer => inJob
  BY DEF WorkerInv, LimitsAreOn, Answering, Writing
<1> QED BY <1>1, WorkerInvariant, PTL
=============================================================================
