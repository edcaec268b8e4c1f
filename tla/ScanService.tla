---------------------------- MODULE ScanService ----------------------------
(***************************************************************************)
(* What the worker pool promises across reloads and shutdowns, without the *)
(* forks, pipes, signals and waits it does it with.  A process serves the  *)
(* database it was started from, which is the current one of that moment;  *)
(* a reload retires all of them at once; and a connection under way is cut *)
(* short only by a crash, by the end of the service, or when the grace of  *)
(* the retired process is over.                                            *)
(***************************************************************************)
EXTENDS Integers

CONSTANT Procs   \* what a process can be started as

VARIABLES
    version,   \* of the current database
    grace,     \* versions up to this one have used up their grace
    mode,      \* "up", or "down" once the service is being taken down
    crashes,   \* processes that left unasked
    phase,     \* of each process: "none", "serving" or "retired"
    of,        \* the version it serves
    busy       \* the processes that have a connection

vars == <<version, grace, mode, crashes, phase, of, busy>>

Init ==
    /\ version = 1 /\ grace = 0 /\ mode = "up" /\ crashes = 0
    /\ phase = [p \in Procs |-> "none"]
    /\ of = [p \in Procs |-> 0]
    /\ busy = {}

\* The processes of P end, with the connections they have.
End(P) ==
    /\ phase' = [p \in Procs |-> IF p \in P THEN "none" ELSE phase[p]]
    /\ of' = [p \in Procs |-> IF p \in P THEN 0 ELSE of[p]]
    /\ busy' = busy \ P

\* A process starts, from the current database.
Start(p) ==
    /\ mode = "up" /\ phase[p] = "none"
    /\ phase' = [phase EXCEPT ![p] = "serving"]
    /\ of' = [of EXCEPT ![p] = version]
    /\ UNCHANGED <<version, grace, mode, crashes, busy>>

TakeConnection(p) ==
    /\ phase[p] # "none" /\ p \notin busy
    /\ busy' = busy \cup {p}
    /\ UNCHANGED <<version, grace, mode, crashes, phase, of>>

EndConnection(p) ==
    /\ p \in busy
    /\ busy' = busy \ {p}
    /\ UNCHANGED <<version, grace, mode, crashes, phase, of>>

\* Only a process without a connection leaves by itself.
Leave(p) ==
    /\ phase[p] # "none" /\ p \notin busy
    /\ End({p})
    /\ UNCHANGED <<version, grace, mode, crashes>>

Crash(p) ==
    /\ phase[p] # "none"
    /\ End({p})
    /\ crashes' = crashes + 1
    /\ UNCHANGED <<version, grace, mode>>

\* One step for all: what is started from here on serves the new version.
Reload ==
    /\ mode = "up"
    /\ version' = version + 1
    /\ phase' = [p \in Procs |-> IF phase[p] = "serving" THEN "retired" ELSE phase[p]]
    /\ UNCHANGED <<grace, mode, crashes, of, busy>>

GracePasses ==
    /\ grace < version - 1
    /\ grace' = grace + 1
    /\ UNCHANGED <<version, mode, crashes, phase, of, busy>>

StopOverdue(P) ==
    /\ mode = "up"
    /\ \A p \in P : phase[p] = "retired" /\ of[p] <= grace
    /\ End(P)
    /\ UNCHANGED <<version, grace, mode, crashes>>

\* The service is stopped, or killed: nothing is promised from here on.
GoDown(P) ==
    /\ mode' = "down"
    /\ End(P)
    /\ UNCHANGED <<version, grace, crashes>>

Next ==
    \/ \E p \in Procs :
          Start(p) \/ TakeConnection(p) \/ EndConnection(p) \/ Leave(p) \/ Crash(p)
    \/ Reload
    \/ GracePasses
    \/ \E P \in SUBSET Procs : StopOverdue(P) \/ GoDown(P)

Spec == Init /\ [][Next]_vars
=============================================================================
