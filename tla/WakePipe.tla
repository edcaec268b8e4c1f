------------------------------ MODULE WakePipe ------------------------------
(***************************************************************************)
(* The supervisor's self-pipe (daemon.rs): `wake` is called by the signal  *)
(* handlers and by other threads (`request_reload`), `nap` is the only     *)
(* place the supervisor sleeps.  The supervisor loop is reduced to the     *)
(* order in which it looks at its flags after each nap:                    *)
(* SHUTDOWN (1), exited children (2), HUP_RECEIVED (3), RELOAD (4).        *)
(***************************************************************************)
EXTENDS Integers, FiniteSets

CONSTANTS
    Signallers,  \* contexts that may be inside `wake` at the same time
    Inline,      \* those that run on the supervisor's own thread (handlers)
    NKinds,      \* number of flags, in the order the loop looks at them
    StopKind,    \* the flag that ends the loop; 0 in the thread model
    Reordered    \* TRUE: a weakly ordered CPU may delay the store to WAKE_PENDING

ASSUME WakeAssumption ==
    /\ IsFiniteSet(Signallers)
    /\ Inline \subseteq Signallers
    /\ NKinds \in Nat \ {0}
    /\ StopKind \in 0..NKinds
    /\ Reordered \in BOOLEAN

VARIABLES
    raised,    \* flags set and not yet taken by the supervisor
    pending,   \* WAKE_PENDING as the other threads see it
    buffered,  \* the supervisor's store of FALSE to it is not visible yet
    bytes,     \* bytes in the pipe
    pc,        \* where each signaller is
    kind,      \* the flag it raises
    sup,       \* where the supervisor is
    at,        \* the next flag it looks at, when it serves
    missed     \* history: flags whose `wake` met a WAKE_PENDING already cleared
               \* by the supervisor, but by a store not visible yet

vars == <<raised, pending, buffered, bytes, pc, kind, sup, at, missed>>

Kinds == 1..NKinds

Init ==
    /\ raised = {}
    /\ pending = FALSE
    /\ buffered = FALSE
    /\ bytes = 0
    /\ pc = [s \in Signallers |-> "idle"]
    /\ kind = [s \in Signallers |-> 1]
    /\ sup = "serve"
    /\ at = 1
    /\ missed = {}

(***************************************************************************)
(* A handler or `request_reload`: store the flag, then call `wake`.        *)
(***************************************************************************)
Raise(s, k) ==
    /\ pc[s] = "idle"
    /\ raised' = raised \cup {k}
    /\ kind' = [kind EXCEPT ![s] = k]
    /\ pc' = [pc EXCEPT ![s] = "swap"]
    /\ UNCHANGED <<pending, buffered, bytes, sup, at, missed>>

\* Mutant of Swap: the result of the swap is ignored.
SwapIgnored(s) ==
    /\ pc[s] = "swap"
    /\ s \in Inline => ~buffered
    /\ pc' = [pc EXCEPT ![s] = "write"]
    /\ pending' = TRUE
    /\ UNCHANGED <<raised, buffered, bytes, kind, sup, at, missed>>

\* `WAKE_PENDING.swap(true)`: a wake already pending makes this one return.
\* On the supervisor's own thread the swap follows that thread's own store.
Swap(s) ==
    /\ pc[s] = "swap"
    /\ s \in Inline => ~buffered
    /\ pc' = [pc EXCEPT ![s] = IF pending THEN "idle" ELSE "write"]
    /\ pending' = TRUE
    /\ missed' = IF pending /\ buffered THEN missed \cup {kind[s]} ELSE missed \ {kind[s]}
    /\ UNCHANGED <<raised, buffered, bytes, kind, sup, at>>

WriteByte(s) ==
    /\ pc[s] = "write"
    /\ pc' = [pc EXCEPT ![s] = "idle"]
    /\ bytes' = bytes + 1
    /\ UNCHANGED <<raised, pending, buffered, kind, sup, at, missed>>

(***************************************************************************)
(* The supervisor.  It does not run while a handler runs on its thread.    *)
(***************************************************************************)
SupervisorRuns == \A s \in Inline : pc[s] = "idle"

\* Mutant of PollReadable: `events` is left 0, and only the timeout ends `poll`.
PollNoEvents ==
    /\ sup = "poll" /\ bytes < 0
    /\ UNCHANGED vars

\* `poll` in `nap` returns because the pipe is readable.
PollReadable ==
    /\ sup = "poll" /\ SupervisorRuns /\ ~buffered
    /\ bytes > 0
    /\ sup' = "drain"
    /\ UNCHANGED <<raised, pending, buffered, bytes, pc, kind, at, missed>>

\* ... or at the end of its timeout, or interrupted by a signal.
PollTimeout ==
    /\ sup = "poll" /\ SupervisorRuns /\ ~buffered
    /\ sup' = "drain"
    /\ UNCHANGED <<raised, pending, buffered, bytes, pc, kind, at, missed>>

\* The read loop, up to EAGAIN.
Drain ==
    /\ sup = "drain" /\ SupervisorRuns
    /\ bytes' = 0
    /\ sup' = "clear"
    /\ UNCHANGED <<raised, pending, buffered, pc, kind, at, missed>>

\* `WAKE_PENDING.store(false)` after the drain.
Clear ==
    /\ sup = "clear" /\ SupervisorRuns
    /\ IF Reordered
       THEN buffered' = TRUE /\ UNCHANGED pending
       ELSE pending' = FALSE /\ UNCHANGED buffered
    /\ sup' = "serve"
    /\ at' = 1
    /\ UNCHANGED <<raised, bytes, pc, kind, missed>>

\* A delayed store becomes visible.
Flush ==
    /\ buffered
    /\ buffered' = FALSE
    /\ pending' = FALSE
    /\ UNCHANGED <<raised, bytes, pc, kind, sup, at, missed>>

\* Mutant of Serve: the loop naps before it has looked at the last flag.
ServeNapsEarly ==
    /\ sup = "serve" /\ SupervisorRuns
    /\ \/ /\ at < NKinds
          /\ raised' = raised \ {at} /\ missed' = missed \ {at}
          /\ at' = at + 1
          /\ sup' = IF at = StopKind /\ at \in raised THEN "done" ELSE "serve"
       \/ /\ at >= NKinds
          /\ sup' = "poll"
          /\ UNCHANGED <<raised, at, missed>>
    /\ UNCHANGED <<pending, buffered, bytes, pc, kind>>

\* The loop takes flag `at` (a load or a swap to false) and acts on it, or
\* naps again once it has looked at all of them.
Serve ==
    /\ sup = "serve" /\ SupervisorRuns
    /\ \/ /\ at \in Kinds
          /\ raised' = raised \ {at} /\ missed' = missed \ {at}
          /\ at' = at + 1
          /\ sup' = IF at = StopKind /\ at \in raised THEN "done" ELSE "serve"
       \/ /\ at > NKinds
          /\ sup' = "poll"
          /\ UNCHANGED <<raised, at, missed>>
    /\ UNCHANGED <<pending, buffered, bytes, pc, kind>>

Next ==
    \/ \E s \in Signallers :
          \/ \E k \in Kinds : Raise(s, k)
          \/ Swap(s)
          \/ WriteByte(s)
    \/ PollReadable
    \/ PollTimeout
    \/ Drain
    \/ Clear
    \/ Flush
    \/ Serve

\* A handler runs to its end, the CPU makes a store visible, and the
\* supervisor, which cannot run while a handler is on its thread, runs whenever
\* it can again and again (strong fairness: signals do not come back to back
\* for ever).  No fairness on PollTimeout: what is shown below does not rest on
\* the ten-second tick.
Fairness ==
    /\ \A s \in Signallers : WF_vars(Swap(s)) /\ WF_vars(WriteByte(s))
    /\ WF_vars(Flush)
    /\ SF_vars(PollReadable)
    /\ SF_vars(Drain)
    /\ SF_vars(Clear)
    /\ SF_vars(Serve)

Spec == Init /\ [][Next]_vars

FairSpec == Spec /\ Fairness
-----------------------------------------------------------------------------
(***************************************************************************)
(* Properties                                                              *)
(***************************************************************************)
\* Type invariant.
TypeOK ==
    /\ raised \subseteq Kinds
    /\ pending \in BOOLEAN
    /\ buffered \in BOOLEAN
    /\ bytes \in Nat
    /\ pc \in [Signallers -> {"idle", "swap", "write"}]
    /\ kind \in [Signallers -> Kinds]
    /\ sup \in {"poll", "drain", "clear", "serve", "done"}
    /\ at \in 1..(NKinds + 1)
    /\ missed \subseteq Kinds

Writers == {s \in Signallers : pc[s] = "write"}

\* A raised flag is never slept on (`nap`: "a signal before this point is
\* handled by the loop the caller is about to run, one after it writes a fresh
\* byte"): either the supervisor is still going to look at it before it polls,
\* or a byte is in the pipe, or the call that raised it has not finished.  The
\* one exception needs a weakly ordered CPU and a caller on another thread: the
\* relaxed read of the flag overtakes the store that clears WAKE_PENDING.
NoLostWakeup ==
    \A k \in raised \ missed :
        \/ sup \in {"drain", "clear", "done"}
        \/ sup = "serve" /\ at <= k
        \/ bytes > 0
        \/ Writers # {}
        \/ \E s \in Signallers : pc[s] = "swap" /\ kind[s] = k

\* WAKE_PENDING is never left set over an empty pipe nobody is about to write
\* to, which would silence every later `wake`.
PendingIsBacked ==
    pending /\ sup # "clear" /\ ~buffered => bytes > 0 \/ Writers # {}

\* The pipe never holds more than the callers that can be inside `wake` plus
\* two, so a `write` never meets a full pipe ("neither blocks nor fails").
PipeNeverFull == bytes <= Cardinality(Signallers) + 2

\* Everything raised is served without waiting for the tick to end ("a worker
\* exit triggers instant reap+respawn, RELOAD ... an instant reload, and
\* SIGTERM/SIGINT an instant shutdown"), with the same exception.
RaisedIsServed ==
    \A k \in Kinds :
        (k \in raised) ~> (k \notin raised \/ k \in missed \/ sup = "done")
=============================================================================
