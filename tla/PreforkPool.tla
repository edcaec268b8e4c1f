---------------------------- MODULE PreforkPool ----------------------------
(***************************************************************************)
(* The prefork worker pool (daemon.rs, `run_prefork`): one supervisor, its *)
(* worker processes and the processes of its side listeners.  The          *)
(* supervisor forks children from the loaded database, replaces those that *)
(* exit, starts a new generation on a reload, stops a retired child past   *)
(* its grace, and takes everything down on SHUTDOWN.  Children are told to *)
(* retire by the end of file on their generation's pipe.                   *)
(*                                                                         *)
(* What wakes the supervisor from `nap` is module WakePipe; here a nap may *)
(* end at any time.  A scan is the state "busy"; what it computes and what *)
(* it answers are other modules.                                           *)
(***************************************************************************)
EXTENDS Integers, FiniteSets

CONSTANTS
    Pids,       \* process ids; one is used again once its process is reaped
    NoPid,      \* an empty slot of `side_pids`
    Workers,    \* cfg.workers
    Sides,      \* the side listeners
    Platforms,  \* what `pdeathsig` may be
    MaxGen,     \* bound: generations
    MaxExits,   \* bound: children that leave unasked (crash, limit, recycling)
    MaxAdopted, \* bound: exited processes the supervisor did not fork
    MaxFaults,  \* bound: both together
    MayDie      \* the supervisor may be killed, or a fork may fail

ASSUME PoolAssumption ==
    /\ NoPid \notin Pids
    /\ Workers \in Nat \ {0}
    /\ "worker" \notin Sides /\ "other" \notin Sides
    /\ Platforms \subseteq BOOLEAN /\ MayDie \in BOOLEAN
    /\ MaxGen \in Nat \ {0} /\ {MaxExits, MaxAdopted, MaxFaults} \subseteq Nat

VARIABLES
    sup,        \* where the supervisor is
    shutdown,   \* SHUTDOWN
    reloadReq,  \* RELOAD_REQUESTED, or a change of the watched source
    gen,        \* the current generation
    notice,     \* generations whose pipe's write end the supervisor holds
    left,       \* workers still to fork in the loop under way
    children,   \* pids of the current workers
    side_pids,  \* pid of each side listener
    retiring,   \* children of retired generations, not yet reaped
    stopped,    \* those of them already sent SIGTERM
    elapsed,    \* generations up to this one have used up their grace
    toWait,     \* teardown: pids still to wait for
    st,         \* state of each process
    role,       \* "worker", a side listener, or "other" (adopted)
    pgen,       \* the generation it was forked in
    copies,     \* generations whose write end it was forked with and has open
    deaf,       \* history: its SIGTERM ran the supervisor's handler instead
    late,       \* history: connections accepted after its notice to retire
    pdeathsig,  \* TRUE on Linux: `die_with_parent` takes effect
    exits, adopted \* counters for the bounds

supVars   == <<sup, shutdown, reloadReq, gen, notice, left, children,
               side_pids, retiring, stopped, elapsed, toWait>>
procVars  == <<st, role, pgen, copies, deaf, late>>
outside   == <<pdeathsig, exits, adopted>>
vars == <<supVars, procVars, outside>>

SidePids == {side_pids[s] : s \in Sides} \ {NoPid}
Tracked  == children \cup SidePids \cup retiring
Gone     == sup \in {"done", "dead"}
Live     == {"boot", "entered", "own", "idle", "woken", "busy"}
Own      == {p \in Pids : st[p] # "free" /\ role[p] # "other"}

Init ==
    /\ sup = "start"
    /\ shutdown = FALSE /\ reloadReq = FALSE
    /\ gen = 1 /\ notice = {1} /\ left = Workers
    /\ children = {} /\ side_pids = [s \in Sides |-> NoPid]
    /\ retiring = {} /\ stopped = {} /\ elapsed = 0 /\ toWait = {}
    /\ st = [p \in Pids |-> "free"]
    /\ role = [p \in Pids |-> "worker"]
    /\ pgen = [p \in Pids |-> 0]
    /\ copies = [p \in Pids |-> {}]
    /\ deaf = [p \in Pids |-> FALSE]
    /\ late = [p \in Pids |-> 0]
    /\ pdeathsig \in Platforms /\ exits = 0 /\ adopted = 0
-----------------------------------------------------------------------------
(***************************************************************************)
(* Forking.  A new child runs with the supervisor's handlers and a copy of *)
(* the generation's write end until it has replaced the one and closed the *)
(* other.                                                                  *)
(***************************************************************************)
\* A fork of pid p, which is free or, in the same step, was freed by reaping.
Forked(reaped, p, r) ==
    /\ st[p] = "free" \/ p = reaped
    /\ st' = [st EXCEPT ![reaped] = "free", ![p] = "boot"]
    /\ role' = [role EXCEPT ![reaped] = "worker", ![p] = r]
    /\ pgen' = [pgen EXCEPT ![reaped] = 0, ![p] = gen]
    /\ copies' = [copies EXCEPT ![reaped] = {}, ![p] = notice]
    /\ deaf' = [deaf EXCEPT ![reaped] = FALSE, ![p] = FALSE]
    /\ late' = [late EXCEPT ![reaped] = 0, ![p] = 0]

\* The fork loops at start and after a reload: the workers, then the sides.
SpawnWorker(p) ==
    /\ sup \in {"start", "spawn"} /\ left > 0 /\ st[p] = "free"
    /\ Forked(p, p, "worker")
    /\ children' = children \cup {p}
    /\ left' = left - 1
    /\ UNCHANGED <<sup, shutdown, reloadReq, gen, notice, side_pids, retiring,
                   stopped, elapsed, toWait, outside>>

SpawnSide(s, p) ==
    /\ sup \in {"start", "spawn"} /\ left = 0
    /\ side_pids[s] = NoPid /\ st[p] = "free"
    /\ Forked(p, p, s)
    /\ side_pids' = [side_pids EXCEPT ![s] = p]
    /\ UNCHANGED <<sup, shutdown, reloadReq, gen, notice, left, children,
                   retiring, stopped, elapsed, toWait, outside>>

SpawnDone ==
    /\ sup \in {"start", "spawn"} /\ left = 0
    /\ \A s \in Sides : side_pids[s] # NoPid
    /\ sup' = IF sup = "start" THEN "check" ELSE "grace"
    /\ UNCHANGED <<shutdown, reloadReq, gen, notice, left, children, side_pids,
                   retiring, stopped, elapsed, toWait, procVars, outside>>
-----------------------------------------------------------------------------
(***************************************************************************)
(* The supervisor loop.                                                    *)
(***************************************************************************)
Check ==
    /\ sup = "check"
    /\ sup' = IF shutdown THEN "term" ELSE "reap"
    /\ UNCHANGED <<shutdown, reloadReq, gen, notice, left, children, side_pids,
                   retiring, stopped, elapsed, toWait, procVars, outside>>

\* The pid is free again, and nothing is left of the process that had it.
Reaped(p) ==
    /\ st' = [st EXCEPT ![p] = "free"]
    /\ role' = [role EXCEPT ![p] = "worker"]
    /\ pgen' = [pgen EXCEPT ![p] = 0]
    /\ copies' = [copies EXCEPT ![p] = {}]
    /\ deaf' = [deaf EXCEPT ![p] = FALSE]
    /\ late' = [late EXCEPT ![p] = 0]

\* waitpid(-1, WNOHANG) returned a retired child: it is not replaced.
ReapRetired(p) ==
    /\ sup = "reap" /\ st[p] = "zombie" /\ p \in retiring
    /\ Reaped(p)
    /\ retiring' = retiring \ {p}
    /\ stopped' = stopped \ {p}
    /\ UNCHANGED <<sup, shutdown, reloadReq, gen, notice, left, children,
                   side_pids, elapsed, toWait, outside>>

\* ... or a side listener's child, which is forked again unless shutting down.
ReapSide(p, q) ==
    /\ sup = "reap" /\ st[p] = "zombie" /\ p \notin retiring
    /\ \E s \in Sides :
          /\ side_pids[s] = p
          /\ IF shutdown
             THEN /\ q = p
                  /\ Reaped(p)
                  /\ side_pids' = [side_pids EXCEPT ![s] = NoPid]
             ELSE /\ Forked(p, q, s)
                  /\ side_pids' = [side_pids EXCEPT ![s] = q]
    /\ UNCHANGED <<sup, shutdown, reloadReq, gen, notice, left, children,
                   retiring, stopped, elapsed, toWait, outside>>

\* Mutant of ReapOther: the worker is not replaced.
ReapOtherKept(p, q) ==
    /\ sup = "reap" /\ st[p] = "zombie" /\ q = p
    /\ p \notin retiring /\ p \notin SidePids
    /\ Reaped(p)
    /\ children' = children \ {p}
    /\ UNCHANGED <<sup, shutdown, reloadReq, gen, notice, left, side_pids,
                   retiring, stopped, elapsed, toWait, outside>>

\* ... or anything else: a worker, or a process this one never forked.
ReapOther(p, q) ==
    /\ sup = "reap" /\ st[p] = "zombie"
    /\ p \notin retiring /\ p \notin SidePids
    /\ IF shutdown
       THEN /\ q = p
            /\ Reaped(p)
            /\ children' = children \ {p}
       ELSE /\ Forked(p, q, "worker")
            /\ children' = (children \ {p}) \cup {q}
    /\ UNCHANGED <<sup, shutdown, reloadReq, gen, notice, left, side_pids,
                   retiring, stopped, elapsed, toWait, outside>>

ReapNone ==
    /\ sup = "reap"
    /\ \A p \in Pids : st[p] # "zombie"
    /\ sup' = "reload"
    /\ UNCHANGED <<shutdown, reloadReq, gen, notice, left, children, side_pids,
                   retiring, stopped, elapsed, toWait, procVars, outside>>

\* RELOAD_REQUESTED.swap(false) || disk_changed.
TakeReload ==
    /\ sup = "reload"
    /\ reloadReq' = FALSE
    /\ sup' = IF reloadReq THEN "loading" ELSE "grace"
    /\ UNCHANGED <<shutdown, gen, notice, left, children, side_pids, retiring,
                   stopped, elapsed, toWait, procVars, outside>>

\* reload_db failed: the pool keeps what it has.
LoadFails ==
    /\ sup = "loading"
    /\ sup' = "grace"
    /\ UNCHANGED <<shutdown, reloadReq, gen, notice, left, children, side_pids,
                   retiring, stopped, elapsed, toWait, procVars, outside>>

\* Mutant of LoadOk: the side listeners' children are forgotten.
LoadOkSidesForgotten ==
    /\ sup = "loading" /\ gen < MaxGen
    /\ gen' = gen + 1
    /\ notice' = {gen + 1}
    /\ retiring' = retiring \cup children
    /\ children' = {}
    /\ side_pids' = [s \in Sides |-> NoPid]
    /\ left' = Workers
    /\ sup' = "spawn"
    /\ UNCHANGED <<shutdown, reloadReq, stopped, elapsed, toWait, procVars,
                   outside>>

\* Mutant of LoadOk: the old generation's write end is not closed before the
\* forks, so the new children inherit it.
LoadOkOldEndKept ==
    /\ sup = "loading" /\ gen < MaxGen
    /\ gen' = gen + 1
    /\ notice' = notice \cup {gen + 1}
    /\ retiring' = retiring \cup children \cup SidePids
    /\ children' = {}
    /\ side_pids' = [s \in Sides |-> NoPid]
    /\ left' = Workers
    /\ sup' = "spawn"
    /\ UNCHANGED <<shutdown, reloadReq, stopped, elapsed, toWait, procVars,
                   outside>>

\* reload_db succeeded: the old generation's pipe is dropped before any fork,
\* its children move to `retiring`, and a new pool is forked.
LoadOk ==
    /\ sup = "loading" /\ gen < MaxGen
    /\ gen' = gen + 1
    /\ notice' = {gen + 1}
    /\ retiring' = retiring \cup children \cup SidePids
    /\ children' = {}
    /\ side_pids' = [s \in Sides |-> NoPid]
    /\ left' = Workers
    /\ sup' = "spawn"
    /\ UNCHANGED <<shutdown, reloadReq, stopped, elapsed, toWait, procVars,
                   outside>>

\* What SIGTERM does to each process of P: nothing lasting while it still runs
\* the supervisor's handler, which only sets a flag no child ever looks at.
Sigterm(P) ==
    /\ st' = [p \in Pids |->
                IF p \in P /\ st[p] \in {"own", "idle", "woken", "busy"}
                THEN "zombie" ELSE st[p]]
    /\ deaf' = [p \in Pids |->
                deaf[p] \/ (p \in P /\ st[p] \in {"boot", "entered"})]

Overdue == {p \in retiring \ stopped : pgen[p] <= elapsed}

\* Mutant of GraceCheck: the retired are stopped without waiting.
GraceCheckAtOnce ==
    /\ sup = "grace"
    /\ Sigterm(retiring)
    /\ stopped' = retiring
    /\ sup' = "nap"
    /\ UNCHANGED <<shutdown, reloadReq, gen, notice, left, children, side_pids,
                   retiring, elapsed, toWait, role, pgen, copies, late, outside>>

\* Mutant of GraceCheck: the retired are never stopped.
GraceCheckNever ==
    /\ sup = "grace"
    /\ sup' = "nap"
    /\ UNCHANGED <<shutdown, reloadReq, gen, notice, left, children, side_pids,
                   retiring, stopped, elapsed, toWait, procVars, outside>>

\* Each retired child past its grace is sent SIGTERM, once.
GraceCheck ==
    /\ sup = "grace"
    /\ Sigterm(Overdue)
    /\ stopped' = stopped \cup Overdue
    /\ sup' = "nap"
    /\ UNCHANGED <<shutdown, reloadReq, gen, notice, left, children, side_pids,
                   retiring, elapsed, toWait, role, pgen, copies, late, outside>>

Nap ==
    /\ sup = "nap"
    /\ sup' = "check"
    /\ UNCHANGED <<shutdown, reloadReq, gen, notice, left, children, side_pids,
                   retiring, stopped, elapsed, toWait, procVars, outside>>

\* Mutant of Teardown: the retired are waited for but not signalled.
TeardownCurrentOnly ==
    /\ sup = "term"
    /\ Sigterm(children \cup SidePids)
    /\ toWait' = Tracked
    /\ sup' = "wait"
    /\ UNCHANGED <<shutdown, reloadReq, gen, notice, left, children, side_pids,
                   retiring, stopped, elapsed, role, pgen, copies, late,
                   outside>>

\* Teardown: SIGTERM to everything tracked, then one blocking waitpid each.
Teardown ==
    /\ sup = "term"
    /\ Sigterm(Tracked)
    /\ toWait' = Tracked
    /\ sup' = "wait"
    /\ UNCHANGED <<shutdown, reloadReq, gen, notice, left, children, side_pids,
                   retiring, stopped, elapsed, role, pgen, copies, late,
                   outside>>

WaitChild(p) ==
    /\ sup = "wait" /\ p \in toWait /\ st[p] = "zombie"
    /\ Reaped(p)
    /\ toWait' = toWait \ {p}
    /\ UNCHANGED <<sup, shutdown, reloadReq, gen, notice, left, children,
                   side_pids, retiring, stopped, elapsed, outside>>

Finish ==
    /\ sup = "wait" /\ toWait = {}
    /\ sup' = "done"
    /\ UNCHANGED <<shutdown, reloadReq, gen, notice, left, children, side_pids,
                   retiring, stopped, elapsed, toWait, procVars, outside>>
-----------------------------------------------------------------------------
(***************************************************************************)
(* A child.                                                                *)
(***************************************************************************)
Moves(p, from, to) ==
    /\ st[p] = from
    /\ st' = [st EXCEPT ![p] = to]
    /\ UNCHANGED <<supVars, role, pgen, copies, deaf>>

\* End of file on generation g's pipe: nobody holds its write end any more.
\* The kernel closes what a process that ended held.
Notice(g) ==
    /\ g \notin notice \/ Gone
    /\ \A p \in Pids : ~(st[p] \in Live /\ g \in copies[p])

\* `Generation::enter`: the child's copy of its generation's write end is
\* closed.  It has no other only if the supervisor had none when it forked.
Enter(p) ==
    /\ st[p] = "boot"
    /\ st' = [st EXCEPT ![p] = "entered"]
    /\ copies' = [copies EXCEPT ![p] = @ \ {pgen[p]}]
    /\ UNCHANGED <<supVars, role, pgen, deaf, late, outside>>

\* `child_signals` and, in a worker, the SIGTERM handler.
OwnSignals(p) == Moves(p, "entered", "own") /\ UNCHANGED <<late, outside>>

\* `die_with_parent`: a child whose supervisor is already gone leaves.
DieWithParent(p) ==
    /\ Moves(p, "own", IF pdeathsig /\ Gone THEN "zombie" ELSE "idle")
    /\ UNCHANGED <<late, outside>>

\* `await_connection` returned false: the generation is retired.
Retire(p) ==
    /\ Notice(pgen[p])
    /\ Moves(p, "idle", "zombie")
    /\ UNCHANGED <<late, outside>>

\* Mutant of AwaitConnection: the listener is looked at first.
AwaitListenerFirst(p) ==
    /\ Moves(p, "idle", "woken")
    /\ UNCHANGED <<late, outside>>

\* `await_connection` returned true; the retirement is looked at first.
AwaitConnection(p) ==
    /\ ~Notice(pgen[p])
    /\ Moves(p, "idle", "woken")
    /\ UNCHANGED <<late, outside>>

Accept(p) ==
    /\ Moves(p, "woken", "busy")
    /\ late' = [late EXCEPT ![p] = IF Notice(pgen[p]) THEN @ + 1 ELSE @]
    /\ UNCHANGED outside

\* Another worker took the connection.
LostRace(p) == Moves(p, "woken", "idle") /\ UNCHANGED <<late, outside>>

\* The connection ends and the child waits for the next one.
ConnectionEnds(p) == Moves(p, "busy", "idle") /\ UNCHANGED <<late, outside>>

\* The child leaves unasked: a limit's handler, the OOM killer, an accept
\* error, or `max_jobs` reached.
ChildExits(p) ==
    /\ st[p] \in Live /\ exits < MaxExits /\ exits + adopted < MaxFaults
    /\ Moves(p, st[p], "zombie")
    /\ exits' = exits + 1
    /\ UNCHANGED <<late, pdeathsig, adopted>>
-----------------------------------------------------------------------------
(***************************************************************************)
(* The surroundings.                                                       *)
(***************************************************************************)
\* SIGUSR2, a RELOAD command, the updater, or a changed source.
RequestReload ==
    /\ ~Gone /\ ~reloadReq /\ gen < MaxGen
    /\ reloadReq' = TRUE
    /\ UNCHANGED <<sup, shutdown, gen, notice, left, children, side_pids,
                   retiring, stopped, elapsed, toWait, procVars, outside>>

\* SIGTERM or SIGINT to the supervisor, or a SHUTDOWN command.
RequestShutdown ==
    /\ ~Gone /\ ~shutdown
    /\ shutdown' = TRUE
    /\ UNCHANGED <<sup, reloadReq, gen, notice, left, children, side_pids,
                   retiring, stopped, elapsed, toWait, procVars, outside>>

\* The grace of the oldest retired generation ends.
GraceElapses ==
    /\ elapsed < gen - 1
    /\ elapsed' = elapsed + 1
    /\ UNCHANGED <<sup, shutdown, reloadReq, gen, notice, left, children,
                   side_pids, retiring, stopped, toWait, procVars, outside>>

\* A process this one never forked became its child and exited: the daemon is
\* pid 1 of a container, or was exec'd by a script with background jobs.  It
\* makes no difference before `waitpid` can return it.
Adopt(p) ==
    /\ sup = "reap" /\ st[p] = "free"
    /\ adopted < MaxAdopted /\ exits + adopted < MaxFaults
    /\ st' = [st EXCEPT ![p] = "zombie"]
    /\ role' = [role EXCEPT ![p] = "other"]
    /\ adopted' = adopted + 1
    /\ UNCHANGED <<supVars, pgen, copies, deaf, late, pdeathsig,
                   exits>>

\* Mutant of SupervisorDies: no parent-death signal was arranged.
SupervisorDiesUnnoticed ==
    /\ MayDie /\ ~Gone
    /\ sup' = "dead"
    /\ UNCHANGED <<shutdown, reloadReq, gen, notice, left, children, side_pids,
                   retiring, stopped, elapsed, toWait, procVars, outside>>

\* The supervisor is killed outright, or returns on a failed fork or pipe: the
\* kernel sends the children that arranged for it SIGTERM.
SupervisorDies ==
    /\ MayDie /\ ~Gone
    /\ sup' = "dead"
    /\ st' = [p \in Pids |->
                IF pdeathsig /\ st[p] \in {"idle", "woken", "busy"}
                THEN "zombie" ELSE st[p]]
    /\ UNCHANGED <<shutdown, reloadReq, gen, notice, left, children, side_pids,
                   retiring, stopped, elapsed, toWait, role, pgen, copies, deaf,
                   late, outside>>
-----------------------------------------------------------------------------
SupNext ==
    \/ \E p \in Pids :
          \/ SpawnWorker(p)
          \/ \E s \in Sides : SpawnSide(s, p)
          \/ ReapRetired(p)
          \/ \E q \in Pids : ReapSide(p, q) \/ ReapOther(p, q)
          \/ WaitChild(p)
    \/ SpawnDone
    \/ Check
    \/ ReapNone
    \/ TakeReload
    \/ LoadFails
    \/ LoadOk
    \/ GraceCheck
    \/ Nap
    \/ Teardown
    \/ Finish

ChildNext(p) ==
    \/ Enter(p)
    \/ OwnSignals(p)
    \/ DieWithParent(p)
    \/ Retire(p)
    \/ AwaitConnection(p)
    \/ Accept(p)
    \/ LostRace(p)
    \/ ConnectionEnds(p)
    \/ ChildExits(p)

EnvNext ==
    \/ RequestReload
    \/ RequestShutdown
    \/ GraceElapses
    \/ \E p \in Pids : Adopt(p)
    \/ SupervisorDies

Next ==
    \/ SupNext
    \/ \E p \in Pids : ChildNext(p)
    \/ EnvNext

\* The kernel schedules the supervisor (a nap ends at the latest with its
\* tick) and every child that can run, and time passes.  Nothing makes a
\* connection end: a session may stay open, a scan may hang.
Fairness ==
    /\ WF_vars(SupNext)
    /\ WF_vars(GraceElapses)
    /\ \A p \in Pids :
          /\ WF_vars(Enter(p))
          /\ WF_vars(OwnSignals(p))
          /\ WF_vars(DieWithParent(p))
          /\ WF_vars(Retire(p))
          /\ WF_vars(Accept(p) \/ LostRace(p))

Spec == Init /\ [][Next]_vars

FairSpec == Spec /\ Fairness
-----------------------------------------------------------------------------
(***************************************************************************)
(* Properties                                                              *)
(***************************************************************************)
\* The values the variables take.
TypeOK ==
    /\ sup \in {"start", "check", "reap", "reload", "loading", "spawn", "grace",
                "nap", "term", "wait", "done", "dead"}
    /\ shutdown \in BOOLEAN /\ reloadReq \in BOOLEAN
    /\ gen \in 1..MaxGen /\ left \in 0..Workers /\ elapsed \in 0..MaxGen
    /\ children \subseteq Pids /\ retiring \subseteq Pids
    /\ stopped \subseteq Pids /\ toWait \subseteq Pids
    /\ side_pids \in [Sides -> Pids \cup {NoPid}]
    /\ st \in [Pids -> Live \cup {"free", "zombie"}]
    /\ role \in [Pids -> {"worker", "other"} \cup Sides]
    /\ pgen \in [Pids -> 0..MaxGen]
    /\ notice \subseteq 1..MaxGen
    /\ copies \in [Pids -> SUBSET (1..MaxGen)]
    /\ deaf \in [Pids -> BOOLEAN]
    /\ late \in [Pids -> Nat]
    /\ pdeathsig \in BOOLEAN /\ exits \in 0..MaxExits /\ adopted \in 0..MaxAdopted

\* Until teardown the supervisor tracks exactly the processes it forked and
\* has not reaped, each in one place: no child is forgotten, and every pid it
\* signals is an unreaped child of its own (the SAFETY comments on its `kill`
\* calls: "so the pid cannot have been reused").
TracksItsChildren ==
    sup \notin {"wait", "done", "dead"} =>
        /\ Tracked = Own
        /\ children \cap SidePids = {}
        /\ (children \cup SidePids) \cap retiring = {}
        /\ stopped \subseteq retiring

\* What may still take a connection: a child already woken for one, and any
\* child of whose generation somebody still holds the write end.
MayAccept(p) == st[p] \in Live /\ (st[p] = "woken" \/ ~Notice(pgen[p]))

\* A reload takes the old database out of service: whatever may still take a
\* connection belongs to the pool forked from the current database, but for the
\* retired child that had been woken before its notice, and for those whose
\* notice waits for a sibling forked just before the reload to close its copy of
\* the write end.  No child of a later generation keeps an earlier one in service
\* ("It happens before the fork so the new children never hold the old write end").
GenerationsApart ==
    ~Gone /\ sup # "wait" =>
        \A p \in Pids :
            MayAccept(p) =>
                \/ p \in children \cup SidePids /\ pgen[p] = gen
                \/ /\ p \in retiring /\ pgen[p] < gen
                   /\ \/ st[p] = "woken"
                      \/ \E q \in retiring : st[q] = "boot" /\ pgen[q] = pgen[p]

\* The loop keeps the pool at its size ("reap exited workers and respawn to keep
\* the count constant"): when the supervisor goes to sleep and no shutdown is
\* under way, every worker and every side listener has a process; and a retired
\* child, a side listener or a crash never adds a worker to cfg.workers.  The
\* one thing that does is the exit of a process the supervisor never forked,
\* which it takes for a worker's.
PoolKeepsItsSize ==
    /\ Cardinality(children) <= Workers + adopted
    /\ sup = "nap" /\ ~shutdown =>
         /\ Cardinality(children) >= Workers
         /\ \A s \in Sides : side_pids[s] # NoPid

\* After the end of file on its generation's pipe a child takes at most the one
\* connection it had already been woken for ("an idle child leaves at once").
\* Not after the reload itself: a sibling just forked holds a copy of the write
\* end until `enter`, and delays the notice.
OneLateConnection == \A p \in Pids : late[p] <= 1

\* A reload cuts no scan short: the supervisor ends a busy child only in
\* teardown, by dying, or once the child's own generation has had its grace.
ReloadSparesScans ==
    [][\A p \in Pids :
          st[p] = "busy" /\ st'[p] = "zombie" /\ exits' = exits =>
              \/ sup' \in {"wait", "dead"}
              \/ p \in retiring /\ pgen[p] <= elapsed]_vars

\* No supervisor leaves a child serving behind.  Teardown waits for no child but
\* those that leave and those whose SIGTERM came before they had replaced the
\* supervisor's handler; when `run_prefork` returns from it, no process it forked
\* is left; and where the kernel signals parent death, none that is waiting for
\* a connection or serving one outlives a supervisor that is killed.
GoneLeavesNone ==
    /\ sup = "wait" => \A p \in toWait : st[p] = "zombie" \/ deaf[p]
    /\ sup = "done" => \A p \in Pids : st[p] = "free"
    /\ sup = "dead" /\ pdeathsig => \A p \in Pids : st[p] \notin {"idle", "woken", "busy"}

\* A retired child is gone at some point, even one whose client never lets it
\* go ("would otherwise keep it, and the old signatures it serves, alive
\* indefinitely"), unless the daemon stops first; but for one whose only SIGTERM
\* came before it had replaced the supervisor's handler and which then, its
\* notice delayed by a sibling's copy of the write end, took a connection.
RetiredLeave ==
    \A p \in Pids :
        p \in retiring ~>
            p \notin retiring \/ shutdown \/ Gone \/ (deaf[p] /\ st[p] = "busy")

\* A shutdown request ends the supervisor ("one asked to stop takes them with
\* it as it always did"), but for a child whose SIGTERM came before it had
\* replaced the supervisor's handler: the only thing that keeps teardown waiting.
ShutdownEndsUnlessDeaf ==
    shutdown ~> Gone \/ \E p \in Tracked : deaf[p]

\* When the supervisor dies its children go too: all of them where the kernel
\* signals parent death, all but the busy ones elsewhere, because an idle
\* child sees the generation's pipe close.
OrphansLeave ==
    sup = "dead" ~>
        \A p \in Pids : st[p] \in {"free", "zombie"} \/ (~pdeathsig /\ st[p] = "busy")
-----------------------------------------------------------------------------
(***************************************************************************)
(* The service the pool gives.                                             *)
(***************************************************************************)
ServiceMode == IF sup \in {"wait", "done", "dead"} THEN "down" ELSE "up"

ServicePhase == [p \in Pids |-> IF st[p] \notin Live THEN "none"
                                ELSE IF p \in retiring THEN "retired" ELSE "serving"]

ServiceOf == [p \in Pids |-> IF st[p] \in Live THEN pgen[p] ELSE 0]

ServiceBusy == {p \in Pids : st[p] = "busy"}

\* The supervisor and its children implement ScanService: whatever the order of
\* forks, pipes, signals and waits, a child serves the database of its
\* generation, a reload retires all of them at once, and none is taken from its
\* connection before its grace is over, but by a crash or the daemon's end.
Service == INSTANCE ScanService WITH
    Procs <- Pids, version <- gen, grace <- elapsed, mode <- ServiceMode,
    crashes <- exits, phase <- ServicePhase, of <- ServiceOf, busy <- ServiceBusy

ImplementsService == Service!Spec
=============================================================================
