---------------------------- MODULE ReloadWatch ----------------------------
(***************************************************************************)
(* Hot reload (daemon.rs: `Watch`, `source_state`, the reload part of      *)
(* `supervise` and of `run_prefork`; main.rs: the order of `Watch::new`    *)
(* and `load_db`): the supervisor polls a signature source that a sidecar  *)
(* rewrites at any moment, also while its files are being visited for the  *)
(* digest or read by the loader, and is asked to reload by commands,       *)
(* signals and the updater, also during a load.                            *)
(*                                                                         *)
(* A file's `look` is what the digest sees of it (name, size, mtime and    *)
(* inode), its `ver` is what the loader reads; both only grow, which makes *)
(* every rewrite that changes the look a new look.                         *)
(***************************************************************************)
EXTENDS Integers

CONSTANTS
    Files,       \* the files of the source
    MaxVersion,  \* bound: rewrites of a file
    MaxAsks,     \* bound: reload requests
    MaxFails,    \* bound: failed loads
    Silent,      \* a rewrite may keep a file's look (in place, same size, same tick)
    Vanishes,    \* the source may go and come back (a volume, a directory swap)
    AllowNoDb    \* --allow-no-db: the built-in signatures may be served

ASSUME ReloadAssumption ==
    /\ MaxVersion \in Nat \ {0} /\ MaxAsks \in Nat /\ MaxFails \in Nat
    /\ Silent \in BOOLEAN /\ Vanishes \in BOOLEAN /\ AllowNoDb \in BOOLEAN

VARIABLES
    look, ver, present,    \* the source
    pc,                    \* where the supervisor is
    todo,                  \* files a walk or a load has still to visit
    walk,                  \* the digest so far
    seen,                  \* Watch.seen
    disk,                  \* `disk_changed`
    flag,                  \* RELOAD_REQUESTED
    partLook, partVer,     \* what the load has read so far
    dbLook, dbVer,         \* what the database in use was read from
    asked,                 \* history: the source's contents at the last request
    failed,                \* history: the last load failed
    asks, fails

vars == <<look, ver, present, pc, todo, walk, seen, disk, flag, partLook, partVer, dbLook,
          dbVer, asked, failed, asks, fails>>
source == <<look, ver, present>>
watch == <<walk, seen, disk>>
part == <<partLook, partVer>>
db == <<dbLook, dbVer>>
history == <<asked, failed, asks, fails>>

None == [f \in Files |-> -1]    \* no digest: the path cannot be stat'd
Nothing == [f \in Files |-> 0]
Builtin == [f \in Files |-> -1] \* Scanner::builtin: read from none of the files

Init ==
    /\ look = [f \in Files |-> 1] /\ ver = [f \in Files |-> 1]
    /\ present \in BOOLEAN /\ (~Vanishes => present)
    /\ pc = "baseline" /\ todo = {}
    /\ walk = Nothing /\ seen = None /\ disk = FALSE
    /\ flag = FALSE
    /\ partLook = Nothing /\ partVer = Nothing
    /\ dbLook = Nothing /\ dbVer = Nothing
    /\ asked = Nothing /\ failed = FALSE
    /\ asks = 0 /\ fails = 0
-----------------------------------------------------------------------------
(***************************************************************************)
(* `source_state`: the digest, one entry at a time.  `Watch::new` takes it *)
(* before the first load, `Watch::changed` after each nap.                 *)
(***************************************************************************)
Wake ==
    /\ pc = "nap"
    /\ pc' = "look"
    /\ UNCHANGED <<source, todo, watch, flag, part, db, history>>

\* Without the path there is no digest: at startup None is kept, later the
\* digest seen before, and nothing counts as changed.
NoSource ==
    /\ pc \in {"baseline", "look"} /\ ~present
    /\ IF pc = "baseline"
       THEN /\ pc' = "load" /\ todo' = Files
            /\ partLook' = Nothing /\ partVer' = Nothing
       ELSE pc' = "swap" /\ UNCHANGED <<todo, part>>
    /\ disk' = FALSE
    /\ UNCHANGED <<source, walk, seen, flag, db, history>>

WalkStart ==
    /\ pc \in {"baseline", "look"} /\ present
    /\ pc' = IF pc = "baseline" THEN "firstwalk" ELSE "walk"
    /\ todo' = Files
    /\ walk' = Nothing
    /\ UNCHANGED <<source, seen, disk, flag, part, db, history>>

\* An entry that has gone leaves nothing in the digest.
WalkOne(f) ==
    /\ pc \in {"firstwalk", "walk"} /\ f \in todo
    /\ walk' = [walk EXCEPT ![f] = IF present THEN look[f] ELSE 0]
    /\ todo' = todo \ {f}
    /\ UNCHANGED <<source, pc, seen, disk, flag, part, db, history>>

\* The baseline is what the first load is going to be compared with.
Baseline ==
    /\ pc = "firstwalk" /\ todo = {}
    /\ seen' = walk
    /\ pc' = "load" /\ todo' = Files
    /\ partLook' = Nothing /\ partVer' = Nothing
    /\ UNCHANGED <<source, walk, disk, flag, db, history>>

\* `changed`: any difference counts, and is noted as seen.
Changed ==
    /\ pc = "walk" /\ todo = {}
    /\ disk' = (walk # seen)
    /\ seen' = walk
    /\ pc' = "swap"
    /\ UNCHANGED <<source, todo, walk, flag, part, db, history>>
-----------------------------------------------------------------------------

\* The request flag is taken, and both triggers make one reload.
Swap ==
    /\ pc = "swap"
    /\ flag' = FALSE
    /\ IF flag \/ disk
       THEN /\ pc' = "load" /\ todo' = Files
            /\ partLook' = Nothing /\ partVer' = Nothing
       ELSE pc' = "nap" /\ UNCHANGED <<todo, part>>
    /\ UNCHANGED <<source, watch, db, history>>

\* The loader reads a file.
LoadOne(f) ==
    /\ pc = "load" /\ present /\ f \in todo
    /\ partLook' = [partLook EXCEPT ![f] = look[f]]
    /\ partVer' = [partVer EXCEPT ![f] = ver[f]]
    /\ todo' = todo \ {f}
    /\ UNCHANGED <<source, pc, watch, flag, db, history>>

\* The load fails: the source is not there, corrupt, or empty
\* (`guard_not_empty`), or memory runs out.  At startup the process exits,
\* later the database in use stays.
LoadFails ==
    /\ pc = "load" /\ (~present \/ fails < MaxFails)
    /\ fails' = IF present THEN fails + 1 ELSE fails
    /\ pc' = IF dbVer = Nothing THEN "exit" ELSE "nap"
    /\ failed' = TRUE
    /\ UNCHANGED <<source, todo, watch, flag, part, db, asked, asks>>

\* load_db: a signature directory that is not there, or is empty, is not an
\* error but the built-in signatures, and `guard_not_empty` lets them through
\* under --allow-no-db.  (`LoadFails` covers that guard without it, and
\* --database, where a missing file is an error either way.)
LoadsBuiltin ==
    /\ pc = "load" /\ AllowNoDb /\ ~present /\ todo = Files
    /\ dbLook' = Builtin /\ dbVer' = Builtin
    /\ failed' = FALSE
    /\ pc' = "nap"
    /\ UNCHANGED <<source, todo, watch, flag, part, asked, asks, fails>>

\* Mutant of Loaded: the baseline is taken after the load.
LoadedThenSeen ==
    /\ pc = "load" /\ todo = {}
    /\ dbLook' = partLook /\ dbVer' = partVer
    /\ failed' = FALSE
    /\ pc' = "nap"
    /\ seen' = look
    /\ UNCHANGED <<source, todo, walk, disk, flag, part, asked, asks, fails>>

\* Mutant of Loaded: the request is taken as done once the load is.
LoadedThenTaken ==
    /\ pc = "load" /\ todo = {}
    /\ dbLook' = partLook /\ dbVer' = partVer
    /\ failed' = FALSE
    /\ pc' = "nap"
    /\ flag' = FALSE
    /\ UNCHANGED <<source, todo, watch, part, asked, asks, fails>>

\* The new database is swapped in whole (`SharedDb::replace`, or the next
\* generation forked from it).
Loaded ==
    /\ pc = "load" /\ todo = {}
    /\ dbLook' = partLook /\ dbVer' = partVer
    /\ failed' = FALSE
    /\ pc' = "nap"
    /\ UNCHANGED <<source, todo, watch, flag, part, asked, asks, fails>>

\* `request_reload`: RELOAD, SIGUSR2, or the updater after an install.
Ask ==
    /\ asks < MaxAsks
    /\ asks' = asks + 1
    /\ flag' = TRUE
    /\ asked' = ver
    /\ UNCHANGED <<source, pc, todo, watch, part, db, failed, fails>>
-----------------------------------------------------------------------------
(***************************************************************************)
(* Whoever writes the source.                                              *)
(***************************************************************************)
Rewrite(f) ==
    /\ present /\ ver[f] < MaxVersion
    /\ ver' = [ver EXCEPT ![f] = @ + 1]
    /\ \/ look' = [look EXCEPT ![f] = @ + 1]
       \/ Silent /\ look' = look
    /\ UNCHANGED <<present, pc, todo, watch, flag, part, db, history>>

Vanish ==
    /\ Vanishes
    /\ present' = ~present
    /\ UNCHANGED <<look, ver, pc, todo, watch, flag, part, db, history>>

Supervisor ==
    \/ Wake
    \/ NoSource
    \/ WalkStart
    \/ \E f \in Files : WalkOne(f)
    \/ Baseline
    \/ Changed
    \/ Swap
    \/ \E f \in Files : LoadOne(f)
    \/ LoadFails
    \/ LoadsBuiltin
    \/ Loaded

Next ==
    \/ Supervisor
    \/ Ask
    \/ \E f \in Files : Rewrite(f)
    \/ Vanish

Spec == Init /\ [][Next]_vars

\* The supervisor's loop keeps running: its naps end by themselves.
FairSpec == Spec /\ WF_vars(Supervisor)
-----------------------------------------------------------------------------
(***************************************************************************)
(* Properties                                                              *)
(***************************************************************************)
Versions == [Files -> 0..MaxVersion]

\* The values the variables take.
TypeOK ==
    /\ look \in Versions /\ ver \in Versions /\ present \in BOOLEAN
    /\ pc \in {"baseline", "firstwalk", "load", "nap", "look", "walk", "swap", "exit"}
    /\ todo \subseteq Files
    /\ walk \in Versions /\ seen \in Versions \cup {None}
    /\ disk \in BOOLEAN /\ flag \in BOOLEAN
    /\ partLook \in Versions /\ partVer \in Versions
    /\ dbLook \in Versions \cup {Builtin} /\ dbVer \in Versions \cup {Builtin}
    /\ asked \in Versions /\ failed \in BOOLEAN
    /\ asks \in 0..MaxAsks /\ fails \in 0..MaxFails

\* A rewrite is never "in the baseline, and its signatures never loaded": when
\* the supervisor naps with nothing in the digest to make its next poll reload,
\* the database in use was read from the files as they now look.  The exception
\* is the built-in database: a source that is away when a load begins and back
\* with the same look before the next poll is not a change.
StaleIsNoticed ==
    pc = "nap" /\ ~failed /\ seen = look => dbLook \in {look, Builtin}

\* A reload that was asked for reads what the source held at the request, or
\* later: a request that arrives during a load is not taken for served by it.
\* (Under --allow-no-db it may find the source gone, and says so.)
RequestIsHonoured ==
    pc = "nap" /\ ~failed /\ ~flag =>
        dbVer = Builtin \/ \A f \in Files : dbVer[f] >= asked[f]

=============================================================================
