---------------------------- MODULE SourceProofs ----------------------------
(***************************************************************************)
(* The signature source, from the server to the database in use, for every *)
(* set of files, updaters and faults and every bound.                      *)
(*                                                                         *)
(* Hot reload (ReloadWatch): a rewrite of the source is never taken for    *)
(* loaded, and a request never for served.  Both rest on the order the     *)
(* code takes: first the digest (or the request flag), then the load.  The *)
(* inductive invariant carries that order through the load: every file     *)
(* already read was read no older than the digest has it, and no older     *)
(* than any request whose flag has been taken.                             *)
(*                                                                         *)
(* The updater (Updater): what is installed, and what a crash goes back to, *)
(* is one complete version.                                                *)
(***************************************************************************)
EXTENDS ReloadWatch, Updater, TLAPS

\* The numeric part of the type invariant, with `seen` as one function type.
Typed ==
    /\ look \in [Files -> Int] /\ ver \in [Files -> Int]
    /\ todo \subseteq Files
    /\ walk \in [Files -> Int] /\ seen \in [Files -> Int]
    /\ partLook \in [Files -> Int] /\ partVer \in [Files -> Int]
    /\ dbLook \in [Files -> Int] /\ dbVer \in [Files -> Int]
    /\ asked \in [Files -> Int]

\* Nothing that was read or noted is ahead of the source.
Behind ==
    \A f \in Files :
        /\ walk[f] <= look[f] /\ seen[f] <= look[f]
        /\ partLook[f] <= look[f] /\ dbLook[f] <= look[f]
        /\ asked[f] <= ver[f] /\ 0 <= look[f]

\* What a load has read is no older than the digest and the requests it serves.
LoadCovers ==
    pc = "load" => \A f \in Files \ todo :
                       partLook[f] >= seen[f] /\ (flag \/ partVer[f] >= asked[f])

\* Nor is the database in use, until a change is on its way to a reload, unless
\* it is the built-in one.
SeenIsLoaded ==
    ~failed /\ (pc \in {"nap", "look", "walk"} \/ (pc = "swap" /\ ~disk))
        => dbLook = Builtin \/ \A f \in Files : dbLook[f] >= seen[f]

AskedIsLoaded ==
    ~failed /\ pc \in {"nap", "look", "walk", "swap"} /\ ~flag
        => dbVer = Builtin \/ \A f \in Files : dbVer[f] >= asked[f]

\* A walk ends with a digest that was never ahead of the source.
IInv == Typed /\ Behind /\ LoadCovers /\ SeenIsLoaded /\ AskedIsLoaded

USE DEF Typed, None, Nothing, Builtin

\* The daemon starts with nothing noted, read or asked for.
LEMMA InitHolds == Init => IInv
BY DEF Init, IInv, Behind, LoadCovers, SeenIsLoaded, AskedIsLoaded

\* Every step keeps the types.
LEMMA TypedStep == ASSUME Typed, [Next]_vars PROVE Typed'
<1>1. CASE Wake BY <1>1 DEF Wake, source, watch, part, db, history
<1>2. CASE NoSource BY <1>2 DEF NoSource, source, watch, part, db, history
<1>3. CASE WalkStart BY <1>3 DEF WalkStart, source, watch, part, db, history
<1>4. ASSUME NEW f \in Files, WalkOne(f) PROVE Typed'
  BY <1>4 DEF WalkOne, source, watch, part, db, history
<1>5. CASE Baseline BY <1>5 DEF Baseline, source, watch, part, db, history
<1>6. CASE Changed BY <1>6 DEF Changed, source, watch, part, db, history
<1>7. CASE Swap BY <1>7 DEF Swap, source, watch, part, db, history
<1>8. ASSUME NEW f \in Files, LoadOne(f) PROVE Typed'
  BY <1>8 DEF LoadOne, source, watch, part, db, history
<1>9. CASE LoadFails BY <1>9 DEF LoadFails, source, watch, part, db, history
<1>10. CASE LoadsBuiltin \/ Loaded BY <1>10 DEF LoadsBuiltin, Loaded, source, watch, part, db, history
<1>11. CASE Ask BY <1>11 DEF Ask, source, watch, part, db, history
<1>12. ASSUME NEW f \in Files, Rewrite(f) PROVE Typed'
  BY <1>12 DEF Rewrite, source, watch, part, db, history
<1>13. CASE Vanish BY <1>13 DEF Vanish, source, watch, part, db, history
<1>14. CASE UNCHANGED vars BY <1>14 DEF vars
<1> QED
  BY <1>1, <1>2, <1>3, <1>4, <1>5, <1>6, <1>7, <1>8, <1>9, <1>10, <1>11, <1>12, <1>13,
     <1>14 DEF Next, Supervisor

\* Each step keeps the order "digest and flag first, load after".
LEMMA OrderStep == ASSUME IInv, [Next]_vars PROVE IInv'
<1> USE DEF IInv, Behind, LoadCovers, SeenIsLoaded, AskedIsLoaded
<1>0. Typed' BY TypedStep
<1>1. CASE Wake BY <1>0, <1>1 DEF Wake, source, watch, part, db, history
<1>2. CASE NoSource
  <2>1. CASE pc = "baseline"
    BY <1>0, <1>2, <2>1 DEF NoSource, source, watch, part, db, history
  <2>2. CASE pc = "look"
    BY <1>0, <1>2, <2>2 DEF NoSource, source, watch, part, db, history
  <2> QED BY <1>2, <2>1, <2>2 DEF NoSource
<1>3. CASE WalkStart BY <1>0, <1>3 DEF WalkStart, source, watch, part, db, history
<1>4. ASSUME NEW f \in Files, WalkOne(f) PROVE IInv'
  BY <1>0, <1>4 DEF WalkOne, source, watch, part, db, history
<1>5. CASE Baseline BY <1>0, <1>5 DEF Baseline, source, watch, part, db, history
<1>6. CASE Changed BY <1>0, <1>6 DEF Changed, source, watch, part, db, history
<1>7. CASE Swap BY <1>0, <1>7 DEF Swap, source, watch, part, db, history
<1>8. ASSUME NEW f \in Files, LoadOne(f) PROVE IInv'
  BY <1>0, <1>8 DEF LoadOne, source, watch, part, db, history
<1>9. CASE LoadFails BY <1>0, <1>9 DEF LoadFails, source, watch, part, db, history
<1>10. CASE LoadsBuiltin \/ Loaded BY <1>0, <1>10 DEF LoadsBuiltin, Loaded, source, watch, part, db, history
<1>11. CASE Ask BY <1>0, <1>11 DEF Ask, source, watch, part, db, history
<1>12. ASSUME NEW f \in Files, Rewrite(f) PROVE IInv'
  BY <1>0, <1>12 DEF Rewrite, source, watch, part, db, history
<1>13. CASE Vanish BY <1>0, <1>13 DEF Vanish, source, watch, part, db, history
<1>14. CASE UNCHANGED vars BY <1>0, <1>14 DEF vars
<1> QED
  BY <1>1, <1>2, <1>3, <1>4, <1>5, <1>6, <1>7, <1>8, <1>9, <1>10, <1>11, <1>12, <1>13,
     <1>14 DEF Next, Supervisor

\* A poll that finds nothing new means the database in use was read from the
\* source as it now looks (`Watch::new` before `load_db`, `changed` before
\* `reload_db`), or is the built-in one.
THEOREM NoRewriteIsMissed == Spec => []StaleIsNoticed
<1>1. ASSUME IInv, pc = "nap", ~failed, dbLook # Builtin, NEW f \in Files,
             seen[f] = look[f]
      PROVE  dbLook[f] = look[f]
  BY <1>1 DEF IInv, Behind, SeenIsLoaded
<1>2. ASSUME dbLook \in [Files -> Int], look \in [Files -> Int],
             \A f \in Files : dbLook[f] = look[f]
      PROVE  dbLook = look
  BY <1>2
<1>3. IInv => StaleIsNoticed
  <2> SUFFICES ASSUME IInv, pc = "nap", ~failed, seen = look, dbLook # Builtin
               PROVE  dbLook = look
    BY DEF StaleIsNoticed
  <2>1. \A f \in Files : seen[f] = look[f]
    BY Zenon
  <2>2. \A f \in Files : dbLook[f] = look[f]
    BY <1>1, <2>1, Zenon
  <2> QED BY <1>2, <2>2, Zenon DEF IInv
<1> QED BY <1>3, InitHolds, OrderStep, PTL DEF Spec

\* A request whose flag has been taken is served by a database read after it.
THEOREM NoRequestIsMissed == Spec => []RequestIsHonoured
<1>1. IInv => RequestIsHonoured
  BY DEF IInv, AskedIsLoaded, RequestIsHonoured
<1> QED BY <1>1, InitHolds, OrderStep, PTL DEF Spec
-----------------------------------------------------------------------------
(***************************************************************************)
(* The install of an update.                                               *)
(***************************************************************************)
\* No two updaters that share the directory have the same pid, so none shares
\* its temp file's name.
Surroundings == \A u, v \in Updaters : Pid[u] = Pid[v] => u = v

Names == Inodes \cup {NoInode}
Writing == {"write", "write2", "sync"}

\* The types of what an install works with.
UpdateTyped ==
    /\ remote \in Nat \ {0}
    /\ content \in [Inodes -> [1..2 -> Int]]
    /\ synced \in [Inodes -> BOOLEAN]
    /\ dest \in Names /\ destSafe \in Names
    /\ tmp \in [Pids -> Names]
    /\ at \in [Updaters -> {"idle", "head", "get", "compare", "create", "rename"} \cup Writing]
    /\ body \in [Updaters -> Nat]
    /\ fd \in [Updaters -> Names]

\* A temp file is nobody else's, and neither the installed file nor the one a
\* crash goes back to.
Apart ==
    \A p \in Pids : tmp[p] # NoInode =>
        /\ tmp[p] \notin {dest, destSafe}
        /\ \A q \in Pids : q # p => tmp[q] # tmp[p]

\* How far an updater's own temp file is.
Progress(u) ==
    /\ at[u] \in {"compare", "create"} \cup Writing => body[u] # 0
    /\ at[u] \in Writing => fd[u] # NoInode /\ fd[u] = tmp[Pid[u]]
    /\ at[u] \in {"write2", "sync"} => content[fd[u]][1] = body[u]
    /\ at[u] = "sync" => content[fd[u]][2] = body[u]
    /\ at[u] = "rename" => /\ tmp[Pid[u]] # NoInode
                           /\ Whole(tmp[Pid[u]]) /\ synced[tmp[Pid[u]]]

\* On the device, and whole but for a truncation from outside.
Sealed(i) == (Whole(i) \/ Truncated(i)) /\ synced[i]

\* What is installed, and what a crash goes back to.
Installed == \A i \in {dest, destSafe} : i # NoInode => Sealed(i)

\* The inductive invariant.
UpdateInv == UpdateTyped /\ Apart /\ (\A u \in Updaters : Progress(u)) /\ Installed

\* A body is a function on its two halves.
LEMMA TwoHalves == /\ <<0, 0>> \in [1..2 -> Int]
                   /\ \A x, y \in Int : <<x, y>> \in [1..2 -> Int]
                   /\ 1..2 = {1, 2}
OBVIOUS

\* The directory starts empty.
LEMMA UpdateStarts == ASSUME Surroundings PROVE UpdateInit => UpdateInv
<1> SUFFICES ASSUME UpdateInit PROVE UpdateInv OBVIOUS
<1>1. /\ remote = 1 /\ dest = NoInode /\ destSafe = NoInode
      /\ content = [i \in Inodes |-> <<0, 0>>]
      /\ synced = [i \in Inodes |-> TRUE]
      /\ tmp = [p \in Pids |-> NoInode]
      /\ at = [u \in Updaters |-> "idle"]
      /\ body = [u \in Updaters |-> 0]
      /\ fd = [u \in Updaters |-> NoInode]
  BY DEF UpdateInit
<1>2. content \in [Inodes -> [1..2 -> Int]] BY <1>1, TwoHalves
<1>3. UpdateTyped BY <1>1, <1>2 DEF UpdateTyped, Names, Writing
<1>4. Apart BY <1>1 DEF Apart
<1>5. \A u \in Updaters : Progress(u) BY <1>1 DEF Progress, Writing
<1>6. Installed BY <1>1 DEF Installed
<1> QED BY <1>3, <1>4, <1>5, <1>6 DEF UpdateInv

\* A step of one updater that leaves the disk alone.
LEMMA MemoryStep ==
    ASSUME UpdateInv, NEW u \in Updaters, UNCHANGED <<remote, content, synced, dest, destSafe, tmp>>,
           NEW s \in {"idle", "head", "get", "compare", "create"}, NEW b \in Nat, NEW f \in Names,
           s \in {"compare", "create"} => b # 0,
           at' = [at EXCEPT ![u] = s], body' = [body EXCEPT ![u] = b], fd' = [fd EXCEPT ![u] = f]
    PROVE  UpdateInv'
<1>1. UpdateTyped' BY DEF UpdateInv, UpdateTyped, Writing, Pids
<1>2. Apart' BY DEF UpdateInv, Apart, Pids
<1>3. Installed' BY DEF UpdateInv, Installed, Sealed, Whole, Truncated
<1>4. ASSUME NEW v \in Updaters PROVE Progress(v)'
  <2>1. Progress(v) BY DEF UpdateInv
  <2>2. CASE v = u
    <3>1. at'[v] = s /\ body'[v] = b BY <2>2 DEF UpdateInv, UpdateTyped
    <3> QED BY <3>1 DEF Progress, Writing
  <2>3. CASE v # u
    <3>1. at'[v] = at[v] /\ body'[v] = body[v] /\ fd'[v] = fd[v]
      BY <2>3 DEF UpdateInv, UpdateTyped
    <3> QED BY <2>1, <3>1 DEF Progress, Whole
  <2> QED BY <2>2, <2>3
<1> QED BY <1>1, <1>2, <1>3, <1>4 DEF UpdateInv

\* The requests, whatever the server answers, and a killed updater.
LEMMA FetchKeeps ==
    ASSUME UpdateInv, NEW u \in Updaters,
           \/ Look(u) \/ Head(u) \/ HeadFails(u)
           \/ Get(u) \/ GetFails(u) \/ Compare(u) \/ Kill(u)
    PROVE  UpdateInv'
<1> USE DEF server, onDisk
<1>1. /\ UNCHANGED <<remote, content, synced, dest, destSafe, tmp>>
      /\ NoInode \in Names /\ fd[u] \in Names /\ body[u] \in Nat /\ remote \in Nat \ {0}
      /\ body = [body EXCEPT ![u] = body[u]] /\ fd = [fd EXCEPT ![u] = fd[u]]
  BY DEF Look, Head, HeadFails, Get, GetFails,
         Compare, Kill, UpdateInv, UpdateTyped, Names
<1>2. CASE Sleeps(u)
  <2>1. /\ at' = [at EXCEPT ![u] = "idle"] /\ body' = [body EXCEPT ![u] = 0]
        /\ fd' = [fd EXCEPT ![u] = NoInode]
    BY <1>2 DEF Sleeps
  <2> QED BY <1>1, <2>1, MemoryStep
<1>3. CASE \E s \in {"head", "get"} : at' = [at EXCEPT ![u] = s] /\ UNCHANGED <<body, fd>>
  <2>1. PICK s \in {"head", "get"} : at' = [at EXCEPT ![u] = s] /\ UNCHANGED <<body, fd>>
    BY <1>3
  <2>2. body' = [body EXCEPT ![u] = body[u]] /\ fd' = [fd EXCEPT ![u] = fd[u]] BY <1>1, <2>1
  <2> QED BY <1>1, <2>1, <2>2, MemoryStep
<1>4. CASE /\ at' = [at EXCEPT ![u] = "compare"] /\ body' = [body EXCEPT ![u] = remote]
           /\ UNCHANGED fd
  <2>1. fd' = [fd EXCEPT ![u] = fd[u]] BY <1>1, <1>4
  <2> QED BY <1>1, <1>4, <2>1, MemoryStep
<1>5. CASE /\ at[u] = "compare" /\ at' = [at EXCEPT ![u] = "create"] /\ UNCHANGED <<body, fd>>
  <2>1. body' = [body EXCEPT ![u] = body[u]] /\ fd' = [fd EXCEPT ![u] = fd[u]] BY <1>1, <1>5
  <2>2. body[u] # 0 BY <1>5 DEF UpdateInv, Progress
  <2> QED BY <1>1, <1>5, <2>1, <2>2, MemoryStep
<1> QED
  BY <1>2, <1>3, <1>4, <1>5 DEF Look, Head, HeadFails, Get,
                                GetFails, Compare, Kill

\* Which inodes an updater may touch.
LEMMA OwnPid ==
    ASSUME Surroundings
    PROVE  /\ NoInode \notin Inodes
           /\ \A u \in Updaters : Pid[u] \in Pids
           /\ \A u, v \in Updaters : u # v => Pid[u] # Pid[v]
BY UpdaterAssumption DEF Surroundings, Pids

\* A step that writes one inode of u's own, which is not in use elsewhere: what
\* the others have done, and what is installed, is as it was.
LEMMA OthersKeep ==
    ASSUME Surroundings, UpdateInv, NEW u \in Updaters, NEW i \in Inodes,
           i \notin {dest, destSafe}, \A q \in Pids : q # Pid[u] => tmp[q] # i,
           \A j \in Inodes : j # i => content'[j] = content[j] /\ synced'[j] = synced[j],
           \A q \in Pids : q # Pid[u] => tmp'[q] = tmp[q],
           \A v \in Updaters : v # u => at'[v] = at[v] /\ body'[v] = body[v] /\ fd'[v] = fd[v]
    PROVE  /\ \A v \in Updaters : v # u => Progress(v)'
           /\ \A j \in {dest, destSafe} : j # NoInode => Sealed(j)'
<1>1. ASSUME NEW v \in Updaters, v # u PROVE Progress(v)'
  <2>1. Progress(v) /\ tmp[Pid[v]] \in Names BY OwnPid DEF UpdateInv, UpdateTyped
  <2>2. /\ tmp'[Pid[v]] = tmp[Pid[v]] /\ tmp[Pid[v]] # i
        /\ at'[v] = at[v] /\ body'[v] = body[v] /\ fd'[v] = fd[v]
    BY <1>1, OwnPid
  <2> QED BY <2>1, <2>2 DEF Progress, Whole, Names, Writing
<1>2. ASSUME NEW j \in {dest, destSafe}, j # NoInode PROVE Sealed(j)'
  <2>1. j \in Inodes /\ j # i BY <1>2 DEF UpdateInv, UpdateTyped, Names
  <2>2. Sealed(j) BY <1>2 DEF UpdateInv, Installed
  <2> QED BY <2>1, <2>2 DEF Sealed, Whole, Truncated
<1> QED BY <1>1, <1>2

\* File::create.
LEMMA CreateKeeps ==
    ASSUME Surroundings, UpdateInv, NEW u \in Updaters, Create(u) PROVE UpdateInv'
<1> DEFINE p == Pid[u]
           i == IF tmp[p] = NoInode THEN Fresh ELSE tmp[p]
<1>1. /\ at[u] = "create" /\ (tmp[p] # NoInode \/ Inodes \ Used # {})
      /\ at' = [at EXCEPT ![u] = "write"]
      /\ content' = [content EXCEPT ![i] = <<0, 0>>]
      /\ synced' = [synced EXCEPT ![i] = FALSE]
      /\ tmp' = [tmp EXCEPT ![p] = i]
      /\ fd' = [fd EXCEPT ![u] = i]
      /\ UNCHANGED <<remote, dest, destSafe, body>>
  BY DEF Create, server
<1>2. p \in Pids /\ NoInode \notin Inodes BY OwnPid
<1>3. /\ i \in Inodes /\ i \notin {dest, destSafe}
      /\ \A q \in Pids : q # p => tmp[q] # i
  <2>1. CASE tmp[p] = NoInode
    <3>1. \E j \in Inodes : j \notin Used BY <1>1, <2>1
    <3>2. i \in Inodes /\ i \notin Used BY <2>1, <3>1 DEF Fresh
    <3> QED BY <1>2, <3>2 DEF Used
  <2>2. CASE tmp[p] # NoInode
    BY <1>2, <2>2 DEF UpdateInv, UpdateTyped, Names, Apart
  <2> QED BY <2>1, <2>2
<1> HIDE DEF i
<1>4. UpdateTyped'
  BY <1>1, <1>2, <1>3, TwoHalves DEF UpdateInv, UpdateTyped, Names, Writing, Pids
<1>5. Apart'
  BY <1>1, <1>2, <1>3 DEF UpdateInv, UpdateTyped, Apart, Pids
<1>6. Progress(u)'
  <2>1. at'[u] = "write" /\ fd'[u] = i /\ tmp'[p] = i /\ body'[u] = body[u] /\ body[u] # 0
    BY <1>1, <1>2 DEF UpdateInv, UpdateTyped, Progress
  <2> QED BY <1>2, <1>3, <2>1 DEF Progress, Writing
<1>7. /\ \A v \in Updaters : v # u => Progress(v)'
      /\ \A j \in {dest, destSafe} : j # NoInode => Sealed(j)'
  BY <1>1, <1>2, <1>3, OthersKeep DEF UpdateInv, UpdateTyped
<1>8. Installed' BY <1>1, <1>7 DEF Installed, Sealed, Whole, Truncated
<1> QED BY <1>4, <1>5, <1>6, <1>7, <1>8 DEF UpdateInv

\* write_all and sync_all.
LEMMA WriteKeeps ==
    ASSUME Surroundings, UpdateInv, NEW u \in Updaters,
           (\E h \in {1, 2} : WriteHalf(u, h)) \/ Sync(u)
    PROVE  UpdateInv'
<1> DEFINE p == Pid[u]
           i == fd[u]
<1>1. /\ at[u] \in Writing /\ UNCHANGED <<remote, dest, destSafe, tmp, body>>
  BY DEF WriteHalf, Sync, server, Writing
<1>2. p \in Pids /\ NoInode \notin Inodes BY OwnPid
<1>3. Progress(u) BY DEF UpdateInv
<1>4. /\ i \in Inodes /\ i = tmp[p] /\ i \notin {dest, destSafe} /\ body[u] # 0 /\ body[u] \in Nat
      /\ \A q \in Pids : q # p => tmp[q] # i
  BY <1>1, <1>2, <1>3 DEF UpdateInv, UpdateTyped, Names, Apart, Progress
<1> HIDE DEF i
<1>5. Apart' BY <1>1 DEF UpdateInv, Apart, Pids
<1>6. ASSUME NEW h \in {1, 2}, WriteHalf(u, h) PROVE UpdateInv'
  <2>1. /\ at[u] = (IF h = 1 THEN "write" ELSE "write2")
        /\ at' = [at EXCEPT ![u] = IF h = 1 THEN "write2" ELSE "sync"]
        /\ content' = [content EXCEPT ![i] = [content[i] EXCEPT ![h] = body[u]]]
        /\ synced' = [synced EXCEPT ![i] = FALSE] /\ UNCHANGED fd
    BY <1>6 DEF WriteHalf, i
  <2>2. /\ content[i] \in [1..2 -> Int]
        /\ [content[i] EXCEPT ![h] = body[u]] \in [1..2 -> Int]
        /\ content'[i][h] = body[u]
        /\ \A g \in {1, 2} : g # h => content'[i][g] = content[i][g]
    BY <1>4, <2>1, TwoHalves DEF UpdateInv, UpdateTyped
  <2>3. UpdateTyped'
    BY <1>1, <1>4, <2>1, <2>2 DEF UpdateInv, UpdateTyped, Writing, Pids
  <2>4. Progress(u)'
    <3>1. /\ at'[u] = (IF h = 1 THEN "write2" ELSE "sync") /\ fd'[u] = i /\ body'[u] = body[u]
          /\ tmp'[Pid[u]] = i /\ fd[u] = i
      BY <1>1, <1>4, <2>1 DEF UpdateInv, UpdateTyped, i
    <3>2. h = 2 => content[i][1] = body[u] BY <1>3, <2>1, <3>1 DEF Progress
    <3> QED BY <1>2, <1>4, <2>2, <3>1, <3>2 DEF Progress, Writing
  <2>5. /\ \A v \in Updaters : v # u => Progress(v)'
        /\ \A j \in {dest, destSafe} : j # NoInode => Sealed(j)'
    BY <1>1, <1>4, <2>1, OthersKeep DEF UpdateInv, UpdateTyped
  <2>6. Installed' BY <1>1, <2>5 DEF Installed, Sealed, Whole, Truncated
  <2> QED BY <1>5, <2>3, <2>4, <2>5, <2>6 DEF UpdateInv
<1>7. CASE Sync(u)
  <2>1. /\ at[u] = "sync" /\ at' = [at EXCEPT ![u] = "rename"] /\ UNCHANGED content
        /\ synced' = [synced EXCEPT ![i] = TRUE] /\ fd' = [fd EXCEPT ![u] = NoInode]
    BY <1>7 DEF Sync, i
  <2>2. UpdateTyped'
    BY <1>1, <1>4, <2>1 DEF UpdateInv, UpdateTyped, Names, Writing, Pids
  <2>3. Progress(u)'
    <3>1. at'[u] = "rename" /\ synced'[i] = TRUE
      BY <1>4, <2>1 DEF UpdateInv, UpdateTyped
    <3>2. content[i][1] = body[u] /\ content[i][2] = body[u] BY <1>3, <2>1 DEF Progress, i
    <3> QED BY <1>1, <1>2, <1>4, <2>1, <3>1, <3>2 DEF Progress, Writing, Whole
  <2>4. /\ \A v \in Updaters : v # u => Progress(v)'
        /\ \A j \in {dest, destSafe} : j # NoInode => Sealed(j)'
    BY <1>1, <1>4, <2>1, OthersKeep DEF UpdateInv, UpdateTyped
  <2>5. Installed' BY <1>1, <2>4 DEF Installed, Sealed, Whole, Truncated
  <2> QED BY <1>5, <2>2, <2>3, <2>4, <2>5 DEF UpdateInv
<1> QED BY <1>6, <1>7

\* rename, and an install that fails.
LEMMA EndKeeps ==
    ASSUME Surroundings, UpdateInv, NEW u \in Updaters,
           Rename(u) \/ InstallFails(u)
    PROVE  UpdateInv'
<1> DEFINE p == Pid[u]
<1>1. /\ UNCHANGED <<remote, content, synced, destSafe>>
      /\ at' = [at EXCEPT ![u] = "idle"] /\ body' = [body EXCEPT ![u] = 0]
      /\ fd' = [fd EXCEPT ![u] = NoInode]
  BY DEF Rename, InstallFails, server, Sleeps
<1>2. p \in Pids /\ NoInode \notin Inodes /\ \A v \in Updaters : v # u => Pid[v] # p
  BY OwnPid
<1>3. /\ tmp' = [tmp EXCEPT ![p] = NoInode]
      /\ \/ UNCHANGED dest
         \/ /\ dest' = tmp[p] /\ tmp[p] # NoInode
            /\ Whole(tmp[p]) /\ synced[tmp[p]]
  <2>1. Progress(u) BY DEF UpdateInv
  <2>2. CASE Rename(u)
    BY <2>1, <2>2 DEF Rename, Progress
  <2>3. CASE InstallFails(u) BY <2>3 DEF InstallFails
  <2> QED BY <2>2, <2>3
<1>4. UpdateTyped'
  BY <1>1, <1>2, <1>3 DEF UpdateInv, UpdateTyped, Names, Writing, Pids
<1>5. Apart' BY <1>1, <1>2, <1>3 DEF UpdateInv, UpdateTyped, Apart, Pids
<1>6. ASSUME NEW v \in Updaters PROVE Progress(v)'
  <2>1. CASE v = u
    <3>1. at'[v] = "idle" BY <1>1, <2>1 DEF UpdateInv, UpdateTyped
    <3> QED BY <3>1 DEF Progress, Writing
  <2>2. CASE v # u
    <3>1. /\ at'[v] = at[v] /\ body'[v] = body[v] /\ fd'[v] = fd[v]
          /\ tmp'[Pid[v]] = tmp[Pid[v]]
      BY <1>1, <1>2, <1>3, <2>2, OwnPid DEF UpdateInv, UpdateTyped
    <3>2. Progress(v) BY DEF UpdateInv
    <3> QED BY <1>1, <3>1, <3>2 DEF Progress, Whole
  <2> QED BY <2>1, <2>2
<1>7. Installed' BY <1>1, <1>3 DEF UpdateInv, Installed, Sealed, Whole, Truncated
<1> QED BY <1>4, <1>5, <1>6, <1>7 DEF UpdateInv

\* Power is lost.
LEMMA CrashKeeps == ASSUME Surroundings, UpdateInv, Crash PROVE UpdateInv'
<1>1. PICK lost \in SUBSET ({i \in Inodes : ~synced[i]} \X {1, 2}) :
        content' = [i \in Inodes |->
                      [h \in {1, 2} |-> IF <<i, h>> \in lost THEN 0 ELSE content[i][h]]]
  BY DEF Crash
<1>2. /\ synced' = [i \in Inodes |-> TRUE]
      /\ dest' \in {dest, destSafe} /\ destSafe' = dest'
      /\ tmp' = [p \in Pids |-> IF tmp[p] = dest' THEN NoInode ELSE tmp[p]]
      /\ at' = [u \in Updaters |-> "idle"] /\ body' = [u \in Updaters |-> 0]
      /\ fd' = [u \in Updaters |-> NoInode] /\ UNCHANGED remote
  BY DEF Crash, server
<1>3. content' \in [Inodes -> [1..2 -> Int]]
  <2>1. ASSUME NEW i \in Inodes, NEW h \in {1, 2}
        PROVE  (IF <<i, h>> \in lost THEN 0 ELSE content[i][h]) \in Int
    BY TwoHalves DEF UpdateInv, UpdateTyped
  <2> QED BY <1>1, <2>1, TwoHalves
<1>4. UpdateTyped' BY <1>2, <1>3 DEF UpdateInv, UpdateTyped, Names, Pids
<1>5. Apart' BY <1>2 DEF UpdateInv, UpdateTyped, Apart, Pids
<1>6. \A u \in Updaters : Progress(u)' BY <1>2 DEF Progress, Writing
<1>7. ASSUME NEW j \in Inodes, Sealed(j) PROVE Sealed(j)'
  <2>1. <<j, 1>> \notin lost /\ <<j, 2>> \notin lost BY <1>1, <1>7 DEF Sealed
  <2>2. content'[j][1] = content[j][1] /\ content'[j][2] = content[j][2] BY <1>1, <2>1
  <2> QED BY <1>2, <1>7, <2>2 DEF Sealed, Whole, Truncated
<1>8. Installed'
  BY <1>2, <1>7 DEF UpdateInv, UpdateTyped, Names, Installed
<1> QED BY <1>4, <1>5, <1>6, <1>8 DEF UpdateInv

\* Somebody truncates the installed file, which is nobody's temp file.
LEMMA TruncationKeeps ==
    ASSUME Surroundings, UpdateInv, Damage("truncated")
    PROVE  UpdateInv'
<1>1. /\ dest # NoInode /\ content' = [content EXCEPT ![dest] = <<content[dest][1], Cut>>]
      /\ UNCHANGED <<remote, dest, destSafe, synced, tmp, at, body, fd>>
  BY DEF Damage, server, procs
<1>2. dest \in Inodes BY <1>1 DEF UpdateInv, UpdateTyped, Names
<1>3. content'[dest] \in [1..2 -> Int] /\ content'[dest][2] = Cut
  <2>1. content[dest][1] \in Int BY <1>2, TwoHalves DEF UpdateInv, UpdateTyped
  <2>2. content'[dest] = <<content[dest][1], Cut>> BY <1>1, <1>2 DEF UpdateInv, UpdateTyped
  <2> QED BY <2>1, <2>2, TwoHalves DEF Cut
<1>4. \A j \in Inodes : j # dest => content'[j] = content[j]
  BY <1>1, <1>2 DEF UpdateInv, UpdateTyped
<1>5. UpdateTyped' BY <1>1, <1>2, <1>3, <1>4 DEF UpdateInv, UpdateTyped, Pids
<1>6. Apart' BY <1>1 DEF UpdateInv, Apart, Pids
<1>7. ASSUME NEW v \in Updaters PROVE Progress(v)'
  <2>1. Progress(v) /\ Pid[v] \in Pids /\ tmp[Pid[v]] \in Names BY OwnPid DEF UpdateInv, UpdateTyped
  <2>2. tmp[Pid[v]] # NoInode => tmp[Pid[v]] # dest BY <2>1 DEF UpdateInv, Apart
  <2> QED BY <1>1, <1>4, <2>1, <2>2 DEF Progress, Whole, Names, Writing
<1>8. Installed'
  <2>1. Sealed(dest)' BY <1>1, <1>3 DEF UpdateInv, Installed, Sealed, Truncated
  <2>2. destSafe # NoInode /\ destSafe # dest => Sealed(destSafe)'
    BY <1>1, <1>4 DEF UpdateInv, UpdateTyped, Names, Installed, Sealed, Whole, Truncated
  <2> QED BY <1>1, <2>1, <2>2 DEF Installed
<1> QED BY <1>5, <1>6, <1>7, <1>8 DEF UpdateInv

\* The server, the directory's flush and a deletion.
LEMMA SurroundingsKeep ==
    ASSUME Surroundings, UpdateInv,
           \/ \E v \in 1..MaxPublished, t \in 0..MaxPublished : Publish(v, t)
           \/ FlushDir
           \/ Damage("deleted")
           \/ UNCHANGED updateVars
    PROVE  UpdateInv'
<1>1. /\ remote' \in Nat \ {0} /\ UNCHANGED <<content, synced, tmp, at, body, fd>>
      /\ \/ UNCHANGED <<dest, destSafe>>
         \/ UNCHANGED dest /\ destSafe' = dest
         \/ dest' = NoInode /\ destSafe' = NoInode
  <2>1. remote \in Nat \ {0} BY DEF UpdateInv, UpdateTyped
  <2>2. CASE \E v \in 1..MaxPublished, t \in 0..MaxPublished : Publish(v, t)
    BY <2>2, UpdaterAssumption DEF Publish, onDisk, procs, Surroundings
  <2>3. CASE FlushDir
    BY <2>1, <2>3 DEF FlushDir, server, procs
  <2>4. CASE Damage("deleted") BY <2>1, <2>4 DEF Damage, server, procs
  <2>5. CASE UNCHANGED updateVars BY <2>1, <2>5 DEF updateVars
  <2> QED BY <2>2, <2>3, <2>4, <2>5
<1>2. UpdateTyped' BY <1>1 DEF UpdateInv, UpdateTyped, Names, Pids
<1>3. Apart' BY <1>1 DEF UpdateInv, Apart, Pids
<1>4. \A u \in Updaters : Progress(u)' BY <1>1 DEF UpdateInv, Progress, Whole
<1>5. Installed' BY <1>1 DEF UpdateInv, Installed, Sealed, Whole, Truncated
<1> QED BY <1>2, <1>3, <1>4, <1>5 DEF UpdateInv

\* The invariant of the data directory.
LEMMA UpdateInvariant == ASSUME Surroundings PROVE UpdateSpec => []UpdateInv
<1>1. UpdateInit => UpdateInv BY UpdateStarts
<1>2. UpdateInv /\ [UpdateNext]_updateVars => UpdateInv'
  <2> SUFFICES ASSUME UpdateInv, [UpdateNext]_updateVars PROVE UpdateInv' OBVIOUS
  <2>1. ASSUME NEW u \in Updaters,
               Fetches(u) \/ HeadFails(u) \/ GetFails(u)
                 \/ InstallFails(u) \/ Kill(u)
        PROVE  UpdateInv'
    BY <2>1, FetchKeeps, CreateKeeps, WriteKeeps, EndKeeps DEF Fetches
  <2>2. CASE Crash BY <2>2, CrashKeeps
  <2>3. CASE \/ \E v \in 1..MaxPublished, t \in 0..MaxPublished : Publish(v, t)
             \/ FlushDir
             \/ UNCHANGED updateVars
    BY <2>3, SurroundingsKeep
  <2>4. ASSUME NEW how \in Damages, Damage(how) PROVE UpdateInv'
    <3>1. how \in {"deleted", "truncated"} BY UpdaterAssumption
    <3> QED BY <2>4, <3>1, SurroundingsKeep, TruncationKeeps
  <2> QED BY <2>1, <2>2, <2>3, <2>4 DEF UpdateNext
<1> QED BY <1>1, <1>2, PTL DEF UpdateSpec

\* `fetch_into` installs atomically: for any number of updaters, through failed
\* requests and writes, kills, power losses and deletions, the installed file is
\* one complete version, unless somebody truncated it after its install.
THEOREM InstallIsAtomic == ASSUME Surroundings PROVE UpdateSpec => []DestIsWhole
<1>1. UpdateInv => DestIsWhole BY DEF UpdateInv, Installed, Sealed, DestIsWhole
<1> QED BY <1>1, UpdateInvariant, PTL

\* The `sync_all` before the rename: what a power loss goes back to is one complete
\* version too, with the same exception, and on the device.
THEOREM CrashIsSafe == ASSUME Surroundings PROVE UpdateSpec => []SafeIsWhole
<1>1. UpdateInv => SafeIsWhole BY DEF UpdateInv, Installed, Sealed, SafeIsWhole
<1> QED BY <1>1, UpdateInvariant, PTL
=============================================================================
