------------------------------ MODULE Updater ------------------------------
(***************************************************************************)
(* The conditional fetch and atomic install of one signature source        *)
(* (exav-update, `fetch_into`), by several updaters that share a data      *)
(* directory, with the crashes and disk failures it is written against.    *)
(*                                                                         *)
(* A file is an inode with a body of two halves, so that a body can be     *)
(* half written or a blend of two; half 0 is missing (or zeros), half Cut  *)
(* was cut off by somebody else.  A name refers to an inode; an open file   *)
(* goes on writing to its inode whatever becomes of the name.  The file     *)
(* system is external, modelled from the calls `fetch_into` makes.          *)
(***************************************************************************)
EXTENDS Integers, FiniteSets

CONSTANTS
    Updaters,    \* processes that fetch this source into this directory
    Pid,         \* the pid each of them puts in its temp file's name
    Inodes, NoInode,
    MaxPublished, \* bound: times the server publishes
    MaxFaults,   \* bound: failed requests and disk writes, kills, crashes, damage
    Damages      \* what may happen to the installed file: "deleted", "truncated"

ASSUME UpdaterAssumption ==
    /\ Pid \in [Updaters -> Nat]
    /\ NoInode \notin Inodes
    /\ MaxPublished \in Nat \ {0} /\ MaxFaults \in Nat
    /\ Damages \subseteq {"deleted", "truncated"}

VARIABLES
    remote,    \* the version the server has
    tag,       \* its validator (ETag or Last-Modified), 0 for none
    published, \* times it has published
    content,   \* each inode's two halves
    synced,    \* its content has reached the device
    dest,      \* the inode of the installed file, or NoInode
    destSafe,  \* the inode a crash may take the name back to
    tmp,       \* per pid: the inode of the temp file
    at, prev,  \* each updater: where it is, the validator it remembers
    have,      \* `have_dest`
    body, val, \* what GET returned
    fd,        \* the inode it has open
    faults     \* faults so far

updateVars ==
    <<remote, tag, published, content, synced, dest, destSafe, tmp, at, prev, have, body, val, fd,
      faults>>
server == <<remote, tag, published>>
onDisk == <<content, synced, dest, destSafe, tmp>>
procs == <<at, prev, have, body, val, fd>>

Pids == {Pid[u] : u \in Updaters}
Whole(i) == content[i][1] = content[i][2] /\ content[i][1] # 0
Cut == -1
Truncated(i) == content[i][2] = Cut
Used == ({dest, destSafe} \cup {tmp[p] : p \in Pids} \cup {fd[u] : u \in Updaters})
            \ {NoInode}
Fresh == CHOOSE i \in Inodes : i \notin Used    \* which one makes no difference

UpdateInit ==
    /\ remote = 1 /\ tag = 1 /\ published = 1
    /\ content = [i \in Inodes |-> <<0, 0>>]
    /\ synced = [i \in Inodes |-> TRUE]
    /\ dest = NoInode /\ destSafe = NoInode
    /\ tmp = [p \in Pids |-> NoInode]
    /\ at = [u \in Updaters |-> "idle"]
    /\ prev = [u \in Updaters |-> 0]
    /\ have = [u \in Updaters |-> FALSE]
    /\ body = [u \in Updaters |-> 0]
    /\ val = [u \in Updaters |-> 0]
    /\ fd = [u \in Updaters |-> NoInode]
    /\ faults = 0

\* Back to sleep until the next poll; what it had in memory is dropped.
Sleeps(u) ==
    /\ at' = [at EXCEPT ![u] = "idle"]
    /\ have' = [have EXCEPT ![u] = FALSE]
    /\ body' = [body EXCEPT ![u] = 0]
    /\ val' = [val EXCEPT ![u] = 0]
    /\ fd' = [fd EXCEPT ![u] = NoInode]
-----------------------------------------------------------------------------
(***************************************************************************)
(* The requests.                                                           *)
(***************************************************************************)
\* `have_dest`: is there a file for the shortcuts to leave in place?
Look(u) ==
    /\ at[u] = "idle"
    /\ at' = [at EXCEPT ![u] = "head"]
    /\ have' = [have EXCEPT ![u] = dest # NoInode]
    /\ UNCHANGED <<server, onDisk, prev, body, val, fd, faults>>

\* Mutant of Head: the shortcut is taken without the file.
HeadBlindly(u) ==
    /\ at[u] = "head"
    /\ IF prev[u] # 0 /\ tag = prev[u]
       THEN Sleeps(u)
       ELSE at' = [at EXCEPT ![u] = "get"] /\ UNCHANGED <<have, body, val, fd>>
    /\ UNCHANGED <<server, onDisk, prev, faults>>

\* With a file in place and a remembered validator, HEAD; nothing is fetched
\* when the server still has that validator.
Head(u) ==
    /\ at[u] = "head"
    /\ IF have[u] /\ prev[u] # 0 /\ tag = prev[u]
       THEN Sleeps(u)
       ELSE at' = [at EXCEPT ![u] = "get"] /\ UNCHANGED <<have, body, val, fd>>
    /\ UNCHANGED <<server, onDisk, prev, faults>>

\* A HEAD that fails is as good as none.
HeadFails(u) ==
    /\ at[u] = "head" /\ have[u] /\ prev[u] # 0 /\ faults < MaxFaults
    /\ faults' = faults + 1
    /\ at' = [at EXCEPT ![u] = "get"]
    /\ UNCHANGED <<server, onDisk, prev, have, body, val, fd>>

\* GET, conditional likewise: 304, or a body (complete, and validated) and the
\* validator it came with.
Get(u) ==
    /\ at[u] = "get"
    /\ IF have[u] /\ prev[u] # 0 /\ tag = prev[u]
       THEN Sleeps(u)
       ELSE /\ at' = [at EXCEPT ![u] = "compare"]
            /\ body' = [body EXCEPT ![u] = remote]
            /\ val' = [val EXCEPT ![u] = tag]
            /\ UNCHANGED <<have, fd>>
    /\ UNCHANGED <<server, onDisk, prev, faults>>

\* The request fails, is too large, truncated, or not a database.
GetFails(u) ==
    /\ at[u] = "get" /\ faults < MaxFaults
    /\ faults' = faults + 1
    /\ Sleeps(u)
    /\ UNCHANGED <<server, onDisk, prev>>

\* The same bytes are there already: only the validator is remembered.
Compare(u) ==
    /\ at[u] = "compare"
    /\ IF dest # NoInode /\ content[dest] = <<body[u], body[u]>>
       THEN prev' = [prev EXCEPT ![u] = val[u]] /\ Sleeps(u)
       ELSE at' = [at EXCEPT ![u] = "create"] /\ UNCHANGED <<prev, have, body, val, fd>>
    /\ UNCHANGED <<server, onDisk, faults>>
-----------------------------------------------------------------------------
(***************************************************************************)
(* The install: File::create, write_all, sync_all, rename.                 *)
(***************************************************************************)
\* Mutant of Create: the destination itself is written.
CreateInPlace(u) ==
    /\ at[u] = "create"
    /\ at' = [at EXCEPT ![u] = "write"]
    /\ LET i == IF dest = NoInode THEN Fresh ELSE dest IN
          /\ content' = [content EXCEPT ![i] = <<0, 0>>]
          /\ synced' = [synced EXCEPT ![i] = FALSE]
          /\ dest' = i
          /\ fd' = [fd EXCEPT ![u] = i]
    /\ UNCHANGED <<server, destSafe, tmp, prev, have, body, val, faults>>

\* The temp file is created, or truncated where the name is taken.  (There is
\* always an inode for it: see EnoughInodes in MCUpdater.)
Create(u) ==
    /\ at[u] = "create"
    /\ tmp[Pid[u]] # NoInode \/ Inodes \ Used # {}
    /\ at' = [at EXCEPT ![u] = "write"]
    /\ LET i == IF tmp[Pid[u]] = NoInode THEN Fresh ELSE tmp[Pid[u]] IN
          /\ content' = [content EXCEPT ![i] = <<0, 0>>]
          /\ synced' = [synced EXCEPT ![i] = FALSE]
          /\ tmp' = [tmp EXCEPT ![Pid[u]] = i]
          /\ fd' = [fd EXCEPT ![u] = i]
    /\ UNCHANGED <<server, dest, destSafe, prev, have, body, val, faults>>

WriteHalf(u, h) ==
    /\ at[u] = IF h = 1 THEN "write" ELSE "write2"
    /\ at' = [at EXCEPT ![u] = IF h = 1 THEN "write2" ELSE "sync"]
    /\ content' = [content EXCEPT ![fd[u]][h] = body[u]]
    /\ synced' = [synced EXCEPT ![fd[u]] = FALSE]
    /\ UNCHANGED <<server, dest, destSafe, tmp, prev, have, body, val, fd, faults>>

\* Mutant of Sync: the rename is not waited for.
SyncSkipped(u) ==
    /\ at[u] = "sync"
    /\ at' = [at EXCEPT ![u] = "rename"]
    /\ fd' = [fd EXCEPT ![u] = NoInode]
    /\ UNCHANGED <<server, onDisk, prev, have, body, val, faults>>

\* sync_all, and the file is closed.
Sync(u) ==
    /\ at[u] = "sync"
    /\ at' = [at EXCEPT ![u] = "rename"]
    /\ synced' = [synced EXCEPT ![fd[u]] = TRUE]
    /\ fd' = [fd EXCEPT ![u] = NoInode]
    /\ UNCHANGED <<server, content, dest, destSafe, tmp, prev, have, body, val, faults>>

\* The temp file becomes the installed one; without it the rename fails.
Rename(u) ==
    /\ at[u] = "rename"
    /\ IF tmp[Pid[u]] # NoInode
       THEN /\ dest' = tmp[Pid[u]]
            /\ tmp' = [tmp EXCEPT ![Pid[u]] = NoInode]
            /\ prev' = [prev EXCEPT ![u] = val[u]]
       ELSE UNCHANGED <<dest, tmp, prev>>
    /\ Sleeps(u)
    /\ UNCHANGED <<server, content, synced, destSafe, faults>>

\* A create, write, sync or rename fails: the temp file is removed.
InstallFails(u) ==
    /\ at[u] \in {"create", "write", "write2", "sync", "rename"} /\ faults < MaxFaults
    /\ faults' = faults + 1
    /\ tmp' = [tmp EXCEPT ![Pid[u]] = NoInode]
    /\ Sleeps(u)
    /\ UNCHANGED <<server, content, synced, dest, destSafe, prev>>
-----------------------------------------------------------------------------
(***************************************************************************)
(* The surroundings.                                                       *)
(***************************************************************************)
\* The server publishes the next version or the same one again, under a validator
\* of its own or none.
Publish(v, t) ==
    /\ published < MaxPublished
    /\ published' = published + 1
    /\ v \in {remote, remote + 1} /\ t \in {0, published'}
    /\ remote' = v
    /\ tag' = t
    /\ UNCHANGED <<onDisk, procs, faults>>

\* An updater is killed and started again; its temp file stays.
Kill(u) ==
    /\ faults < MaxFaults
    /\ faults' = faults + 1
    /\ Sleeps(u)
    /\ prev' = [prev EXCEPT ![u] = 0]
    /\ UNCHANGED <<server, onDisk>>

\* The directory reaches the device.
FlushDir ==
    /\ destSafe # dest
    /\ destSafe' = dest
    /\ UNCHANGED <<server, content, synced, dest, tmp, procs, faults>>

\* Power is lost: what was not synced may be missing, and the last rename may
\* be undone.
Crash ==
    /\ faults < MaxFaults
    /\ faults' = faults + 1
    /\ \E lost \in SUBSET ({i \in Inodes : ~synced[i]} \X {1, 2}) :
          content' = [i \in Inodes |->
                        [h \in {1, 2} |-> IF <<i, h>> \in lost THEN 0 ELSE content[i][h]]]
    /\ synced' = [i \in Inodes |-> TRUE]
    /\ dest' \in {dest, destSafe}
    /\ destSafe' = dest'
    /\ tmp' = [p \in Pids |-> IF tmp[p] = dest' THEN NoInode ELSE tmp[p]]
    /\ at' = [u \in Updaters |-> "idle"]
    /\ prev' = [u \in Updaters |-> 0]
    /\ have' = [u \in Updaters |-> FALSE]
    /\ body' = [u \in Updaters |-> 0]
    /\ val' = [u \in Updaters |-> 0]
    /\ fd' = [u \in Updaters |-> NoInode]
    /\ UNCHANGED server

\* The installed file is deleted or truncated "out from under us".
Damage(how) ==
    /\ how \in Damages /\ dest # NoInode /\ faults < MaxFaults
    /\ faults' = faults + 1
    /\ IF how = "deleted"
       THEN dest' = NoInode /\ destSafe' = NoInode /\ UNCHANGED <<content, synced>>
       ELSE /\ content' = [content EXCEPT ![dest] = <<content[dest][1], Cut>>]
            /\ UNCHANGED <<dest, destSafe, synced>>
    /\ UNCHANGED <<server, tmp, procs>>

Fetches(u) ==
    \/ Look(u)
    \/ Head(u)
    \/ Get(u)
    \/ Compare(u)
    \/ Create(u)
    \/ \E h \in {1, 2} : WriteHalf(u, h)
    \/ Sync(u)
    \/ Rename(u)

UpdateNext ==
    \/ \E u \in Updaters :
          \/ Fetches(u)
          \/ HeadFails(u)
          \/ GetFails(u)
          \/ InstallFails(u)
          \/ Kill(u)
    \/ \E v \in 1..MaxPublished, t \in 0..MaxPublished : Publish(v, t)
    \/ FlushDir
    \/ Crash
    \/ \E how \in Damages : Damage(how)

\* Every updater keeps polling.
Fairness == \A u \in Updaters : WF_updateVars(Fetches(u))

UpdateSpec == UpdateInit /\ [][UpdateNext]_updateVars

UpdateFairSpec == UpdateSpec /\ Fairness
-----------------------------------------------------------------------------
(***************************************************************************)
(* Properties                                                              *)
(***************************************************************************)
\* The values the variables take.
UpdateTypeOK ==
    /\ remote \in 1..MaxPublished /\ tag \in 0..MaxPublished /\ published \in 1..MaxPublished
    /\ content \in [Inodes -> [{1, 2} -> Cut..MaxPublished]]
    /\ synced \in [Inodes -> BOOLEAN]
    /\ dest \in Inodes \cup {NoInode} /\ destSafe \in Inodes \cup {NoInode}
    /\ tmp \in [Pids -> Inodes \cup {NoInode}]
    /\ at \in [Updaters -> {"idle", "head", "get", "compare", "create", "write", "write2",
                            "sync", "rename"}]
    /\ prev \in [Updaters -> 0..MaxPublished] /\ val \in [Updaters -> 0..MaxPublished]
    /\ have \in [Updaters -> BOOLEAN]
    /\ body \in [Updaters -> 0..MaxPublished]
    /\ fd \in [Updaters -> Inodes \cup {NoInode}]
    /\ faults \in 0..MaxFaults

\* "installed atomically (temp + rename)": the installed file is always one
\* complete published version, never part of one and never a blend of two
\* ("Each body passed validation on its own; the blend did not"), through
\* failed writes, kills and crashes; but for a file that somebody else truncated
\* after it was installed.
DestIsWhole == dest # NoInode => Whole(dest) \/ Truncated(dest)

\* Nothing that was ever durably installed is lost by a crash: the name a
\* crash goes back to is a complete version too ("the README promises the
\* previous one intact"), with the same exception.
SafeIsWhole ==
    destSafe # NoInode => (Whole(destSafe) \/ Truncated(destSafe)) /\ synced[destSafe]

\* A truncated file that every updater takes for the version the server has.
TruncatedAndKept ==
    Truncated(dest) /\ tag # 0 /\ \A u \in Updaters : prev[u] = tag

\* Once the server, the disk and the processes are left alone, the version the
\* server has is installed and stays: no validator remembered for one version
\* keeps another, or no file, in place.  "If `dest` was deleted or truncated out
\* from under us, a matching validator must NOT report Unchanged, or the on-disk
\* copy stays missing": that is so of a deleted file.  A truncated one still
\* exists, and that is all `have_dest` asks: where every updater remembers the
\* server's validator it is the one exception, and stays.
EventuallyCurrent ==
    <>[](dest # NoInode /\ (content[dest] = <<remote, remote>> \/ TruncatedAndKept))

\* The comment to the letter, which the code does not keep.
DamageIsRepaired == <>[](dest # NoInode /\ content[dest] = <<remote, remote>>)
=============================================================================
