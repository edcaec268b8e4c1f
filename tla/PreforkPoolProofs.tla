------------------------- MODULE PreforkPoolProofs -------------------------
(***************************************************************************)
(* The supervisor's bookkeeping, for any number of workers, side           *)
(* listeners, pids, generations, exits and adopted processes: which        *)
(* processes it tracks, in which generation they were forked, how many     *)
(* workers there are, and what becomes of a child after its notice to      *)
(* retire.                                                                 *)
(***************************************************************************)
EXTENDS PreforkPool, FiniteSetTheorems, TLAPS

\* Until the end of teardown, when the supervisor only waits.
Running == sup \notin {"wait", "done", "dead"}

\* What is in a pid's slot agrees with where the supervisor keeps the pid.
RolesAgree ==
    /\ \A p \in Pids : role[p] = "other" => st[p] = "zombie"
    /\ \A p \in Pids : st[p] = "free" => role[p] = "worker"
    /\ Running => /\ \A p \in children : role[p] = "worker"
                  /\ \A s \in Sides : side_pids[s] # NoPid => role[side_pids[s]] = s

\* What is retired was forked before everything that is not.
PoolsApart ==
    Running =>
        /\ \A p \in children \cup SidePids : pgen[p] = gen
        /\ \A p \in retiring : pgen[p] < gen

\* Who holds the write end of which pipe: the supervisor that of the current
\* generation, a child that of its own until it has entered it.
PipesAgree ==
    /\ notice = {gen}
    /\ \A p \in Pids :
          st[p] \in Live => copies[p] = IF st[p] = "boot" THEN {pgen[p]} ELSE {}

\* The inductive invariant for the places of the pids, their generations and
\* the pipes.
PlacesInv ==
    /\ TypeOK
    /\ RolesAgree
    /\ TracksItsChildren
    /\ PoolsApart
    /\ PipesAgree
    /\ \A p \in Pids : pgen[p] <= gen

Others == {p \in Pids : st[p] # "free" /\ role[p] = "other"}

\* The inductive invariant for the number of workers: those still to fork and
\* the exits still to be mistaken for a worker's are counted with the workers.
CountInv ==
    /\ IsFiniteSet(children) /\ IsFiniteSet(Others)
    /\ Cardinality(children) + left + Cardinality(Others) <= Workers + adopted
    /\ Running /\ ~shutdown => Cardinality(children) + left >= Workers
    /\ sup \notin {"reap", "dead"} => Others = {}
    /\ sup \notin {"start", "spawn", "dead"} => left = 0
    /\ Running /\ sup \notin {"start", "spawn"} /\ ~shutdown =>
         \A s \in Sides : side_pids[s] # NoPid

\* The inductive invariant for late connections: a child that took one has had
\* its notice for good, and will not be woken again.
LateInv ==
    \A p \in Pids :
        /\ late[p] <= 1
        /\ late[p] = 1 => st[p] \in {"busy", "idle", "zombie"} /\ Notice(pgen[p])
-----------------------------------------------------------------------------
(***************************************************************************)
(* Type correctness.                                                       *)
(***************************************************************************)
\* A fork, and a reaped pid, leave every process variable with its type.
LEMMA ForkedTyped ==
    ASSUME TypeOK, NEW p \in Pids, NEW q \in Pids, NEW r \in {"worker"} \cup Sides,
           Forked(p, q, r) \/ (Reaped(p) /\ q = p)
    PROVE  /\ st' \in [Pids -> Live \cup {"free", "zombie"}]
           /\ role' \in [Pids -> {"worker", "other"} \cup Sides]
           /\ pgen' \in [Pids -> 0..MaxGen]
           /\ copies' \in [Pids -> SUBSET (1..MaxGen)]
           /\ deaf' \in [Pids -> BOOLEAN]
           /\ late' \in [Pids -> Nat]
<1> USE PoolAssumption DEF TypeOK, Forked, Reaped
<1>1. st' \in [Pids -> Live \cup {"free", "zombie"}] BY DEF Live
<1>2. role' \in [Pids -> {"worker", "other"} \cup Sides] OBVIOUS
<1>3. pgen' \in [Pids -> 0..MaxGen] OBVIOUS
<1>4. deaf' \in [Pids -> BOOLEAN] OBVIOUS
<1>5. late' \in [Pids -> Nat] OBVIOUS
<1>6. copies' \in [Pids -> SUBSET (1..MaxGen)]
  <2>1. \A x \in Pids : copies'[x] \in {notice, {}, copies[x]} OBVIOUS
  <2>2. copies' = [x \in Pids |-> copies'[x]] OBVIOUS
  <2>3. notice \in SUBSET (1..MaxGen) /\ \A x \in Pids : copies[x] \in SUBSET (1..MaxGen)
    OBVIOUS
  <2> HIDE DEF TypeOK, Forked, Reaped
  <2>4. \A x \in Pids : copies'[x] \in SUBSET (1..MaxGen) BY <2>1, <2>3
  <2> QED BY <2>2, <2>4
<1> QED BY <1>1, <1>2, <1>3, <1>4, <1>5, <1>6

\* Every step of the supervisor keeps the types.
LEMMA SupTyped == ASSUME TypeOK, SupNext PROVE TypeOK'
<1> USE PoolAssumption DEF procVars, outside
<1>1. ASSUME NEW p \in Pids, SpawnWorker(p) PROVE TypeOK'
  BY <1>1, ForkedTyped DEF SpawnWorker, TypeOK
<1>2. ASSUME NEW p \in Pids, NEW s \in Sides, SpawnSide(s, p) PROVE TypeOK'
  BY <1>2, ForkedTyped DEF SpawnSide, TypeOK
<1>3. ASSUME NEW p \in Pids, ReapRetired(p) PROVE TypeOK'
  BY <1>3, ForkedTyped DEF ReapRetired, TypeOK
<1>4. ASSUME NEW p \in Pids, NEW q \in Pids, ReapSide(p, q) PROVE TypeOK'
  <2>1. PICK s \in Sides :
          /\ \/ Reaped(p) /\ q = p /\ side_pids' = [side_pids EXCEPT ![s] = NoPid]
             \/ Forked(p, q, s) /\ side_pids' = [side_pids EXCEPT ![s] = q]
    BY <1>4 DEF ReapSide
  <2> QED BY <1>4, <2>1, ForkedTyped DEF ReapSide, TypeOK
<1>5. ASSUME NEW p \in Pids, NEW q \in Pids, ReapOther(p, q) PROVE TypeOK'
  <2>1. /\ Forked(p, q, "worker") \/ (Reaped(p) /\ q = p)
        /\ children' \subseteq Pids
    BY <1>5 DEF ReapOther, TypeOK
  <2> QED BY <1>5, <2>1, ForkedTyped DEF ReapOther, TypeOK
<1>6. ASSUME NEW p \in Pids, WaitChild(p) PROVE TypeOK'
  BY <1>6, ForkedTyped DEF WaitChild, TypeOK
<1>7. CASE SpawnDone BY <1>7 DEF SpawnDone, TypeOK
<1>8. CASE Check BY <1>8 DEF Check, TypeOK
<1>9. CASE ReapNone BY <1>9 DEF ReapNone, TypeOK
<1>10. CASE TakeReload BY <1>10 DEF TakeReload, TypeOK
<1>11. CASE LoadFails BY <1>11 DEF LoadFails, TypeOK
<1>12. CASE LoadOk BY <1>12 DEF LoadOk, TypeOK, SidePids
<1>13. CASE GraceCheck BY <1>13 DEF GraceCheck, TypeOK, Sigterm, Overdue, Live
<1>14. CASE Nap BY <1>14 DEF Nap, TypeOK
<1>15. CASE Teardown BY <1>15 DEF Teardown, TypeOK, Sigterm, Tracked, SidePids, Live
<1>16. CASE Finish BY <1>16 DEF Finish, TypeOK
<1> QED
  BY <1>1, <1>2, <1>3, <1>4, <1>5, <1>6, <1>7, <1>8, <1>9, <1>10, <1>11, <1>12, <1>13,
     <1>14, <1>15, <1>16 DEF SupNext

\* What a step of a child does: it moves on, closing its copy of the write end
\* when it leaves "boot" alive, and nothing of the supervisor's changes.
ChildMoves(p) ==
    /\ st[p] \in Live
    /\ \E to \in (Live \ {"boot"}) \cup {"zombie"} : st' = [st EXCEPT ![p] = to]
    /\ copies' = IF st[p] = "boot" /\ st'[p] # "zombie"
                 THEN [copies EXCEPT ![p] = @ \ {pgen[p]}] ELSE copies
    /\ UNCHANGED <<supVars, role, pgen, deaf, pdeathsig, adopted>>

\* Every step of a child is such a move.
LEMMA ChildStep == ASSUME TypeOK, NEW p \in Pids, ChildNext(p) PROVE ChildMoves(p)
<1> USE DEF Moves, ChildMoves, outside, Live, TypeOK
<1>1. CASE Enter(p) BY <1>1 DEF Enter
<1>2. CASE OwnSignals(p) BY <1>2 DEF OwnSignals
<1>3. CASE DieWithParent(p) BY <1>3 DEF DieWithParent
<1>4. CASE Retire(p) BY <1>4 DEF Retire
<1>5. CASE AwaitConnection(p) BY <1>5 DEF AwaitConnection
<1>6. CASE Accept(p) BY <1>6 DEF Accept
<1>7. CASE LostRace(p) BY <1>7 DEF LostRace
<1>8. CASE ConnectionEnds(p) BY <1>8 DEF ConnectionEnds
<1>9. CASE ChildExits(p) BY <1>9 DEF ChildExits
<1> QED BY <1>1, <1>2, <1>3, <1>4, <1>5, <1>6, <1>7, <1>8, <1>9 DEF ChildNext

\* Every step keeps the types.
LEMMA TypeStep == ASSUME TypeOK, [Next]_vars PROVE TypeOK'
<1> USE PoolAssumption DEF procVars, outside, supVars
<1>1. CASE SupNext BY <1>1, SupTyped
<1>2. ASSUME NEW p \in Pids, ChildNext(p) PROVE TypeOK'
  <2>1. ChildMoves(p) BY <1>2, ChildStep
  <2>2. late' \in [Pids -> Nat] /\ exits' \in 0..MaxExits
    BY <1>2 DEF ChildNext, Enter, OwnSignals, DieWithParent, Retire, AwaitConnection, Accept,
                LostRace, ConnectionEnds, ChildExits, TypeOK
  <2>3. st' \in [Pids -> Live \cup {"free", "zombie"}]
    BY <2>1 DEF ChildMoves, TypeOK
  <2>4. copies' \in [Pids -> SUBSET (1..MaxGen)] BY <2>1 DEF ChildMoves, TypeOK
  <2> QED BY <2>1, <2>2, <2>3, <2>4 DEF ChildMoves, TypeOK
<1>3. CASE RequestReload BY <1>3 DEF RequestReload, TypeOK
<1>4. CASE RequestShutdown BY <1>4 DEF RequestShutdown, TypeOK
<1>5. CASE GraceElapses BY <1>5 DEF GraceElapses, TypeOK
<1>6. ASSUME NEW p \in Pids, Adopt(p) PROVE TypeOK' BY <1>6 DEF Adopt, TypeOK
<1>7. CASE SupervisorDies BY <1>7 DEF SupervisorDies, TypeOK
<1>8. CASE UNCHANGED vars BY <1>8 DEF vars, TypeOK
<1> QED BY <1>1, <1>2, <1>3, <1>4, <1>5, <1>6, <1>7, <1>8 DEF Next, EnvNext

\* The supervisor starts before its first fork.
LEMMA InitTyped == Init => TypeOK
<1> SUFFICES ASSUME Init PROVE TypeOK OBVIOUS
<1>1. st \in [Pids -> Live \cup {"free", "zombie"}] BY DEF Init
<1>2. deaf \in [Pids -> BOOLEAN] BY DEF Init
<1>3. shutdown \in BOOLEAN /\ reloadReq \in BOOLEAN BY DEF Init
<1>4. copies \in [Pids -> SUBSET (1..MaxGen)] BY DEF Init
<1> QED BY <1>1, <1>2, <1>3, <1>4, PoolAssumption DEF Init, TypeOK

\* The variables keep their types.
THEOREM TypeCorrect == Spec => []TypeOK
BY InitTyped, TypeStep, PTL DEF Spec
-----------------------------------------------------------------------------
(***************************************************************************)
(* Where each pid is kept, and the generation of what runs under it.       *)
(***************************************************************************)
\* What a fork of q, in the step that reaped p, leaves under each pid.
LEMMA ForkedSlots ==
    ASSUME TypeOK, NEW p \in Pids, NEW q \in Pids, NEW r, Forked(p, q, r), NEW x \in Pids
    PROVE  /\ st'[x] = IF x = q THEN "boot" ELSE IF x = p THEN "free" ELSE st[x]
           /\ role'[x] = IF x = q THEN r ELSE IF x = p THEN "worker" ELSE role[x]
           /\ pgen'[x] = IF x = q THEN gen ELSE IF x = p THEN 0 ELSE pgen[x]
           /\ copies'[x] = IF x = q THEN notice ELSE IF x = p THEN {} ELSE copies[x]
           /\ late'[x] = IF x = q \/ x = p THEN 0 ELSE late[x]
BY DEF TypeOK, Forked

\* ... and what a reaped pid leaves.
LEMMA ReapedSlots ==
    ASSUME TypeOK, NEW p \in Pids, Reaped(p), NEW x \in Pids
    PROVE  /\ st'[x] = IF x = p THEN "free" ELSE st[x]
           /\ role'[x] = IF x = p THEN "worker" ELSE role[x]
           /\ pgen'[x] = IF x = p THEN 0 ELSE pgen[x]
           /\ copies'[x] = IF x = p THEN {} ELSE copies[x]
           /\ late'[x] = IF x = p THEN 0 ELSE late[x]
BY DEF TypeOK, Reaped

\* A step that forks nothing, frees nothing and moves no pid.
LEMMA StillPlaced ==
    ASSUME PlacesInv, TypeOK',
           UNCHANGED <<gen, notice, children, side_pids, retiring, role, pgen>>,
           Running' => Running,
           Running' => stopped' \subseteq retiring,
           \A p \in Pids : /\ st'[p] = "free" <=> st[p] = "free"
                           /\ st[p] = "zombie" => st'[p] = "zombie"
                           /\ \/ st'[p] = st[p] /\ copies'[p] = copies[p]
                              \/ st'[p] = "zombie"
                              \/ st'[p] # "boot" /\ copies'[p] = {}
    PROVE  PlacesInv'
<1> USE DEF PlacesInv, Running
<1>1. RolesAgree' BY DEF RolesAgree
<1>2. Running' => Tracked' = Own'
  BY DEF TracksItsChildren, Tracked, Own, SidePids
<1>3. TracksItsChildren' BY <1>2 DEF TracksItsChildren, SidePids
<1>4. PoolsApart' BY DEF PoolsApart, SidePids
<1>5. PipesAgree' BY DEF PipesAgree, Live
<1> QED BY <1>1, <1>3, <1>4, <1>5

\* Nothing is tracked before the first fork.
LEMMA InitPlaced == Init => PlacesInv
<1> SUFFICES ASSUME Init PROVE PlacesInv OBVIOUS
<1>1. SidePids = {} BY DEF Init, SidePids
<1>2. Own = {} BY DEF Init, Own
<1>3. TracksItsChildren BY <1>1, <1>2 DEF Init, TracksItsChildren, Tracked
<1>4. PoolsApart /\ PipesAgree BY <1>1 DEF Init, PoolsApart, PipesAgree, Live
<1>5. RolesAgree BY DEF Init, RolesAgree, Running
<1>6. \A p \in Pids : pgen[p] <= gen BY DEF Init
<1> QED BY <1>3, <1>4, <1>5, <1>6, InitTyped DEF PlacesInv

\* What the side listeners run under are pids.
LEMMA SidePidsTyped == ASSUME TypeOK PROVE SidePids \subseteq Pids
BY DEF TypeOK, SidePids

\* No two side listeners share a process.
LEMMA SidesApart ==
    ASSUME TypeOK, RolesAgree, Running, NEW s \in Sides, NEW t \in Sides,
           side_pids[s] = side_pids[t], side_pids[s] # NoPid
    PROVE  s = t
BY DEF RolesAgree

\* A worker is forked, in the place of p if p was one.
LEMMA WorkerForkPlaced ==
    ASSUME PlacesInv, TypeOK', Running, NEW p \in Pids, NEW q \in Pids,
           Forked(p, q, "worker"), p \notin retiring, p \notin SidePids,
           children' = (children \ {p}) \cup {q},
           UNCHANGED <<sup, gen, notice, side_pids, retiring, stopped>>
    PROVE  PlacesInv'
<1> USE PoolAssumption, ForkedSlots DEF PlacesInv, Running
<1>1. SidePids' = SidePids BY DEF SidePids
<1>2. q = p \/ q \notin Own BY DEF Forked, Own
<1>3. q \notin retiring /\ q \notin SidePids BY <1>2 DEF TracksItsChildren, Tracked
<1>4. Own' = (Own \ {p}) \cup {q} BY DEF Own
<1>5. TracksItsChildren'
  BY <1>1, <1>2, <1>3, <1>4 DEF TracksItsChildren, Tracked
<1>6. RolesAgree'
  <2>1. \A x \in Pids : role'[x] = "other" => st'[x] = "zombie" BY DEF RolesAgree
  <2>2. \A x \in Pids : st'[x] = "free" => role'[x] = "worker" BY DEF RolesAgree
  <2>3. \A x \in children' : role'[x] = "worker" BY DEF RolesAgree, TypeOK
  <2>4. ASSUME NEW s \in Sides, side_pids[s] # NoPid PROVE role'[side_pids[s]] = s
    <3>1. side_pids[s] \in SidePids BY <2>4 DEF SidePids
    <3>2. side_pids[s] \in Pids BY <2>4 DEF TypeOK
    <3> QED BY <1>3, <3>1, <3>2, <2>4 DEF RolesAgree
  <2> QED BY <2>1, <2>2, <2>3, <2>4 DEF RolesAgree
<1>7. PoolsApart'
  <2>1. \A x \in children' \cup SidePids' : pgen'[x] = gen
    BY <1>1, <1>3, SidePidsTyped DEF PoolsApart, TypeOK
  <2>2. \A x \in retiring : pgen'[x] < gen
    BY <1>3 DEF PoolsApart, TypeOK
  <2> QED BY <2>1, <2>2 DEF PoolsApart
<1>8. \A x \in Pids : pgen'[x] <= gen' BY DEF TypeOK
<1>9. PipesAgree' BY DEF PipesAgree, Live
<1> QED BY <1>5, <1>6, <1>7, <1>8, <1>9

\* A side listener's process is forked, in the place of p if p was its process.
LEMMA SideForkPlaced ==
    ASSUME PlacesInv, TypeOK', Running, NEW p \in Pids, NEW q \in Pids, NEW s \in Sides,
           Forked(p, q, s), p \notin retiring, p \notin children,
           side_pids[s] = p \/ (side_pids[s] = NoPid /\ p \notin SidePids),
           side_pids' = [side_pids EXCEPT ![s] = q],
           UNCHANGED <<sup, gen, notice, children, retiring, stopped>>
    PROVE  PlacesInv'
<1> USE PoolAssumption, ForkedSlots DEF PlacesInv, Running
<1>a. \A t \in Sides : t # s => side_pids'[t] = side_pids[t] /\ side_pids[t] # p
  BY SidesApart DEF TypeOK, SidePids
<1>b. side_pids'[s] = q BY DEF TypeOK
<1>1. SidePids' = (SidePids \ {p}) \cup {q}
  <2>1. \A x \in SidePids' : x \in (SidePids \ {p}) \cup {q} BY <1>a, <1>b DEF SidePids
  <2>2. \A x \in (SidePids \ {p}) \cup {q} : x \in SidePids'
    BY <1>a, <1>b DEF SidePids, TypeOK
  <2> QED BY <2>1, <2>2
<1>2. q = p \/ q \notin Own BY DEF Forked, Own
<1>3. q \notin retiring /\ q \notin children BY <1>2 DEF TracksItsChildren, Tracked
<1>4. Own' = (Own \ {p}) \cup {q} BY DEF Own
<1>5. TracksItsChildren'
  BY <1>1, <1>2, <1>3, <1>4 DEF TracksItsChildren, Tracked
<1>6. RolesAgree'
  <2>1. \A x \in Pids : role'[x] = "other" => st'[x] = "zombie" BY DEF RolesAgree
  <2>2. \A x \in Pids : st'[x] = "free" => role'[x] = "worker" BY DEF RolesAgree
  <2>3. \A x \in children' : role'[x] = "worker" BY <1>3 DEF RolesAgree, TypeOK
  <2>4. ASSUME NEW t \in Sides, side_pids'[t] # NoPid PROVE role'[side_pids'[t]] = t
    <3>1. CASE t = s BY <3>1, <1>b
    <3>2. CASE t # s
      <4>1. side_pids'[t] = side_pids[t] /\ side_pids[t] # p BY <1>a, <3>2
      <4>2. side_pids[t] \in Own /\ side_pids[t] \in Pids
        BY <4>1, <2>4 DEF TypeOK, TracksItsChildren, Tracked, SidePids
      <4>3. side_pids[t] # q BY <4>1, <4>2, <1>2
      <4> QED BY <4>1, <4>2, <4>3, <2>4 DEF RolesAgree
    <3> QED BY <3>1, <3>2
  <2> QED BY <2>1, <2>2, <2>3, <2>4 DEF RolesAgree
<1>7. PoolsApart'
  <2>1. \A x \in children' \cup SidePids' : pgen'[x] = gen
    BY <1>1, <1>3, SidePidsTyped DEF PoolsApart, TypeOK
  <2>2. \A x \in retiring : pgen'[x] < gen
    BY <1>3 DEF PoolsApart, TypeOK
  <2> QED BY <2>1, <2>2 DEF PoolsApart
<1>8. \A x \in Pids : pgen'[x] <= gen' BY DEF TypeOK
<1>9. PipesAgree' BY DEF PipesAgree, Live
<1> QED BY <1>5, <1>6, <1>7, <1>8, <1>9

\* A pid is reaped and not forked again: it leaves the one place it was in.
LEMMA ReapPlaced ==
    ASSUME PlacesInv, TypeOK', Running, NEW p \in Pids, Reaped(p),
           children' = children \ {p}, retiring' = retiring \ {p}, stopped' = stopped \ {p},
           SidePids' = SidePids \ {p},
           \A s \in Sides : side_pids'[s] \in {side_pids[s], NoPid},
           UNCHANGED <<sup, gen, notice>>
    PROVE  PlacesInv'
<1> USE PoolAssumption, ReapedSlots DEF PlacesInv, Running
<1>1. Own' = Own \ {p} BY DEF Own
<1>2. TracksItsChildren' BY <1>1 DEF TracksItsChildren, Tracked
<1>3. RolesAgree'
  <2>1. \A x \in Pids : role'[x] = "other" => st'[x] = "zombie" BY DEF RolesAgree
  <2>2. \A x \in Pids : st'[x] = "free" => role'[x] = "worker" BY DEF RolesAgree
  <2>3. \A x \in children' : role'[x] = "worker" BY DEF RolesAgree, TypeOK
  <2>4. ASSUME NEW s \in Sides, side_pids'[s] # NoPid PROVE role'[side_pids'[s]] = s
    <3>1. side_pids'[s] = side_pids[s] BY <2>4
    <3>2. side_pids'[s] \in SidePids' /\ side_pids[s] \in Pids BY <2>4, <3>1 DEF SidePids, TypeOK
    <3> QED BY <2>4, <3>1, <3>2 DEF RolesAgree
  <2> QED BY <2>1, <2>2, <2>3, <2>4 DEF RolesAgree
<1>4. PoolsApart'
  BY SidePidsTyped DEF PoolsApart, TypeOK
<1>5. \A x \in Pids : pgen'[x] <= gen' BY DEF TypeOK
<1>6. PipesAgree' BY DEF PipesAgree, Live
<1> QED BY <1>2, <1>3, <1>4, <1>5, <1>6

\* A reload: the current pids all move to `retiring`, and the generation is new.
LEMMA LoadPlaced == ASSUME PlacesInv, TypeOK', LoadOk PROVE PlacesInv'
<1> USE DEF PlacesInv, LoadOk, Running, procVars
<1>1. SidePids' = {} BY DEF SidePids
<1>2. Own' = Own BY DEF Own
<1>3. Tracked' = Tracked BY <1>1 DEF Tracked
<1>4. TracksItsChildren' BY <1>1, <1>2, <1>3 DEF TracksItsChildren, Tracked
<1>5. RolesAgree' BY DEF RolesAgree
<1>6. PoolsApart'
  BY <1>1, SidePidsTyped DEF PoolsApart, TypeOK
<1>7. \A p \in Pids : pgen'[p] <= gen' BY DEF TypeOK
<1>8. PipesAgree' BY DEF PipesAgree
<1> QED BY <1>4, <1>5, <1>6, <1>7, <1>8

\* A process the supervisor never forked is tracked nowhere.
LEMMA AdoptPlaced == ASSUME PlacesInv, TypeOK', NEW p \in Pids, Adopt(p) PROVE PlacesInv'
<1> USE PoolAssumption DEF PlacesInv, Adopt, supVars, Running
<1>1. SidePids' = SidePids BY DEF SidePids
<1>2. Own' = Own BY DEF Own, TypeOK
<1>3. p \notin Tracked BY DEF TracksItsChildren, Own
<1>4. TracksItsChildren' BY <1>1, <1>2 DEF TracksItsChildren, Tracked
<1>5. RolesAgree'
  <2>1. \A s \in Sides : side_pids[s] # NoPid => side_pids[s] # p
    BY <1>3 DEF Tracked, SidePids
  <2> QED BY <1>3, <2>1 DEF RolesAgree, TypeOK, Tracked
<1>6. PoolsApart' BY <1>1 DEF PoolsApart
<1>7. PipesAgree' BY DEF PipesAgree, Live, TypeOK
<1> QED BY <1>4, <1>5, <1>6, <1>7

\* A free pid is tracked nowhere.
LEMMA FreeIsUntracked ==
    ASSUME PlacesInv, Running, NEW p \in Pids, st[p] = "free"
    PROVE  p \notin children /\ p \notin retiring /\ p \notin SidePids
BY DEF PlacesInv, Running, TracksItsChildren, Tracked, Own

\* Every step of the supervisor keeps each pid in its place.
LEMMA SupPlaced == ASSUME PlacesInv, SupNext PROVE PlacesInv'
<1>0. TypeOK /\ TypeOK' BY SupTyped DEF PlacesInv
<1> USE <1>0
<1>1. ASSUME NEW p \in Pids, SpawnWorker(p) PROVE PlacesInv'
  <2>1. Running /\ st[p] = "free" BY <1>1 DEF SpawnWorker, Running
  <2>2. p \notin children /\ p \notin retiring /\ p \notin SidePids BY <2>1, FreeIsUntracked
  <2>3. children' = (children \ {p}) \cup {p} BY <1>1, <2>2 DEF SpawnWorker
  <2> QED BY <1>1, <2>1, <2>2, <2>3, WorkerForkPlaced DEF SpawnWorker
<1>2. ASSUME NEW p \in Pids, NEW s \in Sides, SpawnSide(s, p) PROVE PlacesInv'
  <2>1. Running /\ st[p] = "free" BY <1>2 DEF SpawnSide, Running
  <2>2. p \notin children /\ p \notin retiring /\ p \notin SidePids BY <2>1, FreeIsUntracked
  <2> QED BY <1>2, <2>1, <2>2, SideForkPlaced DEF SpawnSide
<1>3. ASSUME NEW p \in Pids, ReapRetired(p) PROVE PlacesInv'
  <2>1. Running BY <1>3 DEF ReapRetired, Running
  <2>2. p \notin children /\ p \notin SidePids
    BY <1>3, <2>1 DEF ReapRetired, PlacesInv, TracksItsChildren, Running
  <2>3. SidePids' = SidePids \ {p} BY <1>3, <2>2 DEF ReapRetired, SidePids
  <2>4. children' = children \ {p} BY <1>3, <2>2 DEF ReapRetired
  <2>5. \A s \in Sides : side_pids'[s] \in {side_pids[s], NoPid} BY <1>3 DEF ReapRetired
  <2> QED BY <1>3, <2>1, <2>3, <2>4, <2>5, ReapPlaced DEF ReapRetired
<1>4. ASSUME NEW p \in Pids, NEW q \in Pids, ReapSide(p, q) PROVE PlacesInv'
  <2>1. PICK s \in Sides :
          /\ side_pids[s] = p
          /\ \/ Reaped(p) /\ side_pids' = [side_pids EXCEPT ![s] = NoPid]
             \/ Forked(p, q, s) /\ side_pids' = [side_pids EXCEPT ![s] = q]
    BY <1>4 DEF ReapSide
  <2>2. Running /\ p \notin retiring BY <1>4 DEF ReapSide, Running
  <2>3. p \in SidePids BY <2>1, PoolAssumption DEF SidePids
  <2>4. p \notin children
    BY <2>2, <2>3 DEF PlacesInv, TracksItsChildren, Running
  <2>5. CASE Forked(p, q, s) /\ side_pids' = [side_pids EXCEPT ![s] = q]
    BY <1>4, <2>1, <2>2, <2>4, <2>5, SideForkPlaced DEF ReapSide
  <2>6. CASE Reaped(p) /\ side_pids' = [side_pids EXCEPT ![s] = NoPid]
    <3>1. \A t \in Sides : side_pids'[t] = IF t = s THEN NoPid ELSE side_pids[t]
      BY <2>6 DEF TypeOK
    <3>2. \A t \in Sides : t # s => side_pids[t] # p
      BY <2>1, <2>2, SidesApart, PoolAssumption DEF PlacesInv
    <3>3. SidePids' = SidePids \ {p}
      <4>1. \A x \in SidePids' : x \in SidePids /\ x # p BY <3>1, <3>2 DEF SidePids
      <4>2. \A x \in SidePids \ {p} : x \in SidePids' BY <3>1, <2>1 DEF SidePids
      <4> QED BY <4>1, <4>2
    <3>4. /\ stopped' = stopped \ {p} /\ children' = children \ {p}
          /\ retiring' = retiring \ {p}
      BY <1>4, <2>2, <2>4 DEF ReapSide, PlacesInv, TracksItsChildren, Running
    <3>5. \A t \in Sides : side_pids'[t] \in {side_pids[t], NoPid} BY <3>1
    <3> QED BY <1>4, <2>2, <2>6, <3>3, <3>4, <3>5, ReapPlaced DEF ReapSide
  <2> QED BY <2>1, <2>5, <2>6
<1>5. ASSUME NEW p \in Pids, NEW q \in Pids, ReapOther(p, q) PROVE PlacesInv'
  <2>1. Running /\ p \notin retiring /\ p \notin SidePids BY <1>5 DEF ReapOther, Running
  <2>2. CASE shutdown
    <3>1. SidePids' = SidePids \ {p} BY <1>5, <2>1 DEF ReapOther, SidePids
    <3>2. stopped' = stopped \ {p} /\ retiring' = retiring \ {p}
      BY <1>5, <2>1 DEF ReapOther, PlacesInv, TracksItsChildren, Running
    <3>3. \A s \in Sides : side_pids'[s] \in {side_pids[s], NoPid} BY <1>5 DEF ReapOther
    <3> QED BY <1>5, <2>1, <2>2, <3>1, <3>2, <3>3, ReapPlaced DEF ReapOther
  <2>3. CASE ~shutdown BY <1>5, <2>1, <2>3, WorkerForkPlaced DEF ReapOther
  <2> QED BY <2>2, <2>3
<1>6. ASSUME NEW p \in Pids, WaitChild(p) PROVE PlacesInv'
  <2>1. ~Running' /\ sup = "wait" BY <1>6 DEF WaitChild, Running
  <2>2. RolesAgree' BY <1>6, <2>1, ReapedSlots DEF WaitChild, PlacesInv, RolesAgree
  <2>3. \A x \in Pids : pgen'[x] <= gen' BY <1>6, ReapedSlots DEF WaitChild, PlacesInv, TypeOK
  <2>4. PipesAgree' BY <1>6, ReapedSlots DEF WaitChild, PlacesInv, PipesAgree, Live
  <2> QED BY <1>6, <2>1, <2>2, <2>3, <2>4 DEF WaitChild, PlacesInv, TracksItsChildren, PoolsApart
<1>7. CASE SpawnDone
  BY <1>7, StillPlaced DEF SpawnDone, Running, procVars, PlacesInv, TracksItsChildren
<1>8. CASE Check
  BY <1>8, StillPlaced DEF Check, Running, procVars, PlacesInv, TracksItsChildren
<1>9. CASE ReapNone
  BY <1>9, StillPlaced DEF ReapNone, Running, procVars, PlacesInv, TracksItsChildren
<1>10. CASE TakeReload
  BY <1>10, StillPlaced DEF TakeReload, Running, procVars, PlacesInv, TracksItsChildren
<1>11. CASE LoadFails
  BY <1>11, StillPlaced DEF LoadFails, Running, procVars, PlacesInv, TracksItsChildren
<1>12. CASE LoadOk BY <1>12, LoadPlaced
<1>13. CASE GraceCheck
  <2>1. \A p \in Pids : /\ st'[p] = "free" <=> st[p] = "free"
                        /\ st[p] = "zombie" => st'[p] = "zombie"
                        /\ st'[p] = st[p] \/ st'[p] = "zombie"
    BY <1>13 DEF GraceCheck, Sigterm
  <2>2. Running /\ stopped' \subseteq retiring
    BY <1>13 DEF GraceCheck, Overdue, Running, PlacesInv, TracksItsChildren
  <2> QED BY <1>13, <2>1, <2>2, StillPlaced DEF GraceCheck
<1>14. CASE Nap
  BY <1>14, StillPlaced DEF Nap, Running, procVars, PlacesInv, TracksItsChildren
<1>15. CASE Teardown
  <2>1. \A p \in Pids : /\ st'[p] = "free" <=> st[p] = "free"
                        /\ st[p] = "zombie" => st'[p] = "zombie"
                        /\ st'[p] = st[p] \/ st'[p] = "zombie"
    BY <1>15 DEF Teardown, Sigterm
  <2> QED BY <1>15, <2>1, StillPlaced DEF Teardown, Running
<1>16. CASE Finish BY <1>16, StillPlaced DEF Finish, Running, procVars
<1> QED
  BY <1>1, <1>2, <1>3, <1>4, <1>5, <1>6, <1>7, <1>8, <1>9, <1>10, <1>11, <1>12, <1>13,
     <1>14, <1>15, <1>16 DEF SupNext

\* So does every step of a child and of the surroundings.
LEMMA PlacesStep == ASSUME PlacesInv, [Next]_vars PROVE PlacesInv'
<1>0. TypeOK' BY TypeStep DEF PlacesInv
<1> USE <1>0 DEF PlacesInv
<1>a. Running => stopped \subseteq retiring BY DEF TracksItsChildren, Running
<1>1. CASE SupNext BY <1>1, SupPlaced
<1>2. ASSUME NEW p \in Pids, ChildNext(p) PROVE PlacesInv'
  <2>1. ChildMoves(p) BY <1>2, ChildStep
  <2>2. \A x \in Pids : /\ st'[x] = "free" <=> st[x] = "free"
                        /\ st[x] = "zombie" => st'[x] = "zombie"
                        /\ \/ st'[x] = st[x] /\ copies'[x] = copies[x]
                           \/ st'[x] = "zombie"
                           \/ st'[x] # "boot" /\ copies'[x] = {}
    BY <2>1 DEF ChildMoves, Live, TypeOK, PipesAgree
  <2> QED BY <1>a, <2>1, <2>2, StillPlaced DEF ChildMoves, supVars, Running
<1>3. CASE RequestReload BY <1>3, <1>a, StillPlaced DEF RequestReload, Running, procVars
<1>4. CASE RequestShutdown BY <1>4, <1>a, StillPlaced DEF RequestShutdown, Running, procVars
<1>5. CASE GraceElapses BY <1>5, <1>a, StillPlaced DEF GraceElapses, Running, procVars
<1>6. ASSUME NEW p \in Pids, Adopt(p) PROVE PlacesInv' BY <1>6, AdoptPlaced
<1>7. CASE SupervisorDies
  <2>1. \A p \in Pids : /\ st'[p] = "free" <=> st[p] = "free"
                        /\ st[p] = "zombie" => st'[p] = "zombie"
                        /\ st'[p] = st[p] \/ st'[p] = "zombie"
    BY <1>7 DEF SupervisorDies
  <2> QED BY <1>7, <2>1, StillPlaced DEF SupervisorDies, Running
<1>8. CASE UNCHANGED vars
  BY <1>8, <1>a, StillPlaced DEF vars, supVars, procVars, Running
<1> QED BY <1>1, <1>2, <1>3, <1>4, <1>5, <1>6, <1>7, <1>8 DEF Next, EnvNext

\* The invariant of the places holds in every reachable state.
LEMMA PlacesInvariant == Spec => []PlacesInv
BY InitPlaced, PlacesStep, PTL DEF Spec

\* The supervisor tracks exactly the processes it forked and has not reaped, so
\* it forgets no child and signals no pid that is not its child's.
THEOREM ChildrenAreTracked == Spec => []TracksItsChildren
<1>1. PlacesInv => TracksItsChildren BY DEF PlacesInv
<1> QED BY <1>1, PlacesInvariant, PTL

\* Whatever may still take a connection is of the pool forked from the current
\* database, but for a retired child already woken and one whose notice a sibling
\* of its own generation delays: no write end outlives that.
THEOREM GenerationsStayApart == Spec => []GenerationsApart
<1>1. ASSUME PlacesInv PROVE GenerationsApart
  <2> SUFFICES ASSUME Running, NEW p \in Pids, MayAccept(p)
               PROVE  \/ p \in children \cup SidePids /\ pgen[p] = gen
                      \/ /\ p \in retiring /\ pgen[p] < gen
                         /\ \/ st[p] = "woken"
                            \/ \E q \in retiring : st[q] = "boot" /\ pgen[q] = pgen[p]
    BY DEF GenerationsApart, Running, Gone
  <2>1. \A q \in Pids : st[q] \in Live => q \in Tracked
    BY <1>1 DEF PlacesInv, TracksItsChildren, RolesAgree, Own, Live, Running
  <2>2. CASE p \in children \cup SidePids BY <1>1, <2>2 DEF PlacesInv, PoolsApart
  <2>3. CASE p \notin children \cup SidePids /\ st[p] # "woken"
    <3>1. p \in retiring /\ pgen[p] < gen
      BY <1>1, <2>1, <2>3 DEF MayAccept, Tracked, PlacesInv, PoolsApart
    <3>2. pgen[p] # gen BY <1>1, <3>1 DEF PlacesInv, TypeOK
    <3>3. PICK q \in Pids : st[q] \in Live /\ pgen[p] \in copies[q]
      BY <1>1, <2>3, <3>2 DEF MayAccept, Notice, PlacesInv, PipesAgree
    <3>4. st[q] = "boot" /\ pgen[q] = pgen[p]
      BY <1>1, <3>3 DEF PlacesInv, PipesAgree
    <3>5. q \in retiring
      BY <1>1, <2>1, <3>2, <3>3, <3>4 DEF Tracked, PlacesInv, PoolsApart
    <3> QED BY <3>1, <3>4, <3>5
  <2>4. CASE p \notin children \cup SidePids /\ st[p] = "woken"
    BY <1>1, <2>1, <2>4 DEF MayAccept, Tracked, PlacesInv, PoolsApart
  <2> QED BY <2>2, <2>3, <2>4
<1> QED BY <1>1, PlacesInvariant, PTL
-----------------------------------------------------------------------------
(***************************************************************************)
(* Late connections.                                                       *)
(***************************************************************************)
\* The end of file on a generation's pipe is for good: a write end is copied
\* only by a fork, and a fork copies the current generation's.
LEMMA NoticeStays ==
    ASSUME PlacesInv, PlacesInv', NEW g \in 0..MaxGen, g <= gen, Notice(g),
           gen' \in {gen, gen + 1}, Gone => Gone',
           \A x \in Pids : st'[x] = "boot" =>
               (st[x] = "boot" /\ pgen'[x] = pgen[x]) \/ (~Gone /\ pgen'[x] = gen)
    PROVE  Notice(g)'
<1>1. g \notin notice' \/ Gone' BY DEF Notice, PlacesInv, PipesAgree, TypeOK
<1>2. ASSUME NEW x \in Pids, st'[x] \in Live, g \in copies'[x] PROVE FALSE
  <2>1. st'[x] = "boot" /\ pgen'[x] = g BY <1>2 DEF PlacesInv, PipesAgree
  <2>2. CASE st[x] = "boot" /\ pgen[x] = g
    BY <2>2 DEF Notice, PlacesInv, PipesAgree, Live
  <2>3. CASE ~Gone /\ gen = g BY <2>3 DEF Notice, PlacesInv, PipesAgree
  <2> QED BY <2>1, <2>2, <2>3
<1> QED BY <1>1, <1>2 DEF Notice

\* Steps after which no process has a connection more to answer for, and none
\* that had a late one is awake for another.
LEMMA LateKeeps ==
    ASSUME PlacesInv, PlacesInv', LateInv,
           gen' \in {gen, gen + 1}, Gone => Gone',
           \A x \in Pids : st'[x] = "boot" =>
               (st[x] = "boot" /\ pgen'[x] = pgen[x]) \/ (~Gone /\ pgen'[x] = gen),
           \A x \in Pids :
               \/ late'[x] = 0
               \/ /\ late'[x] = late[x] /\ pgen'[x] = pgen[x]
                  /\ late[x] = 1 => st'[x] \in {"busy", "idle", "zombie"}
    PROVE  LateInv'
<1> SUFFICES ASSUME NEW p \in Pids
             PROVE  /\ late'[p] <= 1
                    /\ late'[p] = 1 => st'[p] \in {"busy", "idle", "zombie"} /\ Notice(pgen[p])'
  BY DEF LateInv
<1>1. late'[p] <= 1 BY DEF LateInv
<1>2. ASSUME late'[p] = 1 PROVE st'[p] \in {"busy", "idle", "zombie"} /\ Notice(pgen[p])'
  <2>1. late[p] = 1 /\ pgen'[p] = pgen[p] /\ st'[p] \in {"busy", "idle", "zombie"}
    BY <1>2
  <2>2. Notice(pgen[p]) BY <2>1 DEF LateInv
  <2>3. pgen[p] \in 0..MaxGen /\ pgen[p] <= gen BY DEF PlacesInv, TypeOK
  <2>4. ASSUME NEW g \in 0..MaxGen, g = pgen[p] PROVE Notice(g)'
    BY <2>2, <2>3, <2>4, NoticeStays DEF PlacesInv
  <2> QED BY <2>1, <2>3, <2>4 DEF Notice
<1> QED BY <1>1, <1>2

\* A fork, or a reaped pid, starts without connections.
LEMMA ForkLate ==
    ASSUME PlacesInv, PlacesInv', LateInv, ~Gone, gen' = gen, Gone => Gone', NEW p \in Pids,
           NEW q \in Pids, NEW r, Forked(p, q, r) \/ Reaped(p)
    PROVE  LateInv'
<1>1. \A x \in Pids : st'[x] = "boot" =>
        (st[x] = "boot" /\ pgen'[x] = pgen[x]) \/ (~Gone /\ pgen'[x] = gen)
  BY ForkedSlots, ReapedSlots DEF PlacesInv
<1>2. \A x \in Pids :
        \/ late'[x] = 0
        \/ /\ late'[x] = late[x] /\ pgen'[x] = pgen[x]
           /\ late[x] = 1 => st'[x] \in {"busy", "idle", "zombie"}
  BY ForkedSlots, ReapedSlots DEF PlacesInv, LateInv
<1> QED BY <1>1, <1>2, LateKeeps

\* A step that changes no process.
LEMMA QuietLate ==
    ASSUME PlacesInv, PlacesInv', LateInv, UNCHANGED procVars, gen' \in {gen, gen + 1}, Gone => Gone'
    PROVE  LateInv'
BY LateKeeps DEF procVars, LateInv

\* Every step of the supervisor.
LEMMA SupLate == ASSUME PlacesInv, PlacesInv', LateInv, SupNext PROVE LateInv'
<1> USE DEF Gone
<1>1. ASSUME NEW p \in Pids, SpawnWorker(p) PROVE LateInv' BY <1>1, ForkLate DEF SpawnWorker
<1>2. ASSUME NEW p \in Pids, NEW s \in Sides, SpawnSide(s, p) PROVE LateInv'
  BY <1>2, ForkLate DEF SpawnSide
<1>3. ASSUME NEW p \in Pids, ReapRetired(p) PROVE LateInv' BY <1>3, ForkLate DEF ReapRetired
<1>4. ASSUME NEW p \in Pids, NEW q \in Pids, ReapSide(p, q) PROVE LateInv'
  <2>1. (\E s \in Sides : Forked(p, q, s)) \/ Reaped(p) BY <1>4 DEF ReapSide
  <2> QED BY <1>4, <2>1, ForkLate DEF ReapSide
<1>5. ASSUME NEW p \in Pids, NEW q \in Pids, ReapOther(p, q) PROVE LateInv'
  BY <1>5, ForkLate DEF ReapOther
<1>6. ASSUME NEW p \in Pids, WaitChild(p) PROVE LateInv' BY <1>6, ForkLate DEF WaitChild
<1>7. CASE SpawnDone BY <1>7, QuietLate DEF SpawnDone
<1>8. CASE Check BY <1>8, QuietLate DEF Check
<1>9. CASE ReapNone BY <1>9, QuietLate DEF ReapNone
<1>10. CASE TakeReload BY <1>10, QuietLate DEF TakeReload
<1>11. CASE LoadFails BY <1>11, QuietLate DEF LoadFails
<1>12. CASE LoadOk BY <1>12, QuietLate DEF LoadOk
<1>13. CASE GraceCheck BY <1>13, LateKeeps DEF GraceCheck, Sigterm, LateInv
<1>14. CASE Nap BY <1>14, QuietLate DEF Nap
<1>15. CASE Teardown BY <1>15, LateKeeps DEF Teardown, Sigterm, LateInv
<1>16. CASE Finish BY <1>16, QuietLate DEF Finish
<1> QED
  BY <1>1, <1>2, <1>3, <1>4, <1>5, <1>6, <1>7, <1>8, <1>9, <1>10, <1>11, <1>12, <1>13,
     <1>14, <1>15, <1>16 DEF SupNext

\* Every step of a child: only one that was woken before its notice accepts.
LEMMA ChildLate ==
    ASSUME PlacesInv, PlacesInv', LateInv, NEW p \in Pids, ChildNext(p)
    PROVE  LateInv'
<1>0. ChildMoves(p) BY ChildStep DEF PlacesInv
<1>1. /\ gen' = gen /\ pgen' = pgen /\ (Gone => Gone')
      /\ \A x \in Pids : st'[x] = "boot" => st[x] = "boot"
      /\ \A x \in Pids : x # p => st'[x] = st[x]
  BY <1>0 DEF ChildMoves, supVars, Gone, PlacesInv, TypeOK
<1>2. CASE Accept(p)
  <2>1. late[p] = 0 /\ st[p] = "woken" BY <1>2 DEF Accept, Moves, LateInv, PlacesInv, TypeOK
  <2>2. st'[p] = "busy" BY <1>2 DEF Accept, Moves, PlacesInv, TypeOK
  <2>3. \A x \in Pids : x # p => late'[x] = late[x] BY <1>2 DEF Accept, PlacesInv, TypeOK
  <2>4. CASE Notice(pgen[p])
    <3>1. late'[p] = 1 BY <1>2, <2>1, <2>4 DEF Accept, PlacesInv, TypeOK
    <3>2. \A x \in Pids : Notice(pgen[x]) => Notice(pgen[x])'
      <4> SUFFICES ASSUME NEW x \in Pids, Notice(pgen[x]) PROVE Notice(pgen[x])' OBVIOUS
      <4>1. ASSUME NEW g \in 0..MaxGen, g = pgen[x] PROVE Notice(g)'
        BY <4>1, <1>1, NoticeStays DEF PlacesInv
      <4>2. pgen[x] \in 0..MaxGen BY DEF PlacesInv, TypeOK
      <4> QED BY <1>1, <4>1, <4>2 DEF Notice
    <3> QED BY <1>1, <2>2, <2>3, <2>4, <3>1, <3>2 DEF LateInv
  <2>5. CASE ~Notice(pgen[p])
    <3>1. late'[p] = late[p] BY <1>2, <2>5 DEF Accept, PlacesInv, TypeOK
    <3> QED BY <1>1, <2>1, <2>2, <2>3, <3>1, LateKeeps DEF LateInv
  <2> QED BY <2>4, <2>5
<1>3. CASE ~Accept(p)
  <2>1. late' = late BY <1>3 DEF ChildNext, Enter, OwnSignals, DieWithParent, Retire,
      AwaitConnection, LostRace, ConnectionEnds, ChildExits
  <2>2. late[p] = 1 => st'[p] \in {"busy", "idle", "zombie"}
    BY <1>3 DEF ChildNext, Enter, OwnSignals, DieWithParent, Retire, AwaitConnection, LostRace,
                ConnectionEnds, ChildExits, Moves, LateInv, PlacesInv, TypeOK
  <2> QED BY <1>1, <2>1, <2>2, LateKeeps DEF LateInv
<1> QED BY <1>2, <1>3

\* Every step keeps the invariant of late connections.
LEMMA LateStep == ASSUME PlacesInv, LateInv, [Next]_vars PROVE LateInv'
<1>0. PlacesInv' BY PlacesStep
<1> USE <1>0 DEF Gone
<1>1. CASE SupNext BY <1>1, SupLate
<1>2. ASSUME NEW p \in Pids, ChildNext(p) PROVE LateInv' BY <1>2, ChildLate
<1>3. CASE RequestReload BY <1>3, QuietLate DEF RequestReload
<1>4. CASE RequestShutdown BY <1>4, QuietLate DEF RequestShutdown
<1>5. CASE GraceElapses BY <1>5, QuietLate DEF GraceElapses
<1>6. ASSUME NEW p \in Pids, Adopt(p) PROVE LateInv'
  BY <1>6, LateKeeps DEF Adopt, supVars, LateInv, PlacesInv, TypeOK
<1>7. CASE SupervisorDies BY <1>7, LateKeeps DEF SupervisorDies, LateInv
<1>8. CASE UNCHANGED vars BY <1>8, QuietLate DEF vars, supVars
<1> QED BY <1>1, <1>2, <1>3, <1>4, <1>5, <1>6, <1>7, <1>8 DEF Next, EnvNext

\* A child takes at most one connection after its notice to retire.
THEOREM AtMostOneLate == Spec => []OneLateConnection
<1>1. Init => LateInv BY DEF Init, LateInv
<1>2. LateInv => OneLateConnection BY DEF LateInv, OneLateConnection
<1> QED BY <1>1, <1>2, LateStep, PlacesInvariant, PTL DEF Spec
-----------------------------------------------------------------------------
(***************************************************************************)
(* The number of workers.                                                  *)
(***************************************************************************)
\* The sets' sizes, while a step leaves the sets alone.
LEMMA QuietCount ==
    ASSUME CountInv, UNCHANGED <<children, left, adopted, side_pids>>, Others' = Others,
           Running' => Running, shutdown => shutdown',
           sup' \notin {"reap", "dead"} => sup \notin {"reap", "dead"} \/ Others = {},
           sup' \notin {"start", "spawn", "dead"} =>
               \/ sup \notin {"start", "spawn", "dead"}
               \/ left = 0 /\ \A s \in Sides : side_pids[s] # NoPid
    PROVE  CountInv'
BY DEF CountInv, Running

\* A step that frees no pid and gives none another role.
LEMMA SameOthers ==
    ASSUME role' = role, \A x \in Pids : st'[x] = "free" <=> st[x] = "free"
    PROVE  Others' = Others
BY DEF Others

\* What is reaped and tracked nowhere was never forked here.
LEMMA UntrackedIsOther ==
    ASSUME PlacesInv, Running, NEW p \in Pids, st[p] # "free", p \notin Tracked
    PROVE  p \in Others
BY DEF PlacesInv, Running, TracksItsChildren, Own, Others

\* A tracked child is not a process of another's.
LEMMA TrackedIsNotOther ==
    ASSUME PlacesInv, Running, NEW p \in Tracked
    PROVE  p \notin Others
BY DEF PlacesInv, Running, TracksItsChildren, Own, Others

\* A fork of a worker in the fork loops.
LEMMA SpawnCount ==
    ASSUME PlacesInv, CountInv, NEW p \in Pids, SpawnWorker(p)
    PROVE  CountInv'
<1> USE PoolAssumption
<1>1. Running /\ st[p] = "free" /\ TypeOK BY DEF SpawnWorker, Running, PlacesInv
<1>2. p \notin children BY <1>1, FreeIsUntracked
<1>3. /\ IsFiniteSet(children') /\ Cardinality(children') = Cardinality(children) + 1
      /\ Cardinality(children) \in Nat
  BY <1>2, FS_AddElement, FS_CardinalityType DEF SpawnWorker, CountInv
<1>4. Forked(p, p, "worker") BY DEF SpawnWorker
<1>5. Others' = Others BY <1>1, <1>4, ForkedSlots DEF Others
<1>6. left \in Nat /\ left' = left - 1 /\ Cardinality(Others) \in Nat /\ adopted \in Nat
  BY <1>1, FS_CardinalityType DEF SpawnWorker, CountInv, TypeOK
<1> QED BY <1>3, <1>5, <1>6 DEF SpawnWorker, CountInv, Running, outside

\* A worker is replaced, or, in the place of a process never forked here, added.
LEMMA ReplaceCount ==
    ASSUME PlacesInv, CountInv, NEW p \in Pids, NEW q \in Pids, ReapOther(p, q), ~shutdown
    PROVE  CountInv'
<1> USE PoolAssumption
<1>1. /\ Running /\ sup = "reap" /\ TypeOK /\ st[p] = "zombie"
      /\ Forked(p, q, "worker") /\ children' = (children \ {p}) \cup {q}
      /\ UNCHANGED <<sup, shutdown, left, side_pids, adopted>>
  BY DEF ReapOther, Running, PlacesInv, outside
<1>2. Others' = Others \ {p}
  <2>1. ASSUME NEW x \in Pids PROVE x \in Others' <=> x \in Others /\ x # p
    <3>1. st[q] = "free" \/ q = p BY <1>1 DEF Forked
    <3>2. /\ st'[x] = IF x = q THEN "boot" ELSE IF x = p THEN "free" ELSE st[x]
          /\ role'[x] = IF x = q THEN "worker" ELSE IF x = p THEN "worker" ELSE role[x]
      BY <1>1, ForkedSlots
    <3> QED BY <3>1, <3>2 DEF Others
  <2> QED BY <2>1 DEF Others
<1>3. q = p \/ q \notin children
  BY <1>1, FreeIsUntracked DEF Forked
<1>4. /\ IsFiniteSet(children) /\ Cardinality(children) \in Nat
      /\ IsFiniteSet(Others) /\ Cardinality(Others) \in Nat
  BY FS_CardinalityType DEF CountInv
<1>5. CASE p \in children
  <2>1. p \notin Others BY <1>1, <1>5, TrackedIsNotOther DEF Tracked
  <2>2. IsFiniteSet(children \ {p}) /\ Cardinality(children \ {p}) = Cardinality(children) - 1
    BY <1>4, <1>5, FS_RemoveElement
  <2>3. q \notin children \ {p} BY <1>3
  <2>4. /\ IsFiniteSet((children \ {p}) \cup {q})
        /\ Cardinality((children \ {p}) \cup {q}) = Cardinality(children \ {p}) + 1
    BY <2>2, <2>3, FS_AddElement
  <2>6. IsFiniteSet(children') /\ Cardinality(children') = Cardinality(children)
    BY <1>1, <1>4, <2>2, <2>4
  <2>5. Others' = Others BY <1>2, <2>1
  <2> QED BY <1>1, <2>5, <2>6 DEF CountInv, Running
<1>6. CASE p \notin children
  <2>1. p \in Others
    BY <1>1, <1>6, UntrackedIsOther DEF ReapOther, Tracked
  <2>2. IsFiniteSet(Others') /\ Cardinality(Others') = Cardinality(Others) - 1
    BY <1>2, <1>4, <2>1, FS_RemoveElement
  <2>3. q \notin children /\ children' = children \cup {q} BY <1>1, <1>3, <1>6
  <2>4. IsFiniteSet(children') /\ Cardinality(children') = Cardinality(children) + 1
    BY <1>4, <2>3, FS_AddElement
  <2>5. left \in Nat /\ adopted \in Nat BY <1>1 DEF TypeOK
  <2> QED BY <1>1, <1>4, <2>2, <2>4, <2>5 DEF CountInv, Running
<1> QED BY <1>5, <1>6

\* A pid is reaped during a shutdown, when nothing is replaced.
LEMMA ReapCount ==
    ASSUME PlacesInv, CountInv, NEW p \in Pids, NEW q \in Pids, ReapOther(p, q), shutdown
    PROVE  CountInv'
<1> USE PoolAssumption
<1>1. /\ Running /\ sup = "reap" /\ TypeOK /\ Reaped(p) /\ children' = children \ {p}
      /\ UNCHANGED <<sup, shutdown, left, side_pids, adopted>>
  BY DEF ReapOther, Running, PlacesInv, outside
<1>2. Others' \subseteq Others /\ children' \subseteq children
  BY <1>1, ReapedSlots DEF Others
<1>3. /\ IsFiniteSet(children') /\ Cardinality(children') <= Cardinality(children)
      /\ Cardinality(children') \in Nat /\ Cardinality(children) \in Nat
      /\ IsFiniteSet(Others') /\ Cardinality(Others') <= Cardinality(Others)
      /\ Cardinality(Others') \in Nat /\ Cardinality(Others) \in Nat
  BY <1>2, FS_Subset, FS_CardinalityType DEF CountInv
<1>4. left \in Nat /\ adopted \in Nat BY <1>1 DEF TypeOK
<1> QED BY <1>1, <1>3, <1>4 DEF CountInv, Running

\* A process that was not forked here exits: it may add a worker.
LEMMA AdoptCount ==
    ASSUME PlacesInv, CountInv, NEW p \in Pids, Adopt(p)
    PROVE  CountInv'
<1> USE PoolAssumption
<1>1. /\ sup = "reap" /\ TypeOK /\ st[p] = "free" /\ adopted' = adopted + 1
      /\ UNCHANGED <<sup, shutdown, left, side_pids, children>>
  BY DEF Adopt, supVars, PlacesInv
<1>2. p \notin Others /\ Others' = Others \cup {p}
  BY <1>1 DEF Adopt, Others, TypeOK
<1>3. /\ IsFiniteSet(Others') /\ Cardinality(Others') = Cardinality(Others) + 1
      /\ Cardinality(Others) \in Nat /\ Cardinality(children) \in Nat
  BY <1>2, FS_AddElement, FS_CardinalityType DEF CountInv
<1>4. left \in Nat /\ adopted \in Nat BY <1>1 DEF TypeOK
<1> QED BY <1>1, <1>3, <1>4 DEF CountInv, Running

\* Every step of the supervisor keeps the count.
LEMMA SupCount == ASSUME PlacesInv, CountInv, SupNext PROVE CountInv'
<1>0. TypeOK BY DEF PlacesInv
<1> USE <1>0 DEF outside, Running
<1>1. ASSUME NEW p \in Pids, SpawnWorker(p) PROVE CountInv' BY <1>1, SpawnCount
<1>2. ASSUME NEW p \in Pids, NEW s \in Sides, SpawnSide(s, p) PROVE CountInv'
  <2>1. Forked(p, p, s) /\ st[p] = "free" BY <1>2 DEF SpawnSide
  <2>2. Others' = Others BY <2>1, ForkedSlots, PoolAssumption DEF Others
  <2> QED BY <1>2, <2>2 DEF SpawnSide, CountInv
<1>3. ASSUME NEW p \in Pids, ReapRetired(p) PROVE CountInv'
  <2>1. p \notin Others BY <1>3, TrackedIsNotOther DEF ReapRetired, Tracked
  <2>2. Others' = Others BY <1>3, <2>1, ReapedSlots DEF ReapRetired, Others
  <2> QED BY <1>3, <2>2, QuietCount DEF ReapRetired
<1>4. ASSUME NEW p \in Pids, NEW q \in Pids, ReapSide(p, q) PROVE CountInv'
  <2>1. PICK s \in Sides :
          /\ side_pids[s] = p
          /\ \/ shutdown /\ Reaped(p)
             \/ Forked(p, q, s) /\ side_pids' = [side_pids EXCEPT ![s] = q]
    BY <1>4 DEF ReapSide
  <2>2. p \in SidePids BY <2>1, PoolAssumption DEF SidePids
  <2>3. p \notin Others BY <1>4, <2>2, TrackedIsNotOther DEF ReapSide, Tracked
  <2>4. Others' = Others
    <3>1. CASE Reaped(p) BY <2>3, <3>1, ReapedSlots DEF Others
    <3>2. CASE Forked(p, q, s)
      <4>1. s # "other" /\ (q = p \/ st[q] = "free") BY <3>2, PoolAssumption DEF Forked
      <4>2. \A x \in Pids :
              /\ st'[x] = IF x = q THEN "boot" ELSE IF x = p THEN "free" ELSE st[x]
              /\ role'[x] = IF x = q THEN s ELSE IF x = p THEN "worker" ELSE role[x]
        BY <3>2, ForkedSlots
      <4> QED BY <2>3, <4>1, <4>2 DEF Others
    <3> QED BY <2>1, <3>1, <3>2
  <2>5. ~shutdown => \A t \in Sides : side_pids'[t] # NoPid
    BY <1>4, <2>1, PoolAssumption DEF ReapSide, CountInv, TypeOK
  <2> QED BY <1>4, <2>4, <2>5 DEF ReapSide, CountInv
<1>5. ASSUME NEW p \in Pids, NEW q \in Pids, ReapOther(p, q) PROVE CountInv'
  BY <1>5, ReplaceCount, ReapCount
<1>6. ASSUME NEW p \in Pids, WaitChild(p) PROVE CountInv'
  <2>1. Others = {} BY <1>6 DEF WaitChild, CountInv
  <2>2. Others' = {} BY <1>6, <2>1, ReapedSlots DEF WaitChild, Others
  <2> QED BY <1>6, <2>1, <2>2, QuietCount DEF WaitChild
<1>7. CASE SpawnDone BY <1>7, SameOthers, QuietCount DEF SpawnDone, procVars
<1>8. CASE Check
  <2>1. sup \notin {"reap", "dead"} /\ Others' = Others
    BY <1>8, SameOthers DEF Check, procVars
  <2> QED BY <1>8, <2>1, QuietCount DEF Check
<1>9. CASE ReapNone
  <2>1. Others = {} BY <1>9 DEF ReapNone, PlacesInv, RolesAgree, Others
  <2>2. Others' = Others BY <1>9, SameOthers DEF ReapNone, procVars
  <2> QED BY <1>9, <2>1, <2>2, QuietCount DEF ReapNone
<1>10. CASE TakeReload BY <1>10, SameOthers, QuietCount DEF TakeReload, procVars
<1>11. CASE LoadFails BY <1>11, SameOthers, QuietCount DEF LoadFails, procVars
<1>12. CASE LoadOk
  <2>1. Others = {} /\ Others' = Others
    BY <1>12, SameOthers DEF LoadOk, procVars, CountInv
  <2>2. children' = {} /\ left' = Workers /\ sup' = "spawn" /\ adopted' = adopted
    BY <1>12 DEF LoadOk
  <2>3. adopted \in Nat BY DEF TypeOK
  <2> QED BY <2>1, <2>2, <2>3, FS_EmptySet, PoolAssumption DEF CountInv
<1>13. CASE GraceCheck
  <2>1. Others' = Others BY <1>13, SameOthers DEF GraceCheck, Sigterm
  <2> QED BY <1>13, <2>1, QuietCount DEF GraceCheck
<1>14. CASE Nap BY <1>14, SameOthers, QuietCount DEF Nap, procVars
<1>15. CASE Teardown
  <2>1. Others' = Others BY <1>15, SameOthers DEF Teardown, Sigterm
  <2> QED BY <1>15, <2>1, QuietCount DEF Teardown
<1>16. CASE Finish BY <1>16, SameOthers, QuietCount DEF Finish, procVars
<1> QED
  BY <1>1, <1>2, <1>3, <1>4, <1>5, <1>6, <1>7, <1>8, <1>9, <1>10, <1>11, <1>12, <1>13,
     <1>14, <1>15, <1>16 DEF SupNext

\* Every step keeps the count.
LEMMA CountStep == ASSUME PlacesInv, CountInv, [Next]_vars PROVE CountInv'
<1> USE DEF outside, Running
<1>1. CASE SupNext BY <1>1, SupCount
<1>2. ASSUME NEW p \in Pids, ChildNext(p) PROVE CountInv'
  <2>1. ChildMoves(p) BY <1>2, ChildStep DEF PlacesInv
  <2>2. Others' = Others BY <2>1, SameOthers DEF ChildMoves, Live, PlacesInv, TypeOK
  <2> QED BY <2>1, <2>2, QuietCount DEF ChildMoves, supVars
<1>3. CASE RequestReload BY <1>3, SameOthers, QuietCount DEF RequestReload, procVars
<1>4. CASE RequestShutdown BY <1>4, SameOthers, QuietCount DEF RequestShutdown, procVars
<1>5. CASE GraceElapses BY <1>5, SameOthers, QuietCount DEF GraceElapses, procVars
<1>6. ASSUME NEW p \in Pids, Adopt(p) PROVE CountInv' BY <1>6, AdoptCount
<1>7. CASE SupervisorDies
  <2>1. Others' = Others BY <1>7, SameOthers DEF SupervisorDies
  <2> QED BY <1>7, <2>1, QuietCount DEF SupervisorDies
<1>8. CASE UNCHANGED vars BY <1>8, SameOthers, QuietCount DEF vars, supVars, procVars
<1> QED BY <1>1, <1>2, <1>3, <1>4, <1>5, <1>6, <1>7, <1>8 DEF Next, EnvNext

\* The count holds before the first fork.
LEMMA InitCount == Init => CountInv
<1> SUFFICES ASSUME Init PROVE CountInv OBVIOUS
<1>1. Others = {} BY DEF Init, Others
<1> QED BY <1>1, FS_EmptySet, PoolAssumption DEF Init, CountInv

\* The count holds in every reachable state.
LEMMA CountInvariant == Spec => []CountInv
BY InitCount, CountStep, PlacesInvariant, PTL DEF Spec

\* The pool keeps its size: the supervisor goes to sleep with a full pool, and
\* no crash, reload or side listener adds a worker to cfg.workers.
THEOREM PoolSizeIsKept == Spec => []PoolKeepsItsSize
<1>1. PlacesInv /\ CountInv => PoolKeepsItsSize
  <2> SUFFICES ASSUME PlacesInv, CountInv PROVE PoolKeepsItsSize OBVIOUS
  <2>1. Cardinality(children) \in Nat /\ Cardinality(Others) \in Nat
    BY FS_CardinalityType DEF CountInv
  <2>2. Cardinality(children) <= Workers + adopted
    BY <2>1, PoolAssumption DEF CountInv, PlacesInv, TypeOK
  <2>3. ASSUME sup = "nap", ~shutdown
        PROVE  Cardinality(children) >= Workers /\ \A s \in Sides : side_pids[s] # NoPid
    BY <2>1, <2>3, PoolAssumption DEF CountInv, Running
  <2> QED BY <2>2, <2>3 DEF PoolKeepsItsSize
<1> QED BY <1>1, CountInvariant, PlacesInvariant, PTL
-----------------------------------------------------------------------------
(***************************************************************************)
(* Scans under way.                                                        *)
(***************************************************************************)
\* What may end a busy child: its own step, teardown, the supervisor's death,
\* or the grace of its own generation.
LEMMA SparesStep ==
    ASSUME TypeOK, [Next]_vars, NEW p \in Pids,
           st[p] = "busy", st'[p] = "zombie", exits' = exits
    PROVE  sup' \in {"wait", "dead"} \/ (p \in retiring /\ pgen[p] <= elapsed)
<1> USE DEF outside, procVars
<1>1. CASE SupNext
  <2>1. ASSUME NEW x \in Pids, NEW y \in Pids, NEW r, Forked(x, y, r) \/ Reaped(x) PROVE FALSE
    BY <2>1, ForkedSlots, ReapedSlots
  <2>2. CASE st' = st BY <2>2
  <2>3. CASE GraceCheck BY <2>3 DEF GraceCheck, Sigterm, Overdue
  <2>4. CASE Teardown BY <2>4 DEF Teardown
  <2> QED
    BY <1>1, <2>1, <2>2, <2>3, <2>4
    DEF SupNext, SpawnWorker, SpawnSide, ReapRetired, ReapSide, ReapOther, WaitChild, SpawnDone,
        Check, ReapNone, TakeReload, LoadFails, LoadOk, Nap, Finish
<1>2. ASSUME NEW x \in Pids, ChildNext(x) PROVE FALSE
  BY <1>2 DEF ChildNext, Enter, OwnSignals, DieWithParent, Retire, AwaitConnection, Accept,
              LostRace, ConnectionEnds, ChildExits, Moves, TypeOK
<1>3. CASE RequestReload BY <1>3 DEF RequestReload
<1>4. CASE RequestShutdown BY <1>4 DEF RequestShutdown
<1>5. CASE GraceElapses BY <1>5 DEF GraceElapses
<1>6. ASSUME NEW x \in Pids, Adopt(x) PROVE FALSE BY <1>6 DEF Adopt, TypeOK
<1>7. CASE SupervisorDies BY <1>7 DEF SupervisorDies
<1>8. CASE UNCHANGED vars BY <1>8 DEF vars
<1> QED BY <1>1, <1>2, <1>3, <1>4, <1>5, <1>6, <1>7, <1>8 DEF Next, EnvNext

\* A reload cuts no scan short.
THEOREM ScansAreSpared == Spec => ReloadSparesScans
<1>1. TypeOK /\ [Next]_vars =>
        [\A p \in Pids :
            st[p] = "busy" /\ st'[p] = "zombie" /\ exits' = exits =>
                \/ sup' \in {"wait", "dead"}
                \/ p \in retiring /\ pgen[p] <= elapsed]_vars
  BY SparesStep
<1> QED BY <1>1, TypeCorrect, PTL DEF Spec, ReloadSparesScans
-----------------------------------------------------------------------------
(***************************************************************************)
(* What a supervisor leaves behind.                                        *)
(***************************************************************************)
\* A SIGTERM was not lost on p: it is dying of it, or it was deaf to it.
Heeded(p) == st[p] = "zombie" \/ deaf[p]

\* The inductive invariant for the end: the pids still to wait for are all the
\* processes left, and have heeded their SIGTERM; so have the retired children
\* that were stopped; and parent death took every child that had asked for it.
EndInv ==
    /\ Running => \A p \in stopped : Heeded(p)
    /\ sup = "wait" => \A p \in toWait : Heeded(p)
    /\ sup \in {"wait", "done"} => \A p \in Pids : st[p] # "free" => p \in toWait
    /\ sup = "done" => toWait = {}
    /\ sup = "dead" /\ pdeathsig => \A p \in Pids : st[p] \notin {"idle", "woken", "busy"}

\* A step in which no process that has heeded a SIGTERM comes to life again.
LEMMA QuietEnd ==
    ASSUME TypeOK, EndInv, sup' \notin {"wait", "done", "dead"}, sup \notin {"wait", "done", "dead"},
           stopped' \subseteq stopped, \A p \in stopped' : Heeded(p) => Heeded(p)'
    PROVE  EndInv'
BY DEF EndInv, Running

\* Every step of the supervisor.
LEMMA SupEnd == ASSUME PlacesInv, CountInv, EndInv, SupNext PROVE EndInv'
<1>0. TypeOK BY DEF PlacesInv
<1> USE <1>0
<1>a. Running => stopped \subseteq retiring /\ Tracked = Own
  BY DEF PlacesInv, TracksItsChildren, Running
<1>1. ASSUME NEW p \in Pids, SpawnWorker(p) PROVE EndInv'
  <2>1. Running /\ Forked(p, p, "worker") /\ st[p] = "free" /\ UNCHANGED <<sup, stopped>>
    BY <1>1 DEF SpawnWorker, Running
  <2>2. p \notin stopped BY <1>a, <2>1, FreeIsUntracked
  <2>3. \A x \in Pids : x # p => st'[x] = st[x] /\ deaf'[x] = deaf[x]
    BY <2>1 DEF Forked, TypeOK
  <2> QED BY <2>1, <2>2, <2>3, QuietEnd DEF Running, Heeded, TypeOK
<1>2. ASSUME NEW p \in Pids, NEW s \in Sides, SpawnSide(s, p) PROVE EndInv'
  <2>1. Running /\ Forked(p, p, s) /\ st[p] = "free" /\ UNCHANGED <<sup, stopped>>
    BY <1>2 DEF SpawnSide, Running
  <2>2. p \notin stopped BY <1>a, <2>1, FreeIsUntracked
  <2>3. \A x \in Pids : x # p => st'[x] = st[x] /\ deaf'[x] = deaf[x]
    BY <2>1 DEF Forked, TypeOK
  <2> QED BY <2>1, <2>2, <2>3, QuietEnd DEF Running, Heeded, TypeOK
<1>3. ASSUME NEW p \in Pids, ReapRetired(p) PROVE EndInv'
  <2>1. \A x \in Pids : x # p => st'[x] = st[x] /\ deaf'[x] = deaf[x]
    BY <1>3 DEF ReapRetired, Reaped, TypeOK
  <2> QED BY <1>3, <2>1, QuietEnd DEF ReapRetired, Heeded, TypeOK
<1>4. ASSUME NEW p \in Pids, NEW q \in Pids, NEW r,
             sup = "reap", sup' = sup, stopped' = stopped, p \notin retiring,
             Reaped(p) \/ Forked(p, q, r)
      PROVE  EndInv'
  <2>1. p \notin stopped BY <1>a, <1>4 DEF Running
  <2>2. Forked(p, q, r) => q \notin stopped
    BY <1>a, <1>4, FreeIsUntracked DEF Forked, Running
  <2>3. \A x \in Pids : x # p /\ (x # q \/ Reaped(p)) => st'[x] = st[x] /\ deaf'[x] = deaf[x]
    BY <1>4 DEF Reaped, Forked, TypeOK
  <2> QED BY <1>4, <2>1, <2>2, <2>3, QuietEnd DEF Heeded, TypeOK
<1>5. ASSUME NEW p \in Pids, NEW q \in Pids, ReapSide(p, q) PROVE EndInv'
  BY <1>4, <1>5 DEF ReapSide
<1>6. ASSUME NEW p \in Pids, NEW q \in Pids, ReapOther(p, q) PROVE EndInv'
  BY <1>4, <1>6 DEF ReapOther
<1>7. ASSUME NEW p \in Pids, WaitChild(p) PROVE EndInv'
  <2>1. \A x \in Pids : x # p => st'[x] = st[x] /\ deaf'[x] = deaf[x]
    BY <1>7 DEF WaitChild, Reaped, TypeOK
  <2>2. st'[p] = "free" BY <1>7, ReapedSlots DEF WaitChild
  <2> QED BY <1>7, <2>1, <2>2 DEF WaitChild, EndInv, Heeded, TypeOK, Running
<1>8. ASSUME UNCHANGED <<st, deaf, stopped>>, sup \notin {"wait", "done", "dead"},
             sup' \notin {"wait", "done", "dead"}
      PROVE  EndInv'
  BY <1>8, QuietEnd DEF Heeded
<1>9. CASE SpawnDone BY <1>8, <1>9 DEF SpawnDone, procVars
<1>10. CASE Check BY <1>8, <1>10 DEF Check, procVars
<1>11. CASE ReapNone BY <1>8, <1>11 DEF ReapNone, procVars
<1>12. CASE TakeReload BY <1>8, <1>12 DEF TakeReload, procVars
<1>13. CASE LoadFails BY <1>8, <1>13 DEF LoadFails, procVars
<1>14. CASE LoadOk BY <1>8, <1>14 DEF LoadOk, procVars
<1>15. CASE Nap BY <1>8, <1>15 DEF Nap, procVars
<1>b. ASSUME NEW P, P \subseteq Pids, Sigterm(P), NEW p \in Pids
      PROVE  /\ Heeded(p) => Heeded(p)'
             /\ p \in P /\ st[p] # "free" => Heeded(p)'
             /\ st[p] = "free" => st'[p] = "free"
  BY <1>b DEF Sigterm, Heeded, TypeOK, Live
<1>16. CASE GraceCheck
  <2>1. Overdue \subseteq Pids /\ sup = "grace" /\ sup' = "nap" /\ Sigterm(Overdue)
        /\ stopped' = stopped \cup Overdue
    BY <1>16 DEF GraceCheck, Overdue, TypeOK
  <2>2. \A p \in Overdue : st[p] # "free"
    BY <1>a, <2>1 DEF Overdue, Tracked, Own, Running
  <2>3. \A p \in stopped' : Heeded(p)'
    BY <1>b, <2>1, <2>2 DEF EndInv, TypeOK, Running
  <2> QED BY <2>1, <2>3 DEF EndInv, Running
<1>17. CASE Teardown
  <2>1. Tracked \subseteq Pids /\ sup = "term" /\ sup' = "wait" /\ Sigterm(Tracked)
        /\ toWait' = Tracked
    BY <1>17, SidePidsTyped DEF Teardown, Tracked, TypeOK
  <2>2. \A p \in Pids : st[p] # "free" <=> p \in Tracked
    <3>1. Others = {} BY <2>1 DEF CountInv
    <3>2. Tracked = Own BY <1>a, <2>1 DEF Running
    <3> QED BY <3>1, <3>2 DEF Others, Own
  <2>3. \A p \in toWait' : Heeded(p)' BY <1>b, <2>1, <2>2
  <2>4. \A p \in Pids : st'[p] # "free" => p \in toWait' BY <1>b, <2>1, <2>2
  <2> QED BY <2>1, <2>3, <2>4 DEF EndInv, Running
<1>18. CASE Finish BY <1>18 DEF Finish, EndInv, procVars, Running
<1> QED
  BY <1>1, <1>2, <1>3, <1>5, <1>6, <1>7, <1>9, <1>10, <1>11, <1>12, <1>13, <1>14, <1>15,
     <1>16, <1>17, <1>18 DEF SupNext

\* Every step of a child: one that has heeded its SIGTERM stays dead or deaf,
\* and one whose supervisor has died does not come to serve.
LEMMA ChildEnd == ASSUME PlacesInv, EndInv, NEW p \in Pids, ChildNext(p) PROVE EndInv'
<1>0. TypeOK /\ ChildMoves(p) BY ChildStep DEF PlacesInv
<1>1. /\ UNCHANGED <<sup, stopped, toWait, deaf, pdeathsig>> /\ st[p] \in Live /\ st'[p] # "free"
      /\ \A x \in Pids : x # p => st'[x] = st[x]
  BY <1>0 DEF ChildMoves, supVars, TypeOK, Live
<1>2. \A x \in Pids : Heeded(x) => Heeded(x)' BY <1>1 DEF Heeded, Live
<1>3. ASSUME sup = "dead", pdeathsig PROVE st'[p] \notin {"idle", "woken", "busy"}
  <2>1. st[p] \notin {"idle", "woken", "busy"} BY <1>3 DEF EndInv, Running
  <2> QED
    BY <1>0, <1>3, <2>1 DEF ChildNext, Enter, OwnSignals, DieWithParent, Retire, AwaitConnection,
       Accept, LostRace, ConnectionEnds, ChildExits, Moves, TypeOK, Gone
<1>4. \A x \in Pids : st'[x] # "free" => st[x] # "free" BY <1>1 DEF Live
<1> QED BY <1>0, <1>1, <1>2, <1>3, <1>4 DEF EndInv, TypeOK, Running

\* Every step.
LEMMA EndStep == ASSUME PlacesInv, CountInv, EndInv, [Next]_vars PROVE EndInv'
<1>0. TypeOK BY DEF PlacesInv
<1> USE <1>0 DEF outside
<1>1. CASE SupNext BY <1>1, SupEnd
<1>2. ASSUME NEW p \in Pids, ChildNext(p) PROVE EndInv' BY <1>2, ChildEnd
<1>3. ASSUME UNCHANGED <<sup, stopped, toWait, st, deaf, pdeathsig>> PROVE EndInv'
  BY <1>3 DEF EndInv, Heeded, Running
<1>4. CASE RequestReload BY <1>3, <1>4 DEF RequestReload, procVars
<1>5. CASE RequestShutdown BY <1>3, <1>5 DEF RequestShutdown, procVars
<1>6. CASE GraceElapses BY <1>3, <1>6 DEF GraceElapses, procVars
<1>7. ASSUME NEW p \in Pids, Adopt(p) PROVE EndInv'
  <2>1. sup = "reap" /\ UNCHANGED <<sup, stopped, deaf>> /\ st' = [st EXCEPT ![p] = "zombie"]
    BY <1>7 DEF Adopt, supVars
  <2>2. \A x \in Pids : Heeded(x) => Heeded(x)' BY <2>1 DEF Heeded, TypeOK
  <2> QED BY <2>1, <2>2, QuietEnd DEF TypeOK
<1>8. CASE SupervisorDies
  <2>1. /\ sup' = "dead" /\ UNCHANGED <<stopped, toWait, deaf, pdeathsig>>
        /\ sup \notin {"done", "dead"}
        /\ st' = [p \in Pids |-> IF pdeathsig /\ st[p] \in {"idle", "woken", "busy"}
                                 THEN "zombie" ELSE st[p]]
    BY <1>8 DEF SupervisorDies, Gone, outside
  <2>2. \A x \in Pids : Heeded(x) => Heeded(x)' BY <2>1 DEF Heeded, TypeOK
  <2>3. pdeathsig => \A x \in Pids : st'[x] \notin {"idle", "woken", "busy"} BY <2>1
  <2> QED BY <2>1, <2>2, <2>3 DEF EndInv, TypeOK, Running
<1>9. CASE UNCHANGED vars BY <1>3, <1>9 DEF vars, supVars, procVars
<1> QED BY <1>1, <1>2, <1>4, <1>5, <1>6, <1>7, <1>8, <1>9 DEF Next, EnvNext

\* The end holds in every reachable state.
LEMMA EndInvariant == Spec => []EndInv
<1>1. Init => EndInv BY DEF Init, EndInv, Running
<1> QED BY <1>1, EndStep, PlacesInvariant, CountInvariant, PTL DEF Spec

\* A shutdown that ends leaves no process behind, nothing but deafness keeps
\* teardown waiting, and parent death leaves no child serving: the safety half
\* of "one asked to stop takes them with it as it always did".
THEOREM GoneLeaveNothing == Spec => []GoneLeavesNone
<1>1. EndInv => GoneLeavesNone BY DEF EndInv, GoneLeavesNone, Heeded
<1> QED BY <1>1, EndInvariant, PTL

\* The retired that the supervisor will not signal again.
StoppedHeed == Running => \A p \in stopped : Heeded(p)

\* A retired child is sent SIGTERM only once (`stopped`), and once is enough:
\* it is on its way out, or it was deaf, which is the exception of RetiredLeave.
THEOREM OnceIsEnough == Spec => []StoppedHeed
<1>1. EndInv => StoppedHeed BY DEF EndInv, StoppedHeed, Running
<1> QED BY <1>1, EndInvariant, PTL
-----------------------------------------------------------------------------
(***************************************************************************)
(* The pool implements the service.                                        *)
(***************************************************************************)
serviceVars == <<gen, elapsed, ServiceMode, exits, ServicePhase, ServiceOf, ServiceBusy>>

\* What the service sees of a process is its place, its state and its generation.
LEMMA ServiceStutters ==
    ASSUME TypeOK, UNCHANGED <<gen, elapsed, exits>>, Running' <=> Running,
           \A x \in Pids : /\ st'[x] \in Live <=> st[x] \in Live
                           /\ st'[x] = "busy" <=> st[x] = "busy"
                           /\ st[x] \in Live => /\ pgen'[x] = pgen[x]
                                                /\ x \in retiring' <=> x \in retiring
    PROVE  UNCHANGED serviceVars
<1>1. ServicePhase' = ServicePhase BY DEF ServicePhase
<1>2. ServiceOf' = ServiceOf BY DEF ServiceOf
<1>3. ServiceBusy' = ServiceBusy BY DEF ServiceBusy
<1>4. ServiceMode' = ServiceMode BY DEF ServiceMode, Running
<1> QED BY <1>1, <1>2, <1>3, <1>4 DEF serviceVars

\* A fork, in the place of a reaped process or of none, is a start.
LEMMA ServiceStarts ==
    ASSUME TypeOK, Running, NEW p \in Pids, NEW q \in Pids, NEW r, Forked(p, q, r),
           st[p] \notin Live, q \notin retiring,
           UNCHANGED <<sup, gen, elapsed, exits, retiring>>
    PROVE  Service!Start(q)
<1>1. st[q] \notin Live BY DEF Forked, Live
<1>2. \A x \in Pids : /\ st'[x] \in Live <=> (x = q \/ st[x] \in Live)
                      /\ x # q /\ st[x] \in Live => pgen'[x] = pgen[x]
                      /\ st'[x] = "busy" <=> st[x] = "busy"
  BY <1>1, ForkedSlots DEF Live
<1>3. pgen'[q] = gen BY ForkedSlots
<1>4. ServicePhase' = [ServicePhase EXCEPT ![q] = "serving"] BY <1>2 DEF ServicePhase
<1>5. ServiceOf' = [ServiceOf EXCEPT ![q] = gen] BY <1>2, <1>3 DEF ServiceOf
<1>6. ServiceBusy' = ServiceBusy BY <1>2 DEF ServiceBusy
<1>7. ServiceMode = "up" /\ ServiceMode' = ServiceMode BY DEF ServiceMode, Running
<1>8. ServicePhase[q] = "none" BY <1>1 DEF ServicePhase
<1> QED BY <1>4, <1>5, <1>6, <1>7, <1>8 DEF Service!Start

\* Processes that become zombies, and nothing else, end.
LEMMA ServiceEnds ==
    ASSUME TypeOK, NEW P, P \subseteq Pids, UNCHANGED <<pgen, retiring>>,
           \A x \in Pids : /\ x \in P => st'[x] \notin Live
                           /\ x \notin P => st'[x] = st[x]
    PROVE  Service!End(P)
<1>1. ServicePhase' = [x \in Pids |-> IF x \in P THEN "none" ELSE ServicePhase[x]]
  BY DEF ServicePhase
<1>2. ServiceOf' = [x \in Pids |-> IF x \in P THEN 0 ELSE ServiceOf[x]]
  BY DEF ServiceOf
<1>3. ServiceBusy' = ServiceBusy \ P
  BY DEF ServiceBusy, Live
<1> QED BY <1>1, <1>2, <1>3 DEF Service!End

\* A reload retires every child at once.
LEMMA ServiceReloads == ASSUME PlacesInv, LoadOk PROVE Service!Reload
<1>1. TypeOK /\ Running /\ Running' /\ gen' = gen + 1 /\ UNCHANGED <<elapsed, procVars, outside>>
      /\ retiring' = retiring \cup children \cup SidePids
  BY DEF PlacesInv, LoadOk, Running
<1>2. \A x \in Pids : st[x] \in Live => x \in retiring'
  <2>1. \A x \in Pids : st[x] \in Live => x \in Own
    BY DEF PlacesInv, RolesAgree, Own, Live
  <2> QED BY <1>1, <2>1 DEF PlacesInv, TracksItsChildren, Running, Tracked
<1>3. ServicePhase' = [x \in Pids |-> IF ServicePhase[x] = "serving" THEN "retired"
                                      ELSE ServicePhase[x]]
  BY <1>1, <1>2 DEF ServicePhase, procVars
<1>4. ServiceOf' = ServiceOf /\ ServiceBusy' = ServiceBusy
  BY <1>1 DEF ServiceOf, ServiceBusy, procVars
<1>5. ServiceMode = "up" /\ ServiceMode' = ServiceMode BY <1>1 DEF ServiceMode, Running
<1> QED BY <1>1, <1>3, <1>4, <1>5 DEF Service!Reload, outside

\* Every step of the supervisor.
LEMMA SupServes == ASSUME PlacesInv, SupNext PROVE Service!Next \/ UNCHANGED serviceVars
<1>0. TypeOK BY DEF PlacesInv
<1> USE <1>0 DEF outside
<1>1. ASSUME NEW p \in Pids, NEW q \in Pids, NEW r, Running, Forked(p, q, r), st[p] \notin Live,
             q \notin retiring, UNCHANGED <<sup, gen, elapsed, exits, retiring>>
      PROVE  Service!Next
  BY <1>1, ServiceStarts DEF Service!Next
<1>2. ASSUME NEW p \in Pids, Reaped(p), st[p] \notin Live, Running' <=> Running,
             UNCHANGED <<gen, elapsed, exits>>, retiring' \in {retiring, retiring \ {p}}
      PROVE  UNCHANGED serviceVars
  <2>1. \A x \in Pids : /\ st'[x] = IF x = p THEN "free" ELSE st[x]
                        /\ pgen'[x] = IF x = p THEN 0 ELSE pgen[x]
    BY <1>2, ReapedSlots
  <2> QED BY <1>2, <2>1, ServiceStutters DEF Live
<1>3. ASSUME UNCHANGED <<gen, elapsed, exits, st, pgen, retiring>>, Running' <=> Running
      PROVE  UNCHANGED serviceVars
  BY <1>3, ServiceStutters
<1>4. ASSUME NEW p \in Pids, SpawnWorker(p) PROVE Service!Next
  <2>1. Running /\ st[p] = "free" BY <1>4 DEF SpawnWorker, Running
  <2>2. p \notin retiring BY <2>1, FreeIsUntracked
  <2> QED BY <1>1, <1>4, <2>1, <2>2 DEF SpawnWorker, Live
<1>5. ASSUME NEW p \in Pids, NEW s \in Sides, SpawnSide(s, p) PROVE Service!Next
  <2>1. Running /\ st[p] = "free" BY <1>5 DEF SpawnSide, Running
  <2>2. p \notin retiring BY <2>1, FreeIsUntracked
  <2> QED BY <1>1, <1>5, <2>1, <2>2 DEF SpawnSide, Live
<1>6. ASSUME NEW p \in Pids, ReapRetired(p) PROVE UNCHANGED serviceVars
  BY <1>2, <1>6 DEF ReapRetired, Live, Running
<1>7. ASSUME NEW p \in Pids, NEW q \in Pids, NEW r, sup = "reap", st[p] = "zombie",
             p \notin retiring, UNCHANGED <<sup, gen, elapsed, exits, retiring>>,
             Forked(p, q, r) \/ Reaped(p)
      PROVE  Service!Next \/ UNCHANGED serviceVars
  <2>1. Running BY <1>7 DEF Running
  <2>2. Forked(p, q, r) => q \notin retiring
    BY <1>7, <2>1, FreeIsUntracked DEF Forked
  <2>3. CASE Forked(p, q, r) BY <1>1, <1>7, <2>1, <2>2, <2>3 DEF Live
  <2>4. CASE Reaped(p) BY <1>2, <1>7, <2>4 DEF Live, Running
  <2> QED BY <1>7, <2>3, <2>4
<1>8. ASSUME NEW p \in Pids, NEW q \in Pids, ReapSide(p, q)
      PROVE  Service!Next \/ UNCHANGED serviceVars
  BY <1>7, <1>8 DEF ReapSide
<1>9. ASSUME NEW p \in Pids, NEW q \in Pids, ReapOther(p, q)
      PROVE  Service!Next \/ UNCHANGED serviceVars
  BY <1>7, <1>9 DEF ReapOther
<1>10. ASSUME NEW p \in Pids, WaitChild(p) PROVE UNCHANGED serviceVars
  BY <1>2, <1>10 DEF WaitChild, Live, Running
<1>11. CASE SpawnDone BY <1>3, <1>11 DEF SpawnDone, procVars, Running
<1>12. CASE Check BY <1>3, <1>12 DEF Check, procVars, Running
<1>13. CASE ReapNone BY <1>3, <1>13 DEF ReapNone, procVars, Running
<1>14. CASE TakeReload BY <1>3, <1>14 DEF TakeReload, procVars, Running
<1>15. CASE LoadFails BY <1>3, <1>15 DEF LoadFails, procVars, Running
<1>16. CASE LoadOk BY <1>16, ServiceReloads DEF Service!Next
<1>17. CASE Nap BY <1>3, <1>17 DEF Nap, procVars, Running
<1>18. CASE Finish BY <1>3, <1>18 DEF Finish, procVars, Running
<1>19. CASE GraceCheck
  <2> DEFINE P == {p \in Overdue : st[p] \in {"own", "idle", "woken", "busy"}}
  <2>1. /\ P \subseteq Pids /\ Running /\ UNCHANGED <<gen, elapsed, exits, pgen, retiring>>
        /\ Running' /\ Sigterm(Overdue)
    BY <1>19 DEF GraceCheck, Overdue, TypeOK, Running
  <2>2. \A x \in Pids : /\ x \in P => st'[x] \notin Live
                        /\ x \notin P => st'[x] = st[x]
    BY <2>1 DEF Sigterm, Live
  <2>3. Service!End(P) BY <2>1, <2>2, ServiceEnds
  <2>4. \A p \in P : ServicePhase[p] = "retired" /\ ServiceOf[p] <= elapsed
    BY DEF Overdue, ServicePhase, ServiceOf, Live, TypeOK
  <2>5. ServiceMode = "up" /\ ServiceMode' = ServiceMode BY <2>1 DEF ServiceMode, Running
  <2>6. Service!StopOverdue(P) BY <2>1, <2>3, <2>4, <2>5 DEF Service!StopOverdue
  <2> QED BY <2>1, <2>6 DEF Service!Next
<1>20. CASE Teardown
  <2> DEFINE P == {p \in Tracked : st[p] \in {"own", "idle", "woken", "busy"}}
  <2>1. /\ P \subseteq Pids /\ UNCHANGED <<gen, elapsed, exits, pgen, retiring>>
        /\ sup' = "wait" /\ Sigterm(Tracked)
    BY <1>20, SidePidsTyped DEF Teardown, Tracked, TypeOK
  <2>2. \A x \in Pids : /\ x \in P => st'[x] \notin Live
                        /\ x \notin P => st'[x] = st[x]
    BY <2>1 DEF Sigterm, Live
  <2>3. Service!End(P) BY <2>1, <2>2, ServiceEnds
  <2>4. Service!GoDown(P) BY <2>1, <2>3 DEF Service!GoDown, ServiceMode
  <2> QED BY <2>1, <2>4 DEF Service!Next
<1> QED
  BY <1>4, <1>5, <1>6, <1>8, <1>9, <1>10, <1>11, <1>12, <1>13, <1>14, <1>15, <1>16, <1>17,
     <1>18, <1>19, <1>20 DEF SupNext

\* Every step of a child.
LEMMA ChildServes ==
    ASSUME PlacesInv, NEW p \in Pids, ChildNext(p)
    PROVE  Service!Next \/ UNCHANGED serviceVars
<1>0. TypeOK BY DEF PlacesInv
<1>1. UNCHANGED <<supVars, pgen>> /\ ServiceMode' = ServiceMode
      /\ UNCHANGED <<gen, elapsed, retiring>>
  BY <1>0, ChildStep DEF ChildMoves, supVars, ServiceMode
<1> USE <1>0, <1>1 DEF outside
<1>2. ASSUME NEW to \in Live \ {"busy"}, st[p] \in Live \ {"busy"}, st' = [st EXCEPT ![p] = to],
             exits' = exits
      PROVE  UNCHANGED serviceVars
  BY <1>2, ServiceStutters DEF TypeOK, supVars, Running
<1>3. ASSUME st[p] \in Live, st' = [st EXCEPT ![p] = "zombie"]
      PROVE  Service!End({p}) /\ ServicePhase[p] # "none"
  <2>1. Service!End({p}) BY <1>3, ServiceEnds DEF TypeOK, Live
  <2> QED BY <1>3, <2>1 DEF ServicePhase
<1>4. ASSUME st[p] \in Live \ {"busy"}, st' = [st EXCEPT ![p] = "zombie"], exits' = exits
      PROVE  Service!Next
  <2>1. p \notin ServiceBusy BY <1>4 DEF ServiceBusy
  <2>2. Service!Leave(p) BY <1>3, <1>4, <2>1 DEF Service!Leave
  <2> QED BY <2>2 DEF Service!Next
<1>5. CASE Enter(p) BY <1>2, <1>5 DEF Enter, Moves, Live
<1>6. CASE OwnSignals(p) BY <1>2, <1>6 DEF OwnSignals, Moves, Live
<1>7. CASE DieWithParent(p) BY <1>2, <1>4, <1>7 DEF DieWithParent, Moves, Live
<1>8. CASE Retire(p) BY <1>4, <1>8 DEF Retire, Moves, Live
<1>9. CASE AwaitConnection(p) BY <1>2, <1>9 DEF AwaitConnection, Moves, Live
<1>10. CASE LostRace(p) BY <1>2, <1>10 DEF LostRace, Moves, Live
<1>11. ASSUME st[p] \in Live, NEW to \in Live, st' = [st EXCEPT ![p] = to], exits' = exits
       PROVE  ServicePhase' = ServicePhase /\ ServiceOf' = ServiceOf
  BY <1>11 DEF ServicePhase, ServiceOf, TypeOK
<1>12. CASE Accept(p)
  <2>1. st[p] = "woken" /\ st' = [st EXCEPT ![p] = "busy"] /\ exits' = exits
    BY <1>12 DEF Accept, Moves
  <2>2. ServiceBusy' = ServiceBusy \cup {p} /\ p \notin ServiceBusy
    BY <2>1 DEF ServiceBusy, TypeOK
  <2>3. ServicePhase[p] # "none" BY <2>1 DEF ServicePhase, Live
  <2>4. Service!TakeConnection(p)
    BY <1>11, <2>1, <2>2, <2>3 DEF Service!TakeConnection, Live
  <2> QED BY <2>4 DEF Service!Next
<1>13. CASE ConnectionEnds(p)
  <2>1. st[p] = "busy" /\ st' = [st EXCEPT ![p] = "idle"] /\ exits' = exits
    BY <1>13 DEF ConnectionEnds, Moves
  <2>2. ServiceBusy' = ServiceBusy \ {p} /\ p \in ServiceBusy
    BY <2>1 DEF ServiceBusy, TypeOK
  <2>3. Service!EndConnection(p)
    BY <1>11, <2>1, <2>2 DEF Service!EndConnection, Live
  <2> QED BY <2>3 DEF Service!Next
<1>14. CASE ChildExits(p)
  <2>1. Service!Crash(p) BY <1>3, <1>14 DEF ChildExits, Moves, Service!Crash
  <2> QED BY <2>1 DEF Service!Next
<1> QED
  BY <1>5, <1>6, <1>7, <1>8, <1>9, <1>10, <1>12, <1>13, <1>14 DEF ChildNext

\* Every step.
LEMMA ServiceStep == ASSUME PlacesInv, [Next]_vars PROVE [Service!Next]_serviceVars
<1>0. TypeOK BY DEF PlacesInv
<1> USE <1>0 DEF outside
<1>1. ASSUME UNCHANGED <<gen, elapsed, exits, st, pgen, retiring>>, Running' <=> Running
      PROVE  UNCHANGED serviceVars
  BY <1>1, ServiceStutters
<1>2. CASE SupNext BY <1>2, SupServes
<1>3. ASSUME NEW p \in Pids, ChildNext(p) PROVE [Service!Next]_serviceVars
  BY <1>3, ChildServes
<1>4. CASE RequestReload BY <1>1, <1>4 DEF RequestReload, procVars, Running
<1>5. CASE RequestShutdown BY <1>1, <1>5 DEF RequestShutdown, procVars, Running
<1>6. CASE GraceElapses
  <2>1. UNCHANGED <<sup, gen, exits, st, pgen, retiring>>
        /\ elapsed < gen - 1 /\ elapsed' = elapsed + 1
    BY <1>6 DEF GraceElapses, procVars
  <2>2. UNCHANGED <<ServiceMode, ServicePhase, ServiceOf, ServiceBusy>>
    BY <2>1 DEF ServiceMode, ServicePhase, ServiceOf, ServiceBusy
  <2> QED BY <2>1, <2>2 DEF Service!Next, Service!GracePasses
<1>7. ASSUME NEW p \in Pids, Adopt(p) PROVE UNCHANGED serviceVars
  <2>1. st[p] = "free" /\ st' = [st EXCEPT ![p] = "zombie"]
        /\ UNCHANGED <<sup, gen, elapsed, exits, pgen, retiring>>
    BY <1>7 DEF Adopt, supVars
  <2> QED BY <2>1, ServiceStutters DEF TypeOK, Live, Running
<1>8. CASE SupervisorDies
  <2> DEFINE P == {p \in Pids : pdeathsig /\ st[p] \in {"idle", "woken", "busy"}}
  <2>1. /\ UNCHANGED <<gen, elapsed, exits, pgen, retiring>> /\ sup' = "dead"
        /\ st' = [p \in Pids |-> IF p \in P THEN "zombie" ELSE st[p]]
    BY <1>8 DEF SupervisorDies
  <2>2. Service!End(P) BY <2>1, ServiceEnds DEF Live
  <2>3. Service!GoDown(P) BY <2>1, <2>2 DEF Service!GoDown, ServiceMode
  <2> QED BY <2>3 DEF Service!Next
<1>9. CASE UNCHANGED vars BY <1>1, <1>9 DEF vars, supVars, procVars, Running
<1> QED BY <1>2, <1>3, <1>4, <1>5, <1>6, <1>7, <1>8, <1>9 DEF Next, EnvNext

\* The pool implements the service, for any number of workers, side listeners,
\* generations, crashes and deaths: each child serves the database it was
\* started from, a reload retires all children at once, and none is taken from
\* its connection before its grace is over but by a crash or the daemon's end.
THEOREM PoolImplementsService == Spec => ImplementsService
<1>1. Init => Service!Init
  <2> SUFFICES ASSUME Init PROVE Service!Init OBVIOUS
  <2>1. ServicePhase = [p \in Pids |-> "none"] BY DEF Init, ServicePhase, Live
  <2>2. ServiceOf = [p \in Pids |-> 0] BY DEF Init, ServiceOf, Live
  <2>3. ServiceBusy = {} BY DEF Init, ServiceBusy
  <2> QED BY <2>1, <2>2, <2>3 DEF Init, Service!Init, ServiceMode
<1>2. PlacesInv /\ [Next]_vars => [Service!Next]_serviceVars BY ServiceStep
<1> QED
  BY <1>1, <1>2, PlacesInvariant, PTL
  DEF Spec, ImplementsService, Service!Spec, Service!vars, serviceVars
=============================================================================
