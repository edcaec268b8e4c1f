----------------------------- MODULE IcapProofs -----------------------------
(***************************************************************************)
(* The ICAP service, for every number of connections, cap and keep-alive   *)
(* limit, and for every size of chunk, object and limit.                   *)
(*                                                                         *)
(* The listener (IcapServer): its connection count is exact, so its cap    *)
(* neither leaks nor is exceeded and `run` returns only once it is         *)
(* drained.  The count is compared with the set of connection threads: one *)
(* action adds a thread and counts it, one takes it away (LiveGuard's      *)
(* `drop`), and every other step leaves both alone.                        *)
(*                                                                         *)
(* The requests of one of its connections (IcapRequest): what the server   *)
(* reads next is what the client sends next, and what passes was examined. *)
(***************************************************************************)
EXTENDS IcapServer, IcapRequest, FiniteSetTheorems, TLAPS

States == {"free", "start", "register", "check", "fill", "remove", "handle", "linger", "leave"}

\* The inductive invariant.
Counted ==
    /\ pc \in [Conns -> States]
    /\ live \in Int
    /\ live = Cardinality(Serving)
    /\ live <= MaxConnections
    /\ srv = "done" => Serving = {}

\* The connection threads are finitely many, so that they can be counted.
LEMMA ServingFinite == IsFiniteSet(Serving) /\ Cardinality(Serving) \in Nat
<1>1. Serving \subseteq Conns BY DEF Serving
<1> QED BY <1>1, IcapAssumption, FS_Subset, FS_CardinalityType

\* The listener starts without threads and with a count of zero.
LEMMA InitCounted == Init => Counted
<1> SUFFICES ASSUME Init PROVE Counted OBVIOUS
<1>1. Serving = {} BY DEF Init, Serving
<1> QED BY <1>1, FS_EmptySet, IcapAssumption DEF Init, Counted, States

\* Accept: a thread more, and it is counted.
LEMMA AcceptCounts == ASSUME Counted, NEW c \in Conns, Accept(c) PROVE Counted'
<1>1. c \notin Serving /\ Serving' = Serving \cup {c}
  BY DEF Accept, Serving, Counted, States
<1>2. Cardinality(Serving') = Cardinality(Serving) + 1
  BY <1>1, ServingFinite, FS_AddElement
<1>3. pc' \in [Conns -> States]
  BY DEF Accept, Counted, States
<1> QED BY <1>2, <1>3, ServingFinite, IcapAssumption DEF Accept, Counted

\* Leave: a thread less.
LEMMA LeaveCounts == ASSUME Counted, NEW c \in Conns, Leave(c) PROVE Counted'
<1>1. c \in Serving /\ Serving' = Serving \ {c}
  BY DEF Leave, Goes, Serving, Counted, States
<1>2. Cardinality(Serving') = Cardinality(Serving) - 1
  BY <1>1, ServingFinite, FS_RemoveElement
<1>3. pc' \in [Conns -> States]
  BY DEF Leave, Goes, Counted, States
<1>4. srv' = "done" => Serving' = {}
  BY <1>1 DEF Leave, Counted
<1> QED BY <1>2, <1>3, <1>4, ServingFinite, IcapAssumption DEF Leave, Counted

\* Any other step of a thread: it stays a thread.
LEMMA OthersCount ==
    ASSUME Counted, NEW c \in Conns, NEW s \in States \ {"free"},
           pc[c] # "free", pc' = [pc EXCEPT ![c] = s], live' = live, srv' = srv
    PROVE  Counted'
<1>1. Serving' = Serving
  BY DEF Serving, Counted, States
<1>2. pc' \in [Conns -> States]
  BY DEF Counted, States
<1> QED BY <1>1, <1>2 DEF Counted

\* A step that moves no thread and no count.
LEMMA StillCounts ==
    ASSUME Counted, pc' = pc, live' = live, srv' = "done" => srv = "done"
    PROVE  Counted'
BY DEF Counted, Serving

\* A step of a connection's thread: only the guard's drop changes the count.
LEMMA ThreadCounts == ASSUME Counted, NEW c \in Conns, Thread(c) PROVE Counted'
<1> USE DEF loop, conn, Goes, States
<1>1. CASE Start(c)
  <2>1. CASE pc' = [pc EXCEPT ![c] = "leave"]
    BY <1>1, <2>1, OthersCount DEF Start
  <2>2. CASE pc' = [pc EXCEPT ![c] = IF KeepAlive > 0 THEN "register" ELSE "linger"]
    <3>1. CASE KeepAlive > 0 BY <1>1, <2>2, <3>1, OthersCount DEF Start
    <3>2. CASE ~(KeepAlive > 0) BY <1>1, <2>2, <3>2, OthersCount DEF Start
    <3> QED BY <3>1, <3>2
  <2> QED BY <1>1, <2>1, <2>2 DEF Start
<1>2. CASE Register(c) BY <1>2, OthersCount DEF Register
<1>3. CASE RegisterFails(c) BY <1>3, OthersCount DEF RegisterFails
<1>4. CASE CheckClosing(c)
  <2>1. CASE closing BY <1>4, <2>1, OthersCount DEF CheckClosing
  <2>2. CASE ~closing BY <1>4, <2>2, OthersCount DEF CheckClosing
  <2> QED BY <2>1, <2>2
<1>5. CASE FillArrives(c) BY <1>5, OthersCount DEF FillArrives
<1>6. CASE FillEnds(c) BY <1>6, OthersCount DEF FillEnds
<1>7. CASE FillTimeout(c) BY <1>7, OthersCount DEF FillTimeout
<1>8. CASE Remove(c)
  <2>1. CASE more[c] BY <1>8, <2>1, OthersCount DEF Remove
  <2>2. CASE ~more[c] BY <1>8, <2>2, OthersCount DEF Remove
  <2> QED BY <2>1, <2>2
<1>9. CASE Handle(c)
  <2>1. CASE pc' = [pc EXCEPT ![c] = "linger"] BY <1>9, <2>1, OthersCount DEF Handle
  <2>2. CASE pc' = [pc EXCEPT ![c] = "register"] BY <1>9, <2>2, OthersCount DEF Handle
  <2> QED BY <1>9, <2>1, <2>2 DEF Handle
<1>10. CASE Panic(c) BY <1>10, OthersCount DEF Panic
<1>11. CASE LingeringClose(c) BY <1>11, OthersCount DEF LingeringClose
<1>12. CASE Leave(c) BY <1>12, LeaveCounts
<1> QED
  BY <1>1, <1>2, <1>3, <1>4, <1>5, <1>6, <1>7, <1>8, <1>9, <1>10, <1>11, <1>12
  DEF Thread

\* A step of `close_all` or of the wait that follows it changes no count.
LEMMA LoopCounts == ASSUME Counted, Loop PROVE Counted'
<1>1. CASE SetClosing BY <1>1, StillCounts DEF SetClosing, conn
<1>2. CASE TakeLock BY <1>2, StillCounts DEF TakeLock, conn
<1>3. CASE \E c \in Conns : ShutOne(c) BY <1>3, StillCounts DEF ShutOne
<1>4. CASE Unlock BY <1>4, StillCounts DEF Unlock, conn
<1>5. CASE Drained
  <2>1. Serving = {}
    BY <1>5, ServingFinite, FS_EmptySet DEF Drained, Counted
  <2>2. Serving' = Serving
    BY <1>5 DEF Drained, Serving
  <2> QED BY <1>5, <2>1, <2>2 DEF Drained, Counted
<1> QED BY <1>1, <1>2, <1>3, <1>4, <1>5 DEF Loop

\* Every step of the listener keeps the count.
LEMMA CountStep == ASSUME Counted, [Next]_vars PROVE Counted'
<1>1. CASE Stop BY <1>1, StillCounts DEF Stop, conn
<1>2. CASE Loop BY <1>2, LoopCounts
<1>3. ASSUME NEW c \in Conns, Accept(c) PROVE Counted' BY <1>3, AcceptCounts
<1>4. ASSUME NEW c \in Conns, Thread(c) PROVE Counted' BY <1>4, ThreadCounts
<1>5. ASSUME NEW c \in Conns, ClientSends(c) PROVE Counted'
  BY <1>5, StillCounts DEF ClientSends, loop
<1>6. ASSUME NEW c \in Conns, ClientCloses(c) PROVE Counted'
  BY <1>6, StillCounts DEF ClientCloses, loop
<1>7. CASE UNCHANGED vars BY <1>7, StillCounts DEF vars
<1> QED BY <1>1, <1>2, <1>3, <1>4, <1>5, <1>6, <1>7 DEF Next

\* The live count is the number of threads, whichever way they end.
THEOREM CountIsExact == Spec => []LiveIsExact
<1>1. Counted => LiveIsExact BY DEF Counted, LiveIsExact
<1> QED BY <1>1, InitCounted, CountStep, PTL DEF Spec

\* The cap holds.
THEOREM CapHolds == Spec => []WithinCapacity
<1>1. Counted => WithinCapacity BY DEF Counted, WithinCapacity
<1> QED BY <1>1, InitCounted, CountStep, PTL DEF Spec

\* `run` returns only once no thread is left.
THEOREM ReturnsDrained == Spec => []DoneMeansDrained
<1>1. Counted => DoneMeansDrained BY DEF Counted, DoneMeansDrained
<1> QED BY <1>1, InitCounted, CountStep, PTL DEF Spec
-----------------------------------------------------------------------------
(***************************************************************************)
(* The race of `next_request` with `close_all`.  A connection registers,   *)
(* then looks at `closing`; the loop sets `closing`, then walks the map    *)
(* under its lock.  So a connection in the map when the walk begins is     *)
(* shut down by it, and one that registers afterwards sees the flag.       *)
(***************************************************************************)
\* The inductive invariant: where a registered connection's thread is, and what
\* the walk has still to shut down.
Watched ==
    /\ pc \in [Conns -> States] /\ shut \in [Conns -> BOOLEAN]
    /\ waiting \subseteq Conns
    /\ NoStaleRegistration
    /\ srv \notin {"serve", "flag"} => closing
    /\ srv = "walk" => \A c \in waiting : c \in toShut \/ shut[c]
    /\ NoneLeftWaiting

\* Nobody is registered at the start.
LEMMA InitWatched == Init => Watched
BY DEF Init, Watched, NoStaleRegistration, NoneLeftWaiting, States

\* A thread registers, or takes its registration back, only while it does not
\* hold the loop's lock, and looks at the flag in between.
LEMMA ThreadWatched == ASSUME Watched, NEW c \in Conns, Thread(c) PROVE Watched'
<1> USE DEF loop, conn, Goes, States, Watched, NoStaleRegistration, NoneLeftWaiting, Unlocked
<1>1. CASE Start(c) BY <1>1 DEF Start
<1>2. CASE Register(c) BY <1>2 DEF Register
<1>3. CASE RegisterFails(c) BY <1>3 DEF RegisterFails
<1>4. CASE CheckClosing(c) BY <1>4 DEF CheckClosing
<1>5. CASE FillArrives(c) BY <1>5 DEF FillArrives
<1>6. CASE FillEnds(c) BY <1>6 DEF FillEnds
<1>7. CASE FillTimeout(c) BY <1>7 DEF FillTimeout
<1>8. CASE Remove(c) BY <1>8 DEF Remove
<1>9. CASE Handle(c) BY <1>9 DEF Handle
<1>10. CASE Panic(c) BY <1>10 DEF Panic
<1>11. CASE LingeringClose(c) BY <1>11 DEF LingeringClose
<1>12. CASE Leave(c) BY <1>12 DEF Leave
<1> QED
  BY <1>1, <1>2, <1>3, <1>4, <1>5, <1>6, <1>7, <1>8, <1>9, <1>10, <1>11, <1>12
  DEF Thread

\* The loop sets the flag, then takes the lock, then shuts down what it finds.
LEMMA LoopWatched == ASSUME Watched, Loop PROVE Watched'
<1> USE DEF conn, Watched, NoStaleRegistration, NoneLeftWaiting
<1>1. CASE SetClosing BY <1>1 DEF SetClosing
<1>2. CASE TakeLock BY <1>2 DEF TakeLock
<1>3. ASSUME NEW c \in Conns, ShutOne(c) PROVE Watched' BY <1>3 DEF ShutOne
<1>4. CASE Unlock BY <1>4 DEF Unlock
<1>5. CASE Drained BY <1>5 DEF Drained
<1> QED BY <1>1, <1>2, <1>3, <1>4, <1>5 DEF Loop

\* Every step of the listener keeps the watch.
LEMMA WatchStep == ASSUME Watched, [Next]_vars PROVE Watched'
<1> USE DEF Watched, NoStaleRegistration, NoneLeftWaiting
<1>1. CASE Stop BY <1>1 DEF Stop, conn
<1>2. CASE Loop BY <1>2, LoopWatched
<1>3. ASSUME NEW c \in Conns, Accept(c) PROVE Watched' BY <1>3 DEF Accept, States
<1>4. ASSUME NEW c \in Conns, Thread(c) PROVE Watched' BY <1>4, ThreadWatched
<1>5. ASSUME NEW c \in Conns, ClientSends(c) PROVE Watched' BY <1>5 DEF ClientSends, loop
<1>6. ASSUME NEW c \in Conns, ClientCloses(c) PROVE Watched' BY <1>6 DEF ClientCloses, loop
<1>7. CASE UNCHANGED vars BY <1>7 DEF vars
<1> QED BY <1>1, <1>2, <1>3, <1>4, <1>5, <1>6, <1>7 DEF Next

\* No registration outlives its connection's wait for a request.
THEOREM RegistrationEnds == Spec => []NoStaleRegistration
<1>1. Watched => NoStaleRegistration BY DEF Watched
<1> QED BY <1>1, InitWatched, WatchStep, PTL DEF Spec

\* After `close_all` no registered connection is left blocked on an open socket.
THEOREM CloseAllMissesNone == Spec => []NoneLeftWaiting
<1>1. Watched => NoneLeftWaiting BY DEF Watched
<1> QED BY <1>1, InitWatched, WatchStep, PTL DEF Spec
-----------------------------------------------------------------------------
(***************************************************************************)
(* The requests of a connection.                                           *)
(***************************************************************************)
BodyState ==
    [kept : Nat, total : Nat, drained : Nat, over : BOOLEAN, rejected : BOOLEAN,
     abandoned : BOOLEAN, end : {"none", "eof", "ieof"}]

RequestTyped ==
    /\ bd \in BodyState
    /\ chunk \in [keep : Nat, discard : Nat]
    /\ rq \in Heads
    /\ policy \in {"OK", "FOUND", "PARTIAL"}

\* Where the client is, by what the server does.
Aligned ==
    /\ step = "chunk" => at \in {"chunk", "eof"}
    /\ step = "data" => at \in {"data", "eof"}
    /\ step = "preview" => at \in {"wait", "eof"}
    /\ step = "scan" => bd.abandoned \/ at \in {"head", "wait", "eof"}
    /\ step = "answer" =>
         answer.close \/ at \in {"head", "wait", "eof"} \/ (rq.method = "OPTIONS" /\ rq.body)
    /\ AtRequestBoundary

\* What the body will hold once the chunk being read has been kept.
Due == bd.kept + (IF step = "data" THEN chunk.keep ELSE 0)

\* While a body is read and scanned nothing is missing from it but for the
\* limit and the budgets, and no answer is decided.
Accounted ==
    step \in {"chunk", "data", "preview", "scan"} =>
        /\ answer = NoAnswer
        /\ Due <= bd.total /\ Due <= Limit
        /\ ~bd.over => Due = bd.total /\ ~bd.rejected
        /\ bd.over => bd.rejected \/ bd.total > Limit
        /\ bd.rejected => bd.total > 0
        /\ bd.abandoned => bd.over /\ step = "scan"
        /\ step = "scan" /\ rq.body /\ stage = "preview" => bd.end = "ieof" \/ bd.over

\* The inductive invariant.
RequestInv == RequestTyped /\ Aligned /\ Accounted /\ PassedIsExamined

\* The smaller and the larger of two numbers.
LEMMA MinOfTwo == ASSUME NEW a \in Int, NEW b \in Int
                  PROVE  Min({a, b}) = IF a <= b THEN a ELSE b
BY DEF Min

\* Likewise, for what a refused read leaves in RAM.
LEMMA MaxOfTwo == ASSUME NEW a \in Int, NEW b \in Int
                  PROVE  Max({a, b}) = IF a >= b THEN a ELSE b
BY DEF Max

\* A connection starts between requests.
LEMMA RequestStarts == RequestInit => RequestInv
<1> SUFFICES ASSUME RequestInit PROVE RequestInv OBVIOUS
<1>1. step = "head" /\ at = "head" /\ answer.kind = "none"
  BY DEF RequestInit, NoAnswer
<1>2. bd \in BodyState BY DEF RequestInit, NoBody, BodyState
<1>3. chunk \in [keep : Nat, discard : Nat] BY DEF RequestInit, NoChunk
<1>4. rq \in Heads /\ policy \in {"OK", "FOUND", "PARTIAL"} BY DEF RequestInit
<1>5. Aligned BY <1>1 DEF Aligned, AtRequestBoundary
<1>6. Accounted /\ PassedIsExamined BY <1>1 DEF Accounted, PassedIsExamined
<1> QED BY <1>2, <1>3, <1>4, <1>5, <1>6 DEF RequestInv, RequestTyped

\* `handle_request` up to the body.
LEMMA HeadKeeps ==
    ASSUME RequestInv,
           \/ \E h \in Heads, b \in 0 .. MaxObject : ReadModify(h, b)
           \/ \E h \in Heads : ReadOptions(h)
           \/ RefuseHead \/ EndConnection
    PROVE  RequestInv'
<1>1. ASSUME NEW h \in Heads, NEW b \in 0 .. MaxObject, ReadModify(h, b)
      PROVE  RequestInv'
  <2>1. /\ step = "head" /\ rq' = h /\ bd' = NoBody /\ answer' = NoAnswer
        /\ at' = (IF h.body THEN "chunk" ELSE "head")
        /\ step' = (IF h.body THEN "chunk" ELSE "scan")
        /\ UNCHANGED <<chunk, policy>>
    BY <1>1 DEF ReadModify
  <2>2. /\ bd' \in BodyState /\ bd'.kept = 0 /\ bd'.total = 0 /\ bd'.over = FALSE
        /\ bd'.rejected = FALSE /\ bd'.abandoned = FALSE /\ answer'.kind = "none"
    BY <2>1 DEF NoBody, NoAnswer, BodyState
  <2>3. RequestTyped' BY <1>1, <2>1, <2>2 DEF RequestInv, RequestTyped
  <2>4. Aligned' BY <2>1 DEF Aligned, AtRequestBoundary
  <2>5. Accounted' BY <2>1, <2>2, RequestAssumption DEF Accounted, Due
  <2>6. PassedIsExamined' BY <2>2 DEF PassedIsExamined
  <2> QED BY <2>3, <2>4, <2>5, <2>6 DEF RequestInv
<1>2. ASSUME NEW h \in Heads, ReadOptions(h) PROVE RequestInv'
  <2>1. /\ rq' = h /\ h.method = "OPTIONS" /\ bd' = NoBody /\ answer'.kind = "options"
        /\ step' = "answer" /\ at' = (IF h.body THEN "chunk" ELSE "head")
        /\ UNCHANGED <<chunk, policy>>
    BY <1>2 DEF ReadOptions
  <2>2. bd' \in BodyState BY <2>1 DEF NoBody, BodyState
  <2>3. RequestTyped' BY <1>2, <2>1, <2>2 DEF RequestInv, RequestTyped
  <2>4. Aligned' BY <2>1 DEF Aligned, AtRequestBoundary
  <2> QED BY <2>1, <2>3, <2>4 DEF RequestInv, Accounted, PassedIsExamined
<1>3. CASE RefuseHead
  <2>1. /\ answer'.kind = "error" /\ answer'.close = TRUE /\ step' = "answer"
        /\ UNCHANGED <<rq, chunk, bd, policy>>
    BY <1>3 DEF RefuseHead
  <2>2. RequestTyped' BY <2>1 DEF RequestInv, RequestTyped
  <2> QED
    BY <2>1, <2>2
    DEF RequestInv, Aligned, Accounted, AtRequestBoundary, PassedIsExamined
<1>4. CASE EndConnection
  <2>1. /\ step' = "closed" /\ UNCHANGED <<at, rq, stage, chunk, bd, bad, asked, answer, policy>>
    BY <1>4 DEF EndConnection
  <2> QED
    BY <2>1 DEF RequestInv, RequestTyped, Aligned, Accounted, AtRequestBoundary,
                PassedIsExamined
<1> QED BY <1>1, <1>2, <1>3, <1>4

\* A step inside the body decides nothing.
LEMMA Undecided ==
    ASSUME RequestInv, step \in {"chunk", "data", "preview", "scan"}, UNCHANGED answer
    PROVE  answer' = NoAnswer /\ PassedIsExamined'
<1>1. answer = NoAnswer BY DEF RequestInv, Accounted
<1>2. answer'.kind = "none" BY <1>1 DEF NoAnswer
<1> QED BY <1>1, <1>2 DEF PassedIsExamined

\* A chunk is split at the limit, and what is past it makes the body too long.
LEMMA ChunkSplit ==
    ASSUME RequestInv, step = "chunk", NEW k \in Nat
    PROVE  LET K == Keep(k) o == Opened(k) IN
           /\ K \in Nat /\ K <= k
           /\ bd.kept + K <= Limit
           /\ K < k => bd.rejected \/ bd.kept + k > Limit
           /\ o \in BodyState /\ o.kept = bd.kept /\ o.total = bd.total + k
           /\ o.over = (bd.over \/ K < k) /\ o.rejected = bd.rejected
           /\ o.abandoned => K < k
<1> DEFINE K == Keep(k)
<1>1. bd \in BodyState /\ bd.kept \in Nat /\ bd.kept <= Limit /\ Limit \in Nat
  BY RequestAssumption DEF RequestInv, RequestTyped, Accounted, Due, BodyState
<1>2. Min({Limit - bd.kept, k}) = IF Limit - bd.kept <= k THEN Limit - bd.kept ELSE k
  BY <1>1, MinOfTwo
<1>3. /\ K \in Nat /\ K <= k /\ bd.kept + K <= Limit
      /\ K < k => bd.rejected \/ bd.kept + k > Limit
  BY <1>1, <1>2 DEF Keep
<1>4. /\ Opened(k) \in BodyState
      /\ Opened(k).kept = bd.kept /\ Opened(k).total = bd.total + k
      /\ Opened(k).over = (bd.over \/ K < k) /\ Opened(k).rejected = bd.rejected
      /\ Opened(k).abandoned => K < k
  <2> HIDE DEF K
  <2> DEFINE over == bd.over \/ K < k
             left == K < k /\ bd.drained + (k - K) > DrainLimit
  <2>1. Opened(k) =
          [bd EXCEPT !.total = bd.total + k, !.drained = bd.drained + (k - K), !.over = over,
                     !.abandoned = left]
    BY DEF Opened, K
  <2>2. over \in BOOLEAN /\ left \in BOOLEAN /\ (left => K < k) /\ over = (bd.over \/ K < k)
    BY Zenon
  <2>3. bd.total + k \in Nat /\ bd.drained + (k - K) \in Nat
    BY <1>1, <1>3 DEF BodyState
  <2> HIDE DEF over, left
  <2> QED BY <1>1, <2>1, <2>2, <2>3 DEF BodyState
<1> QED BY <1>3, <1>4

\* A chunk's line.
LEMMA ChunkLineKeeps ==
    ASSUME RequestInv, NEW k \in Nat, ChunkLine(k)
    PROVE  RequestInv'
<1> DEFINE K == Keep(k)
           o == Opened(k)
<1>1. /\ step = "chunk" /\ at' = "data" /\ UNCHANGED <<rq, stage, answer, policy>>
      /\ bd' = IF o.abandoned THEN [o EXCEPT !.end = "eof"] ELSE o
      /\ IF bd'.abandoned THEN step' = AfterBody(bd') /\ chunk' = NoChunk
                          ELSE step' = "data" /\ chunk' = [keep |-> K, discard |-> k - K]
  BY DEF ChunkLine
<1>2. /\ K \in Nat /\ K <= k /\ bd.kept + K <= Limit
      /\ K < k => bd.rejected \/ bd.kept + k > Limit
      /\ o \in BodyState /\ o.kept = bd.kept /\ o.total = bd.total + k
      /\ o.over = (bd.over \/ K < k) /\ o.rejected = bd.rejected
      /\ o.abandoned => K < k
  BY <1>1, ChunkSplit
<1> HIDE DEF K, o
<1>3. /\ bd' \in BodyState /\ bd'.kept = bd.kept /\ bd'.total = bd.total + k
      /\ bd'.over = (bd.over \/ K < k) /\ bd'.rejected = bd.rejected
      /\ bd'.abandoned = o.abandoned
  BY <1>1, <1>2 DEF BodyState
<1>4. /\ bd \in BodyState /\ bd.kept <= bd.total /\ Limit \in Nat
      /\ ~bd.over => bd.kept = bd.total /\ ~bd.rejected
      /\ bd.over => bd.rejected \/ bd.total > Limit
      /\ bd.rejected => bd.total > 0
  BY <1>1, RequestAssumption DEF RequestInv, RequestTyped, Accounted, Due, BodyState
<1>5. answer' = NoAnswer /\ PassedIsExamined' BY <1>1, Undecided
<1>6. /\ bd'.over => bd'.rejected \/ bd'.total > Limit
      /\ bd'.rejected => bd'.total > 0
      /\ ~bd'.over => bd.kept + K = bd'.total /\ ~bd'.rejected
      /\ bd.kept + K <= bd'.total
  BY <1>2, <1>3, <1>4 DEF BodyState
<1>7. CASE bd'.abandoned
  <2>1. bd'.over = TRUE BY <1>2, <1>3, <1>7 DEF BodyState
  <2>2. step' = "scan" /\ chunk' = NoChunk BY <1>1, <1>7, <2>1 DEF AfterBody
  <2>3. chunk' \in [keep : Nat, discard : Nat] BY <2>2 DEF NoChunk
  <2>4. RequestTyped' BY <1>1, <1>3, <2>3 DEF RequestInv, RequestTyped
  <2>5. Aligned' BY <1>7, <2>2 DEF Aligned, AtRequestBoundary
  <2>6. Due' = bd.kept BY <1>3, <1>4, <2>2 DEF Due, BodyState
  <2>7. Accounted' BY <1>2, <1>3, <1>4, <1>5, <1>6, <2>1, <2>2, <2>6 DEF Accounted, BodyState
  <2> QED BY <1>5, <2>4, <2>5, <2>7 DEF RequestInv
<1>8. CASE ~bd'.abandoned
  <2>1. step' = "data" /\ chunk' = [keep |-> K, discard |-> k - K] BY <1>1, <1>8
  <2>2. chunk' \in [keep : Nat, discard : Nat] /\ chunk'.keep = K BY <1>2, <2>1
  <2>3. RequestTyped' BY <1>1, <1>3, <2>2 DEF RequestInv, RequestTyped
  <2>4. Aligned' BY <1>1, <2>1 DEF Aligned, AtRequestBoundary
  <2>5. Due' = bd.kept + K BY <1>3, <2>1, <2>2 DEF Due
  <2>6. Accounted' BY <1>2, <1>5, <1>6, <1>8, <2>1, <2>5 DEF Accounted
  <2> QED BY <1>5, <2>3, <2>4, <2>6 DEF RequestInv
<1> QED BY <1>7, <1>8

\* The last chunk.
LEMMA LastChunkKeeps ==
    ASSUME RequestInv, NEW end \in {"eof", "ieof"},
           LastChunk(end)
    PROVE  RequestInv'
<1>1. /\ step = "chunk"
      /\ bd' = [bd EXCEPT !.end = end]
      /\ at' = (IF stage = "preview" /\ end = "eof" THEN "wait" ELSE "head")
      /\ step' = AfterBody(bd')
      /\ UNCHANGED <<rq, stage, chunk, answer, policy>>
  BY DEF LastChunk
<1>2. /\ bd \in BodyState /\ bd.kept <= bd.total /\ bd.kept <= Limit
      /\ ~bd.over => bd.kept = bd.total /\ ~bd.rejected
      /\ bd.over => bd.rejected \/ bd.total > Limit
      /\ bd.rejected => bd.total > 0
      /\ ~bd.abandoned
  BY <1>1 DEF RequestInv, RequestTyped, Accounted, Due, BodyState
<1>3. /\ bd' \in BodyState /\ bd'.end = end
      /\ bd'.kept = bd.kept /\ bd'.total = bd.total /\ bd'.over = bd.over
      /\ bd'.rejected = bd.rejected /\ bd'.abandoned = bd.abandoned
  BY <1>1, <1>2 DEF BodyState
<1>4. /\ step' \in {"preview", "scan"}
      /\ step' = "preview" <=> stage = "preview" /\ end = "eof" /\ ~bd.over /\ ~bd.rejected
  BY <1>1, <1>3 DEF AfterBody
<1>5. answer' = NoAnswer /\ PassedIsExamined' BY <1>1, Undecided
<1>6. RequestTyped' BY <1>1, <1>3 DEF RequestInv, RequestTyped
<1>7. Aligned' BY <1>1, <1>4 DEF Aligned, AtRequestBoundary
<1>8. Due' = bd.kept BY <1>2, <1>3, <1>4 DEF Due, BodyState
<1>9. Accounted' BY <1>1, <1>2, <1>3, <1>4, <1>5, <1>8 DEF Accounted
<1> QED BY <1>5, <1>6, <1>7, <1>9 DEF RequestInv

\* The data of a chunk, kept or refused by the budgets, and the chunk's end.
LEMMA DataKeeps ==
    ASSUME RequestInv, NEW n \in Nat,
           KeepData(n) \/ KeepRefused(n) \/ EndChunk
    PROVE  RequestInv'
<1>1. /\ step = "data" /\ at = "data" /\ UNCHANGED <<rq, stage, answer, policy>>
  BY DEF KeepData, KeepRefused, EndChunk
<1>2. /\ bd \in BodyState /\ chunk \in [keep : Nat, discard : Nat]
      /\ bd.kept + chunk.keep <= bd.total /\ bd.kept + chunk.keep <= Limit
      /\ ~bd.over => bd.kept + chunk.keep = bd.total /\ ~bd.rejected
      /\ bd.over => bd.rejected \/ bd.total > Limit
      /\ bd.rejected => bd.total > 0
      /\ ~bd.abandoned /\ Limit \in Nat /\ Threshold \in Nat
  BY <1>1, RequestAssumption DEF RequestInv, RequestTyped, Accounted, Due, BodyState
<1>3. answer' = NoAnswer /\ PassedIsExamined' BY <1>1, Undecided
<1>4. CASE KeepData(n)
  <2>1. /\ n \in 1 .. chunk.keep /\ chunk' = [chunk EXCEPT !.keep = chunk.keep - n]
        /\ bd' = [bd EXCEPT !.kept = bd.kept + n] /\ UNCHANGED <<at, step>>
    BY <1>4 DEF KeepData
  <2>2. /\ chunk' \in [keep : Nat, discard : Nat] /\ chunk'.keep = chunk.keep - n
    BY <1>2, <2>1
  <2>3. /\ bd' \in BodyState /\ bd'.kept = bd.kept + n /\ bd'.total = bd.total
        /\ bd'.over = bd.over /\ bd'.rejected = bd.rejected /\ bd'.abandoned = bd.abandoned
    BY <1>2, <2>1 DEF BodyState
  <2>4. RequestTyped' BY <1>1, <2>2, <2>3 DEF RequestInv, RequestTyped
  <2>5. Aligned' BY <1>1, <2>1 DEF Aligned, AtRequestBoundary
  <2>6. Due' = bd.kept + chunk.keep BY <1>1, <1>2, <2>1, <2>2, <2>3 DEF Due, BodyState
  <2>7. Accounted' BY <1>1, <1>2, <1>3, <2>1, <2>3, <2>6 DEF Accounted
  <2> QED BY <1>3, <2>4, <2>5, <2>7 DEF RequestInv
<1>5. CASE KeepRefused(n)
  <2> DEFINE unread == chunk.keep - n
             left == unread > 0 /\ bd.drained + unread > DrainLimit
             kept == Max({bd.kept, Threshold})
             end == IF left THEN "eof" ELSE bd.end
  <2>1. /\ n \in 1 .. chunk.keep /\ bd.kept + n > Threshold /\ UNCHANGED at
        /\ bd' = [bd EXCEPT !.kept = kept, !.rejected = TRUE, !.over = TRUE,
                            !.drained = bd.drained + unread, !.abandoned = left, !.end = end]
        /\ IF left THEN step' = "scan" /\ chunk' = NoChunk
                   ELSE /\ step' = "data"
                        /\ chunk' = [keep |-> 0, discard |-> chunk.discard + unread]
    BY <1>5 DEF KeepRefused
  <2>2. /\ unread \in Nat /\ left \in BOOLEAN /\ bd.drained + unread \in Nat
        /\ end \in {"none", "eof", "ieof"}
    BY <1>2, <2>1 DEF BodyState
  <2>3. kept \in Nat /\ kept <= bd.kept + chunk.keep
    BY <1>2, <2>1, MaxOfTwo DEF BodyState
  <2>4. chunk' \in [keep : Nat, discard : Nat] /\ chunk'.keep = 0
    BY <1>2, <2>1, <2>2 DEF NoChunk
  <2> HIDE DEF unread, left, kept, end
  <2>5. /\ bd' \in BodyState /\ bd'.kept = kept /\ bd'.total = bd.total
        /\ bd'.over = TRUE /\ bd'.rejected = TRUE /\ bd'.abandoned = left
    BY <1>2, <2>1, <2>2, <2>3 DEF BodyState
  <2>6. RequestTyped' BY <1>1, <2>4, <2>5 DEF RequestInv, RequestTyped
  <2>7. Aligned' BY <1>1, <2>1, <2>5 DEF Aligned, AtRequestBoundary
  <2>8. Due' = kept BY <2>3, <2>4, <2>5 DEF Due
  <2>9. bd.total > 0 BY <1>2, <2>1 DEF BodyState
  <2>10. Accounted' BY <1>2, <1>3, <2>1, <2>3, <2>5, <2>8, <2>9 DEF Accounted, BodyState
  <2> QED BY <1>3, <2>6, <2>7, <2>10 DEF RequestInv
<1>6. CASE EndChunk
  <2>1. /\ chunk.keep = 0 /\ chunk' = NoChunk /\ at' = "chunk" /\ step' = "chunk"
        /\ UNCHANGED bd
    BY <1>6 DEF EndChunk
  <2>2. chunk' \in [keep : Nat, discard : Nat] BY <2>1 DEF NoChunk
  <2>3. RequestTyped' BY <1>1, <1>2, <2>1, <2>2 DEF RequestInv, RequestTyped
  <2>4. Aligned' BY <2>1 DEF Aligned, AtRequestBoundary
  <2>5. Due' = bd.kept + chunk.keep BY <1>2, <2>1 DEF Due, BodyState
  <2>6. Accounted' BY <1>2, <1>3, <2>1, <2>5 DEF Accounted
  <2> QED BY <1>3, <2>3, <2>4, <2>6 DEF RequestInv
<1> QED BY <1>4, <1>5, <1>6

\* A body that cannot be read, and a client that hangs up.
LEMMA FailureKeeps ==
    ASSUME RequestInv, Malformed \/ ReadFails \/ ClientHangsUp
    PROVE  RequestInv'
<1>1. CASE Malformed
  <2>1. /\ answer'.kind = "error" /\ answer'.close = TRUE /\ step' = "answer"
        /\ UNCHANGED <<rq, chunk, bd, policy>>
    BY <1>1 DEF Malformed
  <2>2. RequestTyped' BY <2>1 DEF RequestInv, RequestTyped
  <2> QED
    BY <2>1, <2>2
    DEF RequestInv, Aligned, Accounted, AtRequestBoundary, PassedIsExamined
<1>2. CASE ReadFails
  <2>1. step' = "closed" /\ UNCHANGED <<at, rq, stage, chunk, bd, bad, asked, answer, policy>>
    BY <1>2 DEF ReadFails
  <2> QED
    BY <2>1 DEF RequestInv, RequestTyped, Aligned, Accounted, AtRequestBoundary,
                PassedIsExamined
<1>3. CASE ClientHangsUp
  <2>1. at' = "eof" /\ UNCHANGED <<step, rq, stage, chunk, bd, bad, asked, answer, policy>>
    BY <1>3 DEF ClientHangsUp
  <2> QED
    BY <2>1 DEF RequestInv, RequestTyped, Aligned, Accounted, Due, AtRequestBoundary,
                PassedIsExamined
<1> QED BY <1>1, <1>2, <1>3

\* The preview is scanned.
LEMMA ScanPreviewKeeps == ASSUME RequestInv, ScanPreview PROVE RequestInv'
<1>1. step = "preview" /\ UNCHANGED <<rq, chunk, bad, policy>> BY DEF ScanPreview
<1>2. bd \in BodyState /\ at \in {"wait", "eof"}
  BY <1>1 DEF RequestInv, RequestTyped, Aligned
<1>3. CASE /\ answer'.kind = "block" /\ step' = "answer" /\ UNCHANGED <<at, stage, bd>>
  <2>1. RequestTyped' BY <1>1, <1>3 DEF RequestInv, RequestTyped
  <2>2. Aligned' BY <1>2, <1>3 DEF Aligned, AtRequestBoundary
  <2> QED BY <1>3, <2>1, <2>2 DEF RequestInv, Accounted, PassedIsExamined
<1>4. CASE /\ at' = (IF at = "wait" THEN "chunk" ELSE at) /\ step' = "chunk"
           /\ bd' = [bd EXCEPT !.drained = 0] /\ UNCHANGED answer
  <2>1. /\ bd' \in BodyState /\ bd'.kept = bd.kept /\ bd'.total = bd.total
        /\ bd'.over = bd.over /\ bd'.rejected = bd.rejected /\ bd'.abandoned = bd.abandoned
    BY <1>2, <1>4 DEF BodyState
  <2>2. answer' = NoAnswer /\ PassedIsExamined' BY <1>1, <1>4, Undecided
  <2>3. RequestTyped' BY <1>1, <2>1 DEF RequestInv, RequestTyped
  <2>4. Aligned' BY <1>2, <1>4 DEF Aligned, AtRequestBoundary
  <2>5. Due' = Due BY <1>1, <1>4, <2>1 DEF Due
  <2>6. Accounted' BY <1>1, <1>4, <2>1, <2>2, <2>5 DEF RequestInv, Accounted
  <2> QED BY <2>2, <2>3, <2>4, <2>6 DEF RequestInv
<1> QED BY <1>3, <1>4 DEF ScanPreview, Block

\* The object is scanned.
LEMMA ScanKeeps ==
    ASSUME RequestInv, Scan PROVE RequestInv'
<1>1. /\ step = "scan" /\ step' = "answer"
      /\ UNCHANGED <<at, rq, stage, chunk, bd, bad, policy>>
  BY DEF Scan
<1>2. PICK v \in Decisions : answer' = AnswerTo(v) BY DEF Scan
<1>3. /\ bd \in BodyState /\ bd.kept <= bd.total /\ bd.kept <= Limit
      /\ ~bd.over => bd.kept = bd.total /\ ~bd.rejected
      /\ bd.over => bd.rejected \/ bd.total > Limit
      /\ bd.rejected => bd.total > 0
      /\ bd.abandoned => bd.over
      /\ rq.body /\ stage = "preview" => bd.end = "ieof" \/ bd.over
      /\ bd.abandoned \/ at \in {"head", "wait", "eof"}
  BY <1>1 DEF RequestInv, RequestTyped, Aligned, Accounted, Due, BodyState
<1>4. Min({bd.kept, Limit}) = bd.kept
  BY <1>3, MinOfTwo, RequestAssumption DEF BodyState
<1>5. v = "OK" => ~bd.over /\ ~(bad \in 1 .. bd.total)
  <2> SUFFICES ASSUME v = "OK" PROVE ~bd.over /\ ~(bad \in 1 .. bd.total) OBVIOUS
  <2>1. CASE bd.total = 0
    BY <1>3, <2>1, RequestAssumption DEF BodyState
  <2>2. CASE bd.total # 0
    <3>1. v \in Verdicts(bd.kept, bd.rejected \/ bd.total > Limit)
      BY <1>2, <1>4, <2>2 DEF Decisions
    <3>2. ~(bad \in 1 .. bd.kept) /\ ~(bd.rejected \/ bd.total > Limit)
      BY <3>1 DEF Verdicts
    <3> QED BY <1>3, <3>2
  <2> QED BY <2>1, <2>2
<1>6. v = "PARTIAL" => ~(bad \in 1 .. Min({bd.kept, Limit}))
  BY <1>2 DEF Decisions, Verdicts
<1>7. answer'.kind \in {"block", "204", "echo"}
  BY <1>2 DEF AnswerTo, Block
<1>8. answer'.kind \in {"204", "echo"} =>
        \/ v = "OK"
        \/ v = "PARTIAL" /\ policy = "OK" /\ answer'.why = "PARTIAL" /\ (~bd.over \/ rq.allow204)
  BY <1>2 DEF AnswerTo, Decide, Block
<1>9. answer'.kind = "echo" => ~rq.allow204 BY <1>2 DEF AnswerTo, Block
<1>10. answer'.kind # "echo" => (bd.abandoned => answer'.close)
  BY <1>2 DEF AnswerTo, Block
<1>11. RequestTyped' BY <1>1 DEF RequestInv, RequestTyped
<1>12. Aligned'
  <2>1. bd.abandoned => answer'.close BY <1>3, <1>5, <1>7, <1>8, <1>9, <1>10
  <2> QED BY <1>1, <1>3, <2>1 DEF Aligned, AtRequestBoundary
<1>13. Accounted' BY <1>1 DEF Accounted
<1>14. PassedIsExamined'
  <2>1. v = "OK" => /\ bd.kept = bd.total /\ ~(bad \in 1 .. bd.total)
                    /\ rq.body => bd.end = "ieof" \/ stage # "preview"
    BY <1>3, <1>5
  <2>2. answer'.kind = "echo" => bd.kept = bd.total /\ ~bd.abandoned
    BY <1>3, <1>5, <1>8, <1>9
  <2> QED BY <1>1, <1>6, <1>8, <2>1, <2>2 DEF PassedIsExamined
<1> QED BY <1>11, <1>12, <1>13, <1>14 DEF RequestInv

\* The answer is sent.
LEMMA AnswerKeeps == ASSUME RequestInv, Answer PROVE RequestInv'
<1>1. /\ step = "answer" /\ step' \in {"closed", "head"}
      /\ step' = "head" => ~answer.close
      /\ at' = (IF at = "wait" THEN "head" ELSE at)
      /\ UNCHANGED <<rq, stage, chunk, bd, bad, answer, policy>>
  BY DEF Answer
<1>2. RequestTyped' BY <1>1 DEF RequestInv, RequestTyped
<1>3. Aligned' BY <1>1 DEF RequestInv, Aligned, AtRequestBoundary
<1>4. PassedIsExamined' BY <1>1 DEF RequestInv, PassedIsExamined
<1> QED BY <1>1, <1>2, <1>3, <1>4 DEF RequestInv, Accounted

\* Every step keeps the invariant.
LEMMA RequestStep ==
    RequestInv /\ [RequestNext]_requestVars => RequestInv'
<1> SUFFICES ASSUME RequestInv, [RequestNext]_requestVars PROVE RequestInv' OBVIOUS
<1>1. CASE \/ \E h \in Heads, b \in 0 .. MaxObject : ReadModify(h, b)
           \/ \E h \in Heads : ReadOptions(h)
           \/ RefuseHead \/ EndConnection
  BY <1>1, HeadKeeps
<1>2. ASSUME NEW k \in 1 .. MaxChunk, ChunkLine(k) PROVE RequestInv'
  BY <1>2, ChunkLineKeeps, RequestAssumption
<1>3. ASSUME NEW end \in {"eof", "ieof"}, LastChunk(end) PROVE RequestInv'
  BY <1>3, LastChunkKeeps
<1>4. ASSUME NEW n \in 1 .. MaxChunk, KeepData(n) \/ KeepRefused(n)
      PROVE  RequestInv'
  BY <1>4, DataKeeps, RequestAssumption
<1>5. CASE EndChunk
  <2>1. 0 \in Nat OBVIOUS
  <2> QED BY <1>5, <2>1, DataKeeps
<1>6. CASE Malformed \/ ReadFails \/ ClientHangsUp
  BY <1>6, FailureKeeps
<1>7. CASE ScanPreview BY <1>7, ScanPreviewKeeps
<1>8. CASE Scan BY <1>8, ScanKeeps
<1>9. CASE Answer BY <1>9, AnswerKeeps
<1>10. CASE UNCHANGED requestVars
  BY <1>10 DEF requestVars, RequestInv, RequestTyped, Aligned, Accounted, Due,
               AtRequestBoundary, PassedIsExamined
<1> QED
  BY <1>1, <1>2, <1>3, <1>4, <1>5, <1>6, <1>7, <1>8, <1>9, <1>10 DEF RequestNext

\* The invariant of every connection.
LEMMA RequestInvariant ==
    RequestSpec => []RequestInv
<1>1. RequestInv /\ [RequestNext]_requestVars => RequestInv' BY RequestStep
<1> QED BY <1>1, RequestStarts, PTL DEF RequestSpec

\* `serve_connection` never reads a byte of a body as a request's head, for any
\* chunks and limits and wherever a client hangs up, but for the body of an
\* OPTIONS request, which the code does not read.
THEOREM RequestsStayApart ==
    RequestSpec => []AtRequestBoundary
<1>1. RequestInv => AtRequestBoundary BY DEF RequestInv, Aligned
<1> QED BY <1>1, RequestInvariant, PTL

\* `modify` passes an object (204, or the message handed back) only where it was
\* kept whole and shows no malware, or where --partial-as ok waives the looking;
\* a message that is handed back is never cut short.
THEOREM PassingIsEarned ==
    RequestSpec => []PassedIsExamined
<1>1. RequestInv => PassedIsExamined BY DEF RequestInv
<1> QED BY <1>1, RequestInvariant, PTL

\* `modify` sends 100 Continue only to a client that waits for it after its
\* preview, and then reads the rest of the same body.
THEOREM ContinueIsInStep ==
    RequestSpec => ContinueIsAwaited
<1>1. RequestInv /\ [RequestNext]_requestVars =>
        [asked' /\ ~asked => at \in {"wait", "eof"} /\ at' \in {"chunk", "eof"}]_requestVars
  <2> SUFFICES ASSUME RequestInv, RequestNext, asked', ~asked
               PROVE  at \in {"wait", "eof"} /\ at' \in {"chunk", "eof"}
    OBVIOUS
  <2>1. ScanPreview
    BY DEF RequestNext, ReadModify, ReadOptions, RefuseHead,
           EndConnection, ChunkLine, LastChunk, KeepData,
           KeepRefused, EndChunk, Malformed, ReadFails,
           Scan, Answer, ClientHangsUp
  <2>2. at \in {"wait", "eof"} BY <2>1 DEF ScanPreview, RequestInv, Aligned
  <2>3. at' = IF at = "wait" THEN "chunk" ELSE at BY <2>1 DEF ScanPreview
  <2> QED BY <2>2, <2>3
<1> QED BY <1>1, RequestInvariant, PTL DEF RequestSpec, ContinueIsAwaited
=============================================================================
