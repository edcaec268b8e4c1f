----------------------------- MODULE IcapServer -----------------------------
(***************************************************************************)
(* The ICAP listener (icap/server.rs): the accept loop with its cap on     *)
(* live connections, one thread per connection with keep-alive, and the    *)
(* protocol by which a listener that is stopping closes the connections    *)
(* that wait for a request and lets the others finish (`Idle`).  What one  *)
(* request does is reduced to its outcome.                                 *)
(***************************************************************************)
EXTENDS Integers, FiniteSets

CONSTANTS
    Conns,           \* connections; one is used again once its thread is gone
    MaxConnections,  \* cfg.max_connections
    KeepAlive,       \* cfg.keepalive_requests
    CloneMayFail     \* a socket may fail to be registered (no descriptors left)

ASSUME IcapAssumption ==
    /\ IsFiniteSet(Conns)
    /\ MaxConnections \in Nat /\ KeepAlive \in Nat
    /\ CloneMayFail \in BOOLEAN

VARIABLES
    srv,      \* where the accept loop is
    live,     \* the count of live connections
    closing,  \* Idle.closing
    waiting,  \* Idle.waiting
    toShut,   \* `close_all`, under the lock: sockets still to shut down
    pc,       \* where each connection's thread is
    more,     \* `next_request` has seen a request begin
    served,   \* requests handled on the connection
    sent,     \* the client has sent (some of) a request not yet read
    peer,     \* the client still has its end open
    shut      \* `close_all` has shut the socket down

vars == <<srv, live, closing, waiting, toShut, pc, more, served, sent, peer, shut>>
loop == <<srv, live, closing, toShut>>
conn == <<more, served, sent, peer, shut>>

Init ==
    /\ srv = "serve" /\ live = 0 /\ closing = FALSE
    /\ waiting = {} /\ toShut = {}
    /\ pc = [c \in Conns |-> "free"]
    /\ more = [c \in Conns |-> FALSE]
    /\ served = [c \in Conns |-> 0]
    /\ sent = [c \in Conns |-> FALSE]
    /\ peer = [c \in Conns |-> FALSE]
    /\ shut = [c \in Conns |-> FALSE]

Serving == {c \in Conns : pc[c] # "free"}
Unlocked == srv # "walk"
Goes(c, from, to) == pc[c] = from /\ pc' = [pc EXCEPT ![c] = to]
-----------------------------------------------------------------------------
(***************************************************************************)
(* The accept loop, and `close_all`.                                       *)
(***************************************************************************)
\* Mutant of Accept: one connection too many.
AcceptOneMore(c) ==
    /\ srv = "serve" /\ pc[c] = "free"
    /\ live <= MaxConnections
    /\ live' = live + 1
    /\ pc' = [pc EXCEPT ![c] = "start"]
    /\ peer' = [peer EXCEPT ![c] = TRUE]
    /\ UNCHANGED <<srv, closing, waiting, toShut, more, served, sent, shut>>

\* A connection is accepted and counted; over the cap it is dropped at once,
\* which leaves nothing behind.
Accept(c) ==
    /\ srv = "serve" /\ pc[c] = "free"
    /\ live < MaxConnections
    /\ live' = live + 1
    /\ pc' = [pc EXCEPT ![c] = "start"]
    /\ peer' = [peer EXCEPT ![c] = TRUE]
    /\ UNCHANGED <<srv, closing, waiting, toShut, more, served, sent, shut>>

\* `wait` says to stop: the generation is retired.
Stop ==
    /\ srv = "serve"
    /\ srv' = "flag"
    /\ UNCHANGED <<live, closing, waiting, toShut, pc, conn>>

SetClosing ==
    /\ srv = "flag"
    /\ closing' = TRUE
    /\ srv' = "lock"
    /\ UNCHANGED <<live, waiting, toShut, pc, conn>>

TakeLock ==
    /\ srv = "lock"
    /\ srv' = "walk"
    /\ toShut' = waiting
    /\ UNCHANGED <<live, closing, waiting, pc, conn>>

ShutOne(c) ==
    /\ srv = "walk" /\ c \in toShut
    /\ toShut' = toShut \ {c}
    /\ shut' = [shut EXCEPT ![c] = TRUE]
    /\ UNCHANGED <<srv, live, closing, waiting, pc, more, served, sent, peer>>

Unlock ==
    /\ srv = "walk" /\ toShut = {}
    /\ srv' = "drain"
    /\ UNCHANGED <<live, closing, waiting, toShut, pc, conn>>

\* Mutant of Drained: the connections are not waited for.
DrainedAtOnce ==
    /\ srv = "drain"
    /\ srv' = "done"
    /\ UNCHANGED <<live, closing, waiting, toShut, pc, conn>>

\* The loop that waits for the live count to reach zero.
Drained ==
    /\ srv = "drain" /\ live = 0
    /\ srv' = "done"
    /\ UNCHANGED <<live, closing, waiting, toShut, pc, conn>>
-----------------------------------------------------------------------------
(***************************************************************************)
(* A connection's thread.                                                  *)
(***************************************************************************)
\* The socket is split in two; without a descriptor for that the thread ends.
Start(c) ==
    /\ \/ Goes(c, "start", IF KeepAlive > 0 THEN "register" ELSE "linger")
       \/ CloneMayFail /\ Goes(c, "start", "leave")
    /\ UNCHANGED <<loop, waiting, conn>>

\* `next_request`: register, under the lock,
Register(c) ==
    /\ Unlocked
    /\ Goes(c, "register", "check")
    /\ waiting' = waiting \cup {c}
    /\ UNCHANGED <<loop, conn>>

\* or go on unregistered,
RegisterFails(c) ==
    /\ CloneMayFail
    /\ Goes(c, "register", "check")
    /\ UNCHANGED <<loop, waiting, conn>>

\* Mutant of CheckClosing: the flag is not looked at.
CheckBlindly(c) ==
    /\ Goes(c, "check", "fill")
    /\ more' = [more EXCEPT ![c] = FALSE]
    /\ UNCHANGED <<loop, waiting, served, sent, peer, shut>>

\* then look at the flag,
CheckClosing(c) ==
    /\ Goes(c, "check", IF closing THEN "remove" ELSE "fill")
    /\ more' = [more EXCEPT ![c] = FALSE]
    /\ UNCHANGED <<loop, waiting, served, sent, peer, shut>>

\* and block until the request starts to arrive,
FillArrives(c) ==
    /\ sent[c]
    /\ Goes(c, "fill", "remove")
    /\ more' = [more EXCEPT ![c] = TRUE]
    /\ UNCHANGED <<loop, waiting, served, sent, peer, shut>>

\* the stream ends,
FillEnds(c) ==
    /\ shut[c] \/ (~peer[c] /\ ~sent[c])
    /\ Goes(c, "fill", "remove")
    /\ UNCHANGED <<loop, waiting, conn>>

\* or the idle timeout runs out.
FillTimeout(c) ==
    /\ Goes(c, "fill", "remove")
    /\ UNCHANGED <<loop, waiting, conn>>

\* Mutant of Remove: only a connection with a request is taken out.
RemoveAtEnd(c) ==
    /\ Unlocked
    /\ Goes(c, "remove", IF more[c] THEN "handle" ELSE "linger")
    /\ waiting' = IF more[c] THEN waiting \ {c} ELSE waiting
    /\ UNCHANGED <<loop, conn>>

\* The registration is taken back, under the lock.
Remove(c) ==
    /\ Unlocked
    /\ Goes(c, "remove", IF more[c] THEN "handle" ELSE "linger")
    /\ waiting' = waiting \ {c}
    /\ UNCHANGED <<loop, conn>>

\* `handle_request`: the request is read, and answered unless the socket was
\* shut down under it or the client has gone; the connection goes on if the
\* answer keeps it and the keep-alive limit allows.
Handle(c) ==
    /\ pc[c] = "handle"
    /\ served' = [served EXCEPT ![c] = @ + 1]
    /\ sent' = [sent EXCEPT ![c] = FALSE]
    /\ \/ pc' = [pc EXCEPT ![c] = "linger"]
       \/ /\ ~shut[c] /\ served'[c] < KeepAlive
          /\ pc' = [pc EXCEPT ![c] = "register"]
    /\ more' = [more EXCEPT ![c] = FALSE]
    /\ UNCHANGED <<loop, waiting, peer, shut>>

\* Something in the request handling panics: the thread unwinds.
Panic(c) ==
    /\ Goes(c, "handle", "leave")
    /\ UNCHANGED <<loop, waiting, conn>>

\* `lingering_close`: what the client still sends is read until its end, the
\* idle timeout, or 4 MiB.
LingeringClose(c) ==
    /\ Goes(c, "linger", "leave")
    /\ UNCHANGED <<loop, waiting, conn>>

\* Mutant of Leave: a thread that panicked is not counted off.
LeaveUnlessPanicked(c) ==
    /\ Goes(c, "leave", "free")
    /\ live' = IF more[c] THEN live ELSE live - 1
    /\ served' = [served EXCEPT ![c] = 0]
    /\ more' = [more EXCEPT ![c] = FALSE]
    /\ sent' = [sent EXCEPT ![c] = FALSE]
    /\ peer' = [peer EXCEPT ![c] = FALSE]
    /\ shut' = [shut EXCEPT ![c] = FALSE]
    /\ UNCHANGED <<srv, closing, toShut, waiting>>

\* LiveGuard's `drop`, however the thread ends.
Leave(c) ==
    /\ Goes(c, "leave", "free")
    /\ live' = live - 1
    /\ served' = [served EXCEPT ![c] = 0]
    /\ more' = [more EXCEPT ![c] = FALSE]
    /\ sent' = [sent EXCEPT ![c] = FALSE]
    /\ peer' = [peer EXCEPT ![c] = FALSE]
    /\ shut' = [shut EXCEPT ![c] = FALSE]
    /\ UNCHANGED <<srv, closing, toShut, waiting>>
-----------------------------------------------------------------------------
(***************************************************************************)
(* The client.  What it does once nothing will look at it is left out.     *)
(***************************************************************************)
ClientSends(c) ==
    /\ pc[c] \notin {"free", "linger", "leave"} /\ peer[c] /\ ~sent[c]
    /\ sent' = [sent EXCEPT ![c] = TRUE]
    /\ UNCHANGED <<loop, waiting, pc, more, served, peer, shut>>

ClientCloses(c) ==
    /\ pc[c] \notin {"free", "linger", "leave"} /\ peer[c]
    /\ peer' = [peer EXCEPT ![c] = FALSE]
    /\ UNCHANGED <<loop, waiting, pc, more, served, sent, shut>>

Thread(c) ==
    \/ Start(c)
    \/ Register(c)
    \/ RegisterFails(c)
    \/ CheckClosing(c)
    \/ FillArrives(c)
    \/ FillEnds(c)
    \/ FillTimeout(c)
    \/ Remove(c)
    \/ Handle(c)
    \/ Panic(c)
    \/ LingeringClose(c)
    \/ Leave(c)

Loop ==
    \/ SetClosing
    \/ TakeLock
    \/ \E c \in Conns : ShutOne(c)
    \/ Unlock
    \/ Drained

Next ==
    \/ Stop
    \/ Loop
    \/ \E c \in Conns : Accept(c) \/ Thread(c) \/ ClientSends(c) \/ ClientCloses(c)

\* Threads are scheduled, a request's handling returns, and `lingering_close`
\* gives up in time.  No client is relied on, and the idle timeout only by a
\* connection that could not be registered.
Runs(c) ==
    \/ Start(c)
    \/ CheckClosing(c)
    \/ FillArrives(c)
    \/ FillEnds(c)
    \/ c \notin waiting /\ FillTimeout(c)
    \/ Handle(c)
    \/ LingeringClose(c)
    \/ Leave(c)

\* The lock is handed on: a thread that waits for it gets it.
Locks(c) == Register(c) \/ Remove(c)

Fairness ==
    /\ WF_vars(Loop)
    /\ \A c \in Conns : WF_vars(Runs(c)) /\ SF_vars(Locks(c))

Spec == Init /\ [][Next]_vars

FairSpec == Spec /\ Fairness
-----------------------------------------------------------------------------
(***************************************************************************)
(* Properties                                                              *)
(***************************************************************************)
\* Type invariant.
TypeOK ==
    /\ srv \in {"serve", "flag", "lock", "walk", "drain", "done"}
    /\ live \in Int
    /\ closing \in BOOLEAN
    /\ waiting \subseteq Conns /\ toShut \subseteq Conns
    /\ pc \in [Conns -> {"free", "start", "register", "check", "fill", "remove", "handle",
                         "linger", "leave"}]
    /\ more \in [Conns -> BOOLEAN]
    /\ served \in [Conns -> 0..KeepAlive]
    /\ sent \in [Conns -> BOOLEAN] /\ peer \in [Conns -> BOOLEAN]
    /\ shut \in [Conns -> BOOLEAN]

\* The live count is the number of connection threads, whichever way each of
\* them ends, so the cap never leaks away.
LiveIsExact == live = Cardinality(Serving)

\* No more than max_connections are served at once.
WithinCapacity == Cardinality(Serving) <= MaxConnections

\* `run` returns only once every connection is done with ("finish the requests
\* in progress and return").
DoneMeansDrained == srv = "done" => Serving = {}

\* A registered socket belongs to a thread inside `next_request`: no clone of a
\* descriptor outlives its connection in the map, which would keep it open.
NoStaleRegistration ==
    \A c \in waiting : pc[c] \in {"check", "fill", "remove"}

\* "Either `close_all` sees this connection, or this sees the flag it set
\* first": once `close_all` has let go of the map, no registered connection is
\* blocked waiting for a request on a socket that was not shut down.
NoneLeftWaiting ==
    srv \in {"drain", "done"} =>
        \A c \in waiting : pc[c] = "fill" => shut[c]

\* A listener told to stop does, once every connection is done with: no
\* connection that waits for its next request holds the listener up, and this
\* rests neither on its client nor on its idle timeout.
StopEnds == srv # "serve" ~> srv = "done"
=============================================================================
