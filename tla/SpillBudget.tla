---------------------------- MODULE SpillBudget ----------------------------
(***************************************************************************)
(* The spill budgets (spill.rs) and the two callers that buffer a client's *)
(* object under them: `buffer_to_seekable` (daemon.rs, the INSTREAM verbs) *)
(* and `Body::write` (icap/chunked.rs).  Each connection is a thread of    *)
(* one process; they share the counter IN_USE.                             *)
(***************************************************************************)
EXTENDS Integers, FiniteSets

CONSTANTS
    Conns,      \* connection threads
    Icap,       \* those of them that serve ICAP; the others serve INSTREAM
    Enabled,    \* cfg.enabled: an object may go to disk
    Threshold,  \* cfg.threshold
    MaxObject,  \* cfg.max_object
    MaxTotal,   \* cfg.max_total
    Block,      \* bytes the reader hands over at a time, at most
    MaxSize     \* bound: the largest object sent

ASSUME SpillAssumption ==
    /\ IsFiniteSet(Conns) /\ Icap \subseteq Conns
    /\ Enabled \in BOOLEAN
    /\ Threshold \in Nat /\ MaxObject \in Nat /\ MaxTotal \in Nat
    /\ Block \in Nat \ {0} /\ MaxSize \in Nat

VARIABLES
    inUse,    \* IN_USE
    pc,       \* where each connection is
    size,     \* the object's size, as sent
    ram,      \* bytes of the head in RAM
    todo,     \* INSTREAM: the block read to see whether there is more
    n,        \* bytes of the `write_all` under way
    seen,     \* the value of IN_USE it goes by
    charged,  \* SpillFile.charged
    written,  \* bytes in the file
    payload,  \* where the object is held: "mem" or "disk"
    short     \* a budget refused the rest of it

vars == <<inUse, pc, size, ram, todo, n, seen, charged, written, payload, short>>

Min2(a, b) == IF a < b THEN a ELSE b

Init ==
    /\ inUse = 0
    /\ pc = [c \in Conns |-> "idle"]
    /\ size = [c \in Conns |-> 0]
    /\ ram = [c \in Conns |-> 0]
    /\ todo = [c \in Conns |-> 0]
    /\ n = [c \in Conns |-> 0]
    /\ seen = [c \in Conns |-> 0]
    /\ charged = [c \in Conns |-> 0]
    /\ written = [c \in Conns |-> 0]
    /\ payload = [c \in Conns |-> "mem"]
    /\ short = [c \in Conns |-> FALSE]

Goes(c, from, to) == pc[c] = from /\ pc' = [pc EXCEPT ![c] = to]
-----------------------------------------------------------------------------
(***************************************************************************)
(* Reading the object.                                                     *)
(***************************************************************************)
\* The head, up to the threshold, stays in RAM; an object that ends there is
\* scanned from RAM.  One more byte and a file is asked for.
ReadHead(c, k) ==
    /\ Goes(c, "idle", IF k <= Threshold THEN "scan" ELSE "create")
    /\ size' = [size EXCEPT ![c] = k]
    /\ ram' = [ram EXCEPT ![c] = Min2(k, Threshold)]
    /\ todo' = [todo EXCEPT ![c] = IF c \in Icap THEN 0 ELSE Min2(k - ram'[c], Block)]
    /\ payload' = [payload EXCEPT ![c] = "mem"]
    /\ UNCHANGED <<inUse, n, seen, charged, written, short>>

\* SpillFile::create, refused where spilling is off; then the head is written.
Create(c) ==
    /\ Goes(c, "create", IF Enabled THEN "charge" ELSE "scan")
    /\ short' = [short EXCEPT ![c] = ~Enabled]
    /\ n' = [n EXCEPT ![c] = ram[c]]
    /\ UNCHANGED <<inUse, size, ram, todo, seen, charged, written, payload>>

\* The next block of the object, or its end.
ReadBlock(c) ==
    /\ pc[c] = "read"
    /\ IF written[c] = size[c]
       THEN pc' = [pc EXCEPT ![c] = "scan"] /\ UNCHANGED n
       ELSE /\ pc' = [pc EXCEPT ![c] = "charge"]
            /\ \E k \in 1..Min2(size[c] - written[c], Block) :
                  /\ todo[c] > 0 => k = todo[c]
                  /\ n' = [n EXCEPT ![c] = k]
    /\ todo' = [todo EXCEPT ![c] = 0]
    /\ UNCHANGED <<inUse, size, ram, seen, charged, written, payload, short>>
-----------------------------------------------------------------------------
(***************************************************************************)
(* SpillFile::write_all: `charge`, then the write.                         *)
(***************************************************************************)
\* Mutant of Refused: the object passes for a complete one.
RefusedSilently(c) ==
    /\ payload' = [payload EXCEPT ![c] = IF c \in Icap THEN @ ELSE "disk"]
    /\ pc' = [pc EXCEPT ![c] = "scan"]
    /\ UNCHANGED short

\* A budget said no.  `buffer_to_seekable` scans what the file holds; a `Body`
\* whose head was refused has no file yet, and still has its head.
Refused(c) ==
    /\ short' = [short EXCEPT ![c] = TRUE]
    /\ payload' = [payload EXCEPT ![c] = IF c \in Icap THEN @ ELSE "disk"]
    /\ pc' = [pc EXCEPT ![c] = "scan"]

\* The per-object ceiling, then the first load of IN_USE.
Charge(c) ==
    /\ pc[c] = "charge"
    /\ IF charged[c] + n[c] > MaxObject
       THEN Refused(c) /\ UNCHANGED seen
       ELSE /\ pc' = [pc EXCEPT ![c] = "test"]
            /\ seen' = [seen EXCEPT ![c] = inUse]
            /\ UNCHANGED <<payload, short>>
    /\ UNCHANGED <<inUse, size, ram, todo, n, charged, written>>

\* The closure of `fetch_update`, on the value last seen.
Test(c) ==
    /\ pc[c] = "test"
    /\ IF seen[c] + n[c] > MaxTotal
       THEN Refused(c)
       ELSE pc' = [pc EXCEPT ![c] = "swap"] /\ UNCHANGED <<payload, short>>
    /\ UNCHANGED <<inUse, size, ram, todo, n, seen, charged, written>>

\* Mutant of Swap: a load followed by an add.
SwapBlindly(c) ==
    /\ pc[c] = "swap"
    /\ pc' = [pc EXCEPT ![c] = "write"]
    /\ inUse' = inUse + n[c]
    /\ charged' = [charged EXCEPT ![c] = @ + n[c]]
    /\ UNCHANGED <<size, ram, todo, n, seen, written, payload, short>>

\* The compare-and-swap of `fetch_update`; when it fails it goes by the value
\* it found.
Swap(c) ==
    /\ pc[c] = "swap"
    /\ IF inUse = seen[c]
       THEN /\ pc' = [pc EXCEPT ![c] = "write"]
            /\ inUse' = inUse + n[c]
            /\ charged' = [charged EXCEPT ![c] = @ + n[c]]
            /\ UNCHANGED seen
       ELSE /\ pc' = [pc EXCEPT ![c] = "test"]
            /\ seen' = [seen EXCEPT ![c] = inUse]
            /\ UNCHANGED <<inUse, charged>>
    /\ UNCHANGED <<size, ram, todo, n, written, payload, short>>

Write(c) ==
    /\ Goes(c, "write", "read")
    /\ written' = [written EXCEPT ![c] = @ + n[c]]
    /\ payload' = [payload EXCEPT ![c] = "disk"]
    /\ UNCHANGED <<inUse, size, ram, todo, n, seen, charged, short>>

\* The temp filesystem fails, creating the file or part-way through a write,
\* or the client goes away: the object is given up without a scan.
Fail(c) ==
    /\ pc[c] \in {"create", "write", "read"}
    /\ pc' = [pc EXCEPT ![c] = "drop"]
    /\ \E k \in 0..(IF pc[c] = "write" THEN n[c] ELSE 0) :
          written' = [written EXCEPT ![c] = @ + k]
    /\ UNCHANGED <<inUse, size, ram, todo, n, seen, charged, payload, short>>
-----------------------------------------------------------------------------
(***************************************************************************)
(* The scan, and the end of the payload.                                   *)
(***************************************************************************)
Scan(c) ==
    /\ Goes(c, "scan", "drop")
    /\ UNCHANGED <<inUse, size, ram, todo, n, seen, charged, written, payload, short>>

\* Mutant of Drop: the share is given back only when the object was whole.
DropWhenWhole(c) ==
    /\ Goes(c, "drop", "close")
    /\ inUse' = IF short[c] THEN inUse ELSE inUse - charged[c]
    /\ charged' = [charged EXCEPT ![c] = 0]
    /\ UNCHANGED <<size, ram, todo, n, seen, written, payload, short>>

\* Mutant of Drop: the share is given back a block at a time.
DropByBlocks(c) ==
    /\ pc[c] = "drop"
    /\ pc' = [pc EXCEPT ![c] = IF charged[c] > Block THEN "drop" ELSE "close"]
    /\ inUse' = inUse - Min2(charged[c], Block)
    /\ charged' = [charged EXCEPT ![c] = @ - Min2(@, Block)]
    /\ UNCHANGED <<size, ram, todo, n, seen, written, payload, short>>

\* `impl Drop for SpillFile`: IN_USE.fetch_sub.
Drop(c) ==
    /\ Goes(c, "drop", "close")
    /\ inUse' = inUse - charged[c]
    /\ charged' = [charged EXCEPT ![c] = 0]
    /\ UNCHANGED <<size, ram, todo, n, seen, written, payload, short>>

\* The file itself is a field of SpillFile, dropped after `drop` has returned.
Close(c) ==
    /\ Goes(c, "close", "idle")
    /\ written' = [written EXCEPT ![c] = 0]
    /\ size' = [size EXCEPT ![c] = 0]
    /\ ram' = [ram EXCEPT ![c] = 0]
    /\ todo' = [todo EXCEPT ![c] = 0]
    /\ n' = [n EXCEPT ![c] = 0]
    /\ seen' = [seen EXCEPT ![c] = 0]
    /\ payload' = [payload EXCEPT ![c] = "mem"]
    /\ short' = [short EXCEPT ![c] = FALSE]
    /\ UNCHANGED <<inUse, charged>>

Next == \E c \in Conns :
    \/ \E k \in 0..MaxSize : ReadHead(c, k)
    \/ Create(c)
    \/ ReadBlock(c)
    \/ Charge(c)
    \/ Test(c)
    \/ Swap(c)
    \/ Write(c)
    \/ Fail(c)
    \/ Scan(c)
    \/ Drop(c)
    \/ Close(c)

Spec == Init /\ [][Next]_vars
-----------------------------------------------------------------------------
(***************************************************************************)
(* Properties                                                              *)
(***************************************************************************)
\* Type invariant.  IN_USE unsigned is part of BudgetIsExact.
TypeOK ==
    /\ inUse \in Int
    /\ pc \in [Conns -> {"idle", "create", "charge", "test", "swap", "write", "read",
                         "scan", "drop", "close"}]
    /\ size \in [Conns -> 0..MaxSize]
    /\ ram \in [Conns -> 0..Threshold]
    /\ todo \in [Conns -> 0..Block]
    /\ n \in [Conns -> Nat]
    /\ seen \in [Conns -> Int]
    /\ charged \in [Conns -> Nat]
    /\ written \in [Conns -> Nat]
    /\ payload \in [Conns -> {"mem", "disk"}]
    /\ short \in [Conns -> BOOLEAN]

\* What the scan of c is given.
Held(c) == IF payload[c] = "mem" THEN ram[c] ELSE written[c]

\* The bytes charged to the live files, one by one.
ChargedBytes == UNION {{c} \X (1..charged[c]) : c \in Conns}

\* IN_USE is the sum of the shares of the live files, on every path out of a
\* request: nothing leaks, nothing is given back twice.
BudgetIsExact == inUse = Cardinality(ChargedBytes)

\* "a budget checked afterwards has already been exceeded": neither budget is
\* ever exceeded by what is charged, however the connections interleave
\* ("the budget that exists to bound concurrent use would be the one thing
\* concurrency defeats").
WithinBudgets ==
    /\ inUse <= MaxTotal
    /\ \A c \in Conns : charged[c] <= MaxObject

\* Nothing is written that was not charged first, up to the file's release.
ChargedBeforeWritten ==
    \A c \in Conns : pc[c] # "close" => written[c] <= charged[c]

\* An object is scanned whole, or its verdict says that it was not.
WholeOrShort ==
    \A c \in Conns : pc[c] = "scan" /\ ~short[c] => Held(c) = size[c]

\* `charge` and `drop` are atomic to every observer: the budgets implement
\* SpillLedger, where a share is taken, and given back, in a single step.
Ledger == INSTANCE SpillLedger WITH
    Files <- Conns, share <- charged, sum <- inUse

ImplementsLedger == Ledger!Spec
=============================================================================
