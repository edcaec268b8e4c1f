------------------------- MODULE SpillBudgetProofs -------------------------
(* Proofs about the spill budgets, for any number of connections and any    *)
(* limits.                                                                  *)
EXTENDS SpillBudget, FiniteSetTheorems, TLAPS

\* The state of the connections keeps its types (`charge`, `write_all`, `drop`).
THEOREM TypeCorrect == Spec => []TypeOK
<1>1. Init => TypeOK
  <2> SUFFICES ASSUME Init PROVE TypeOK
    OBVIOUS
  <2>1. short \in [Conns -> BOOLEAN]
    BY Zenon DEF Init
  <2> QED
    BY <2>1, SpillAssumption DEF Init, TypeOK
<1>2. TypeOK /\ [Next]_vars => TypeOK'
  <2> SUFFICES ASSUME TypeOK, [Next]_vars PROVE TypeOK'
    OBVIOUS
  <2> USE SpillAssumption DEF TypeOK
  <2>1. ASSUME NEW c \in Conns, NEW k \in 0..MaxSize, ReadHead(c, k) PROVE TypeOK'
    <3>1. ram' = [ram EXCEPT ![c] = Min2(k, Threshold)] /\ ram'[c] = Min2(k, Threshold)
      BY <2>1 DEF ReadHead
    <3>2. Min2(k, Threshold) \in 0..Threshold
      BY DEF Min2
    <3>3. Min2(k - ram'[c], Block) \in 0..Block
      BY <3>1 DEF Min2
    <3> QED
      BY <2>1, <3>1, <3>2, <3>3 DEF ReadHead, Goes
  <2>2. ASSUME NEW c \in Conns, Create(c) PROVE TypeOK'
    <3>1. short' \in [Conns -> BOOLEAN]
      BY <2>2, Zenon DEF Create
    <3>2. pc' \in [Conns -> {"idle", "create", "charge", "test", "swap", "write", "read",
                             "scan", "drop", "close"}]
      BY <2>2 DEF Create, Goes
    <3>3. n' \in [Conns -> Nat]
      BY <2>2 DEF Create
    <3> QED
      BY <2>2, <3>1, <3>2, <3>3 DEF Create
  <2>3. ASSUME NEW c \in Conns, ReadBlock(c) PROVE TypeOK'
    <3>1. n' \in [Conns -> Nat]
      BY <2>3 DEF ReadBlock
    <3>2. pc' = [pc EXCEPT ![c] = "scan"] \/ pc' = [pc EXCEPT ![c] = "charge"]
      BY <2>3 DEF ReadBlock
    <3>3. todo' = [todo EXCEPT ![c] = 0]
      BY <2>3 DEF ReadBlock
    <3>4. UNCHANGED <<inUse, size, ram, seen, charged, written, payload, short>>
      BY <2>3 DEF ReadBlock
    <3> QED
      BY <3>1, <3>2, <3>3, <3>4
  <2>4. ASSUME NEW c \in Conns, Refused(c)
        PROVE  /\ pc' = [pc EXCEPT ![c] = "scan"]
               /\ payload' \in [Conns -> {"mem", "disk"}]
               /\ short' \in [Conns -> BOOLEAN]
    BY <2>4 DEF Refused
  <2>5. ASSUME NEW c \in Conns, Charge(c) PROVE TypeOK'
    BY <2>4, <2>5 DEF Charge
  <2>6. ASSUME NEW c \in Conns, Test(c) PROVE TypeOK'
    BY <2>4, <2>6 DEF Test
  <2>7. ASSUME NEW c \in Conns, Swap(c) PROVE TypeOK'
    BY <2>7 DEF Swap
  <2>8. ASSUME NEW c \in Conns, Write(c) PROVE TypeOK'
    BY <2>8 DEF Write, Goes
  <2>9. ASSUME NEW c \in Conns, Fail(c) PROVE TypeOK'
    <3>1. written' \in [Conns -> Nat]
      BY <2>9 DEF Fail
    <3> QED
      BY <2>9, <3>1 DEF Fail
  <2>10. ASSUME NEW c \in Conns, Scan(c) PROVE TypeOK'
    BY <2>10 DEF Scan, Goes
  <2>11. ASSUME NEW c \in Conns, Drop(c) PROVE TypeOK'
    BY <2>11 DEF Drop, Goes
  <2>12. ASSUME NEW c \in Conns, Close(c) PROVE TypeOK'
    BY <2>12 DEF Close, Goes
  <2>13. CASE UNCHANGED vars
    BY <2>13 DEF vars
  <2> QED
    BY <2>1, <2>2, <2>3, <2>5, <2>6, <2>7, <2>8, <2>9, <2>10, <2>11, <2>12, <2>13 DEF Next
<1> QED
  BY <1>1, <1>2, PTL DEF Spec
-----------------------------------------------------------------------------
\* What makes the budgets inductive.  A connection past the per-object test
\* still fits under that ceiling; one about to swap goes by a value of IN_USE
\* that leaves it room; what it is about to write is already charged.
Fits(c) ==
    /\ charged[c] <= MaxObject
    /\ pc[c] \in {"test", "swap"} => charged[c] + n[c] <= MaxObject
    /\ pc[c] = "swap" => seen[c] + n[c] <= MaxTotal
    /\ pc[c] = "write" => written[c] + n[c] <= charged[c]
    /\ pc[c] # "close" => written[c] <= charged[c]

BudgetInv == inUse <= MaxTotal /\ \A c \in Conns : Fits(c)

\* One step keeps the budgets.
LEMMA BudgetStep ==
    ASSUME TypeOK, TypeOK', BudgetInv, [Next]_vars
    PROVE  BudgetInv'
<1> USE SpillAssumption DEF TypeOK, BudgetInv, Fits
<1>1. ASSUME NEW c \in Conns, NEW k \in 0..MaxSize, ReadHead(c, k) PROVE BudgetInv'
  BY <1>1 DEF ReadHead, Goes
<1>2. ASSUME NEW c \in Conns, Create(c) PROVE BudgetInv'
  BY <1>2 DEF Create, Goes
<1>3. ASSUME NEW c \in Conns, ReadBlock(c) PROVE BudgetInv'
  BY <1>3 DEF ReadBlock
<1>4. ASSUME NEW c \in Conns, Charge(c) PROVE BudgetInv'
  BY <1>4 DEF Charge, Refused
<1>5. ASSUME NEW c \in Conns, Test(c) PROVE BudgetInv'
  BY <1>5 DEF Test, Refused
<1>6. ASSUME NEW c \in Conns, Swap(c) PROVE BudgetInv'
  <2>1. CASE inUse = seen[c]
    BY <1>6, <2>1 DEF Swap
  <2>2. CASE inUse # seen[c]
    BY <1>6, <2>2 DEF Swap
  <2> QED
    BY <2>1, <2>2
<1>7. ASSUME NEW c \in Conns, Write(c) PROVE BudgetInv'
  BY <1>7 DEF Write, Goes
<1>8. ASSUME NEW c \in Conns, Fail(c) PROVE BudgetInv'
  <2>1. PICK k \in 0..(IF pc[c] = "write" THEN n[c] ELSE 0) :
              written' = [written EXCEPT ![c] = @ + k]
    BY <1>8 DEF Fail
  <2>2. written[c] + k <= charged[c]
    BY <1>8, <2>1 DEF Fail
  <2> QED
    BY <1>8, <2>1, <2>2 DEF Fail
<1>9. ASSUME NEW c \in Conns, Scan(c) PROVE BudgetInv'
  BY <1>9 DEF Scan, Goes
<1>10. ASSUME NEW c \in Conns, Drop(c) PROVE BudgetInv'
  BY <1>10 DEF Drop, Goes
<1>11. ASSUME NEW c \in Conns, Close(c) PROVE BudgetInv'
  BY <1>11 DEF Close, Goes
<1>12. CASE UNCHANGED vars
  BY <1>12 DEF vars
<1> QED
  BY <1>1, <1>2, <1>3, <1>4, <1>5, <1>6, <1>7, <1>8, <1>9, <1>10, <1>11, <1>12 DEF Next

\* `charge` never lets IN_USE past max_total or one file past max_object, and
\* nothing reaches a file before it is charged, for any number of connections
\* spilling at once: the compare-and-swap loop does what its comment says.
THEOREM BudgetsHold == Spec => [](WithinBudgets /\ ChargedBeforeWritten)
<1>1. Init => BudgetInv
  BY SpillAssumption DEF Init, BudgetInv, Fits
<1>2. TypeOK /\ TypeOK' /\ BudgetInv /\ [Next]_vars => BudgetInv'
  BY BudgetStep
<1>3. BudgetInv => WithinBudgets /\ ChargedBeforeWritten
  BY DEF BudgetInv, Fits, WithinBudgets, ChargedBeforeWritten
<1> QED
  BY <1>1, <1>2, <1>3, TypeCorrect, PTL DEF Spec
-----------------------------------------------------------------------------
\* The k bytes of one file that come after its first a.
BytesAfter(c, a, k) == {c} \X (a + 1 .. a + k)

\* They are k bytes.
LEMMA BytesOfOneFile ==
    ASSUME NEW c, NEW a \in Nat, NEW k \in Nat
    PROVE  IsFiniteSet(BytesAfter(c, a, k)) /\ Cardinality(BytesAfter(c, a, k)) = k
<1> USE DEF BytesAfter
<1>1. IsFiniteSet({c}) /\ Cardinality({c}) = 1
  BY FS_Singleton
<1>2. /\ IsFiniteSet(a + 1 .. a + k)
      /\ Cardinality(a + 1 .. a + k) = IF a + 1 > a + k THEN 0 ELSE (a + k) - (a + 1) + 1
  BY FS_Interval, a + 1 \in Int, a + k \in Int
<1>3. Cardinality(a + 1 .. a + k) = k
  BY <1>2
<1>4. /\ IsFiniteSet({c} \X (a + 1 .. a + k))
      /\ Cardinality({c} \X (a + 1 .. a + k)) = Cardinality({c}) * Cardinality(a + 1 .. a + k)
  BY <1>1, <1>2, FS_Product
<1> QED
  BY <1>1, <1>3, <1>4

\* Under the per-object ceiling the charged bytes of all files are finitely many.
LEMMA ChargedBytesFinite ==
    ASSUME TypeOK, BudgetInv
    PROVE  IsFiniteSet(ChargedBytes) /\ Cardinality(ChargedBytes) \in Nat
<1> USE SpillAssumption
<1>1. IsFiniteSet(Conns \X (1..MaxObject))
  <2>1. IsFiniteSet(1..MaxObject)
    BY FS_Interval, 1 \in Int, MaxObject \in Int
  <2> QED
    BY <2>1, FS_Product
<1>2. ChargedBytes \subseteq Conns \X (1..MaxObject)
  <2>1. \A c \in Conns : charged[c] \in Nat /\ charged[c] <= MaxObject
    BY DEF TypeOK, BudgetInv, Fits
  <2> QED
    BY <2>1 DEF ChargedBytes
<1>3. IsFiniteSet(ChargedBytes)
  BY <1>1, <1>2, FS_Subset
<1> QED
  BY <1>3, FS_CardinalityType

\* A file that is charged k bytes more adds exactly k bytes to the sum.
LEMMA ShareTaken ==
    ASSUME TypeOK, BudgetInv, NEW c \in Conns, NEW k \in Nat,
           charged' = [charged EXCEPT ![c] = @ + k]
    PROVE  Cardinality(ChargedBytes') = Cardinality(ChargedBytes) + k
<1> DEFINE new == BytesAfter(c, charged[c], k)
<1>1. charged \in [Conns -> Nat]
  BY DEF TypeOK
<1>2. IsFiniteSet(new) /\ Cardinality(new) = k
  <2>1. charged[c] \in Nat
    BY <1>1
  <2> QED
    BY <2>1, BytesOfOneFile
<1>3. \A b : b \in ChargedBytes' <=> \E d \in Conns : b \in {d} \X (1..charged'[d])
  BY DEF ChargedBytes
<1>4. \A b : b \in ChargedBytes <=> \E d \in Conns : b \in {d} \X (1..charged[d])
  BY DEF ChargedBytes
<1>5. charged'[c] = charged[c] + k /\ \A d \in Conns : d # c => charged'[d] = charged[d]
  BY <1>1
<1>6. {c} \X (1..charged'[c]) = ({c} \X (1..charged[c])) \cup new
  BY <1>1, <1>5 DEF BytesAfter
<1>7. ChargedBytes' = ChargedBytes \cup new
  <2>1. \A d \in Conns : {d} \X (1..charged'[d]) \subseteq ({d} \X (1..charged[d])) \cup new
    BY <1>5, <1>6
  <2>2. \A d \in Conns : {d} \X (1..charged[d]) \subseteq {d} \X (1..charged'[d])
    BY <1>5, <1>6
  <2>3. new \subseteq {c} \X (1..charged'[c])
    BY <1>6
  <2> HIDE DEF new
  <2>4. ASSUME NEW b \in ChargedBytes' PROVE b \in ChargedBytes \cup new
    BY <1>3, <1>4, <2>1
  <2>5. ASSUME NEW b \in ChargedBytes PROVE b \in ChargedBytes'
    BY <1>3, <1>4, <2>2
  <2>6. ASSUME NEW b \in new PROVE b \in ChargedBytes'
    BY <1>3, <2>3
  <2> QED
    BY <2>4, <2>5, <2>6
<1>8. ChargedBytes \cap new = {}
  <2>1. \A d \in Conns : ({d} \X (1..charged[d])) \cap new = {}
    BY <1>1 DEF BytesAfter
  <2> QED
    BY <1>4, <2>1
<1> HIDE DEF new
<1>9. Cardinality(ChargedBytes \cup new) =
          Cardinality(ChargedBytes) + Cardinality(new) - Cardinality(ChargedBytes \cap new)
  BY <1>2, ChargedBytesFinite, FS_Union
<1>10. Cardinality(ChargedBytes \cap new) = 0
  BY <1>8, FS_EmptySet
<1>11. Cardinality(ChargedBytes) \in Nat
  BY ChargedBytesFinite
<1> QED
  BY <1>2, <1>7, <1>9, <1>10, <1>11

\* A file that is dropped takes exactly its own bytes out of the sum.
LEMMA ShareGivenBack ==
    ASSUME TypeOK, BudgetInv, NEW c \in Conns,
           charged' = [charged EXCEPT ![c] = 0]
    PROVE  Cardinality(ChargedBytes') = Cardinality(ChargedBytes) - charged[c]
<1> DEFINE own == {c} \X (1 .. charged[c])
<1>1. charged \in [Conns -> Nat]
  BY DEF TypeOK
<1>2. IsFiniteSet(own) /\ Cardinality(own) = charged[c]
  <2>1. charged[c] \in Nat
    BY <1>1
  <2>2. /\ IsFiniteSet(BytesAfter(c, 0, charged[c]))
        /\ Cardinality(BytesAfter(c, 0, charged[c])) = charged[c]
    BY <2>1, BytesOfOneFile, 0 \in Nat
  <2>3. own = BytesAfter(c, 0, charged[c])
    BY <2>1 DEF BytesAfter
  <2> QED
    BY <2>2, <2>3
<1>3. \A b : b \in ChargedBytes' <=> \E d \in Conns : b \in {d} \X (1..charged'[d])
  BY DEF ChargedBytes
<1>4. \A b : b \in ChargedBytes <=> \E d \in Conns : b \in {d} \X (1..charged[d])
  BY DEF ChargedBytes
<1>5. \A d \in Conns : charged'[d] = IF d = c THEN 0 ELSE charged[d]
  BY <1>1
<1>6. {c} \X (1..charged'[c]) = {}
  BY <1>5
<1>7. \A d \in Conns : d # c => ({d} \X (1..charged[d])) \cap own = {}
  OBVIOUS
<1>8. ChargedBytes' = ChargedBytes \ own
  <2>1. ASSUME NEW b \in ChargedBytes' PROVE b \in ChargedBytes \ own
    <3>1. PICK d \in Conns : b \in {d} \X (1..charged'[d])
      BY <1>3
    <3>2. d # c
      BY <1>6, <3>1
    <3> HIDE DEF own
    <3> QED
      BY <1>4, <1>5, <1>7, <3>1, <3>2
  <2>2. ASSUME NEW b \in ChargedBytes \ own PROVE b \in ChargedBytes'
    <3>1. PICK d \in Conns : b \in {d} \X (1..charged[d])
      BY <1>4
    <3>2. d # c
      BY <2>2, <3>1
    <3> QED
      BY <1>3, <1>5, <3>1, <3>2
  <2> HIDE DEF own
  <2> QED
    BY <2>1, <2>2
<1>9. own \subseteq ChargedBytes
  BY <1>4
<1> HIDE DEF own
<1>10. ChargedBytes \cap own = own
  BY <1>9
<1>11. Cardinality(ChargedBytes \ own) = Cardinality(ChargedBytes) - Cardinality(ChargedBytes \cap own)
  BY ChargedBytesFinite, FS_Difference
<1> QED
  BY <1>2, <1>8, <1>10, <1>11

\* One step keeps the sum: only a swap that succeeds and a drop move it.
LEMMA ExactStep ==
    ASSUME TypeOK, BudgetInv, BudgetIsExact, [Next]_vars
    PROVE  BudgetIsExact'
<1>1. ASSUME UNCHANGED <<charged, inUse>> PROVE BudgetIsExact'
  BY <1>1 DEF BudgetIsExact, ChargedBytes
<1>2. ASSUME NEW c \in Conns, NEW k \in 0..MaxSize, ReadHead(c, k) PROVE BudgetIsExact'
  BY <1>1, <1>2 DEF ReadHead
<1>3. ASSUME NEW c \in Conns,
             \/ Create(c) \/ ReadBlock(c) \/ Charge(c) \/ Test(c) \/ Write(c)
             \/ Fail(c) \/ Scan(c) \/ Close(c)
      PROVE  BudgetIsExact'
  BY <1>1, <1>3 DEF Create, ReadBlock, Charge, Test, Write, Fail, Scan, Close
<1>4. ASSUME NEW c \in Conns, Swap(c) PROVE BudgetIsExact'
  <2>1. CASE inUse = seen[c]
    <3>1. inUse' = inUse + n[c] /\ charged' = [charged EXCEPT ![c] = @ + n[c]]
      BY <1>4, <2>1 DEF Swap
    <3>2. n[c] \in Nat
      BY DEF TypeOK
    <3>3. Cardinality(ChargedBytes') = Cardinality(ChargedBytes) + n[c]
      BY <3>1, <3>2, ShareTaken
    <3> QED
      BY <3>1, <3>3 DEF BudgetIsExact
  <2>2. CASE inUse # seen[c]
    BY <1>1, <1>4, <2>2 DEF Swap
  <2> QED
    BY <2>1, <2>2
<1>5. ASSUME NEW c \in Conns, Drop(c) PROVE BudgetIsExact'
  <2>1. inUse' = inUse - charged[c] /\ charged' = [charged EXCEPT ![c] = 0]
    BY <1>5 DEF Drop
  <2>2. Cardinality(ChargedBytes') = Cardinality(ChargedBytes) - charged[c]
    BY <2>1, ShareGivenBack
  <2> QED
    BY <2>1, <2>2 DEF BudgetIsExact
<1>6. CASE UNCHANGED vars
  BY <1>1, <1>6 DEF vars
<1> QED
  BY <1>2, <1>3, <1>4, <1>5, <1>6 DEF Next

\* IN_USE is exact for any finite number of connections: whatever `charge`
\* takes, `drop` gives back, once, on every path out of a request.
THEOREM BudgetIsKeptExact == Spec => []BudgetIsExact
<1>1. Init => BudgetIsExact
  <2> SUFFICES ASSUME Init PROVE BudgetIsExact
    OBVIOUS
  <2>1. \A c \in Conns : {c} \X (1..charged[c]) = {}
    BY DEF Init
  <2>2. ChargedBytes = {}
    BY <2>1 DEF ChargedBytes
  <2> QED
    BY <2>2, FS_EmptySet DEF Init, BudgetIsExact
<1>2. Init => BudgetInv
  BY SpillAssumption DEF Init, BudgetInv, Fits
<1>3. TypeOK /\ TypeOK' /\ BudgetInv /\ [Next]_vars => BudgetInv'
  BY BudgetStep
<1>4. TypeOK /\ BudgetInv /\ BudgetIsExact /\ [Next]_vars => BudgetIsExact'
  BY ExactStep
<1> QED
  BY <1>1, <1>2, <1>3, <1>4, TypeCorrect, PTL DEF Spec
-----------------------------------------------------------------------------
\* What makes WholeOrShort inductive: a connection that reads blocks holds its
\* object in the file, and one on its way to the file starts from RAM.
WholeInv ==
    \A c \in Conns :
        /\ pc[c] = "read" => payload[c] = "disk"
        /\ pc[c] = "scan" /\ ~short[c] => Held(c) = size[c]

\* One step keeps an object whole or marked short.
LEMMA WholeStep ==
    ASSUME TypeOK, TypeOK', WholeInv, [Next]_vars
    PROVE  WholeInv'
<1> USE SpillAssumption DEF TypeOK, WholeInv, Held
<1>1. ASSUME NEW c \in Conns, NEW k \in 0..MaxSize, ReadHead(c, k) PROVE WholeInv'
  <2>1. k <= Threshold => ram'[c] = k
    BY <1>1 DEF ReadHead, Min2
  <2>2. size'[c] = k /\ payload'[c] = "mem" /\ pc'[c] = (IF k <= Threshold THEN "scan" ELSE "create")
    BY <1>1 DEF ReadHead, Goes
  <2>3. \A d \in Conns : d # c => /\ size'[d] = size[d] /\ payload'[d] = payload[d]
                                  /\ pc'[d] = pc[d] /\ ram'[d] = ram[d]
                                  /\ written'[d] = written[d] /\ short'[d] = short[d]
    BY <1>1 DEF ReadHead, Goes
  <2> QED
    BY <2>1, <2>2, <2>3
<1>2. ASSUME NEW c \in Conns, Create(c) PROVE WholeInv'
  <2>1. pc'[c] = "charge" \/ (pc'[c] = "scan" /\ short'[c])
    <3>1. pc' = [pc EXCEPT ![c] = IF Enabled THEN "charge" ELSE "scan"]
      BY <1>2 DEF Create, Goes
    <3>2. ~Enabled => short'[c]
      BY <1>2, Zenon DEF Create, TypeOK
    <3>3. CASE Enabled
      BY <3>1, <3>3
    <3>4. CASE ~Enabled
      BY <3>1, <3>2, <3>4
    <3> QED
      BY <3>3, <3>4
  <2>2. \A d \in Conns : d # c => pc'[d] = pc[d] /\ short'[d] = short[d]
    BY <1>2 DEF Create, Goes
  <2> QED
    BY <1>2, <2>1, <2>2 DEF Create
<1>3. ASSUME NEW c \in Conns, ReadBlock(c) PROVE WholeInv'
  BY <1>3 DEF ReadBlock
<1>4. ASSUME NEW c \in Conns, Charge(c) PROVE WholeInv'
  BY <1>4 DEF Charge, Refused
<1>5. ASSUME NEW c \in Conns, Test(c) PROVE WholeInv'
  BY <1>5 DEF Test, Refused
<1>6. ASSUME NEW c \in Conns, Swap(c) PROVE WholeInv'
  BY <1>6 DEF Swap
<1>7. ASSUME NEW c \in Conns, Write(c) PROVE WholeInv'
  BY <1>7 DEF Write, Goes
<1>8. ASSUME NEW c \in Conns, Fail(c) PROVE WholeInv'
  BY <1>8 DEF Fail
<1>9. ASSUME NEW c \in Conns, Scan(c) PROVE WholeInv'
  BY <1>9 DEF Scan, Goes
<1>10. ASSUME NEW c \in Conns, Drop(c) PROVE WholeInv'
  BY <1>10 DEF Drop, Goes
<1>11. ASSUME NEW c \in Conns, Close(c) PROVE WholeInv'
  BY <1>11 DEF Close, Goes
<1>12. CASE UNCHANGED vars
  BY <1>12 DEF vars
<1> QED
  BY <1>1, <1>2, <1>3, <1>4, <1>5, <1>6, <1>7, <1>8, <1>9, <1>10, <1>11, <1>12 DEF Next

\* No client's object is scanned in part and answered for as if it were whole,
\* whatever the budgets refuse (`Held.short`).
THEOREM NothingPassesForWhole == Spec => []WholeOrShort
<1>1. Init => WholeInv
  BY DEF Init, WholeInv
<1>2. TypeOK /\ TypeOK' /\ WholeInv /\ [Next]_vars => WholeInv'
  BY WholeStep
<1>3. WholeInv => WholeOrShort
  BY DEF WholeInv, WholeOrShort
<1> QED
  BY <1>1, <1>2, <1>3, TypeCorrect, PTL DEF Spec
-----------------------------------------------------------------------------
\* Only a swap that succeeds and a drop move the ledger.
LEMMA LedgerStep ==
    ASSUME TypeOK, BudgetInv, [Next]_vars
    PROVE  [Ledger!Next]_<<charged, inUse>>
<1> USE SpillAssumption DEF TypeOK
<1>1. ASSUME NEW c \in Conns, NEW k \in 0..MaxSize, ReadHead(c, k)
      PROVE  UNCHANGED <<charged, inUse>>
  BY <1>1 DEF ReadHead
<1>2. ASSUME NEW c \in Conns,
             \/ Create(c) \/ ReadBlock(c) \/ Charge(c) \/ Test(c) \/ Write(c)
             \/ Fail(c) \/ Scan(c) \/ Close(c)
      PROVE  UNCHANGED <<charged, inUse>>
  BY <1>2 DEF Create, ReadBlock, Charge, Test, Write, Fail, Scan, Close
<1>3. ASSUME NEW c \in Conns, Swap(c) PROVE [Ledger!Next]_<<charged, inUse>>
  <2>1. CASE inUse = seen[c]
    <3>1. charged[c] + n[c] <= MaxObject /\ inUse + n[c] <= MaxTotal
      BY <1>3, <2>1 DEF Swap, BudgetInv, Fits
    <3>2. n[c] \in 0 .. MaxObject
      BY <3>1
    <3>3. Ledger!Take(c, n[c])
      BY <1>3, <2>1, <3>1 DEF Swap, Ledger!Take
    <3> QED
      BY <3>2, <3>3 DEF Ledger!Next
  <2>2. CASE inUse # seen[c]
    BY <1>3, <2>2 DEF Swap
  <2> QED
    BY <2>1, <2>2
<1>4. ASSUME NEW c \in Conns, Drop(c) PROVE Ledger!Next
  <2>1. Ledger!GiveBack(c)
    BY <1>4 DEF Drop, Ledger!GiveBack
  <2> QED
    BY <2>1 DEF Ledger!Next
<1>5. CASE UNCHANGED vars
  BY <1>5 DEF vars
<1> QED
  BY <1>1, <1>2, <1>3, <1>4, <1>5 DEF Next

\* The budgets implement the ledger, for any number of connections and any
\* limits: `charge`, a compare-and-swap loop over an atomic that every
\* connection uses, takes its share as if in one step.
THEOREM BudgetsImplementLedger == Spec => ImplementsLedger
<1>1. Init => Ledger!Init
  BY DEF Init, Ledger!Init
<1>2. Init => BudgetInv
  BY SpillAssumption DEF Init, BudgetInv, Fits
<1>3. TypeOK /\ TypeOK' /\ BudgetInv /\ [Next]_vars => BudgetInv'
  BY BudgetStep
<1>4. TypeOK /\ BudgetInv /\ [Next]_vars => [Ledger!Next]_<<charged, inUse>>
  BY LedgerStep
<1> QED
  BY <1>1, <1>2, <1>3, <1>4, TypeCorrect, PTL DEF Spec, ImplementsLedger, Ledger!Spec
=============================================================================
