--------------------------- MODULE WakePipeProofs ---------------------------
(* Proofs about the self-pipe, for any set of callers and any number of     *)
(* flags, whether or not the machine delays the store to WAKE_PENDING.      *)
EXTENDS WakePipe, FiniteSetTheorems, TLAPS

\* The self-pipe starts well typed.
LEMMA InitTyped == Init => TypeOK
<1> SUFFICES ASSUME Init PROVE TypeOK
  OBVIOUS
<1>1. pending \in BOOLEAN /\ buffered \in BOOLEAN
  BY Zenon DEF Init
<1> QED
  BY <1>1, WakeAssumption DEF Init, TypeOK, Kinds

\* The state of the self-pipe keeps its types (`wake`, `nap`).
THEOREM TypeCorrect == Spec => []TypeOK
<1>1. Init => TypeOK
  BY InitTyped
<1>2. TypeOK /\ [Next]_vars => TypeOK'
  <2> SUFFICES ASSUME TypeOK, [Next]_vars PROVE TypeOK'
    OBVIOUS
  <2> USE WakeAssumption DEF TypeOK, Kinds
  <2>1. ASSUME NEW s \in Signallers, NEW k \in Kinds, Raise(s, k) PROVE TypeOK'
    BY <2>1 DEF Raise
  <2>2. ASSUME NEW s \in Signallers, Swap(s) PROVE TypeOK'
    BY <2>2 DEF Swap
  <2>3. ASSUME NEW s \in Signallers, WriteByte(s) PROVE TypeOK'
    BY <2>3 DEF WriteByte
  <2>4. CASE PollReadable
    BY <2>4 DEF PollReadable
  <2>5. CASE PollTimeout
    BY <2>5 DEF PollTimeout
  <2>6. CASE Drain
    BY <2>6 DEF Drain
  <2>7. CASE Clear
    <3>1. pending' \in BOOLEAN /\ buffered' \in BOOLEAN
      BY <2>7, Zenon DEF Clear
    <3> QED
      BY <2>7, <3>1 DEF Clear
  <2>8. CASE Flush
    <3>1. pending' \in BOOLEAN /\ buffered' \in BOOLEAN
      BY <2>8, Zenon DEF Flush
    <3> QED
      BY <2>8, <3>1 DEF Flush
  <2>9. CASE Serve
    <3>1. CASE at \in Kinds /\ raised' = raised \ {at} /\ at' = at + 1
      <4>1. at' \in 1..(NKinds + 1)
        BY <3>1
      <4>2. sup' \in {"poll", "serve", "done"}
        BY <2>9 DEF Serve
      <4> QED
        BY <2>9, <3>1, <4>1, <4>2 DEF Serve
    <3>2. CASE sup' = "poll" /\ UNCHANGED <<raised, at>>
      BY <2>9, <3>2 DEF Serve
    <3> QED
      BY <2>9, <3>1, <3>2 DEF Serve
  <2>10. CASE UNCHANGED vars
    BY <2>10 DEF vars
  <2> QED
    BY <2>1, <2>2, <2>3, <2>4, <2>5, <2>6, <2>7, <2>8, <2>9, <2>10 DEF Next
<1> QED
  BY <1>1, <1>2, PTL DEF Spec
-----------------------------------------------------------------------------
\* What makes NoLostWakeup inductive: a set WAKE_PENDING, unless a store that
\* clears it is on its way, is backed by a byte or by a caller about to write
\* one.
WakeInv ==
    /\ TypeOK
    /\ PendingIsBacked
    /\ NoLostWakeup

\* One step of the self-pipe keeps WakeInv.
LEMMA WakeStep ==
    ASSUME WakeInv, TypeOK', [Next]_vars
    PROVE  WakeInv'
<1> USE DEF WakeInv, TypeOK, Kinds, PendingIsBacked, NoLostWakeup, Writers
<1>1. ASSUME NEW s \in Signallers, NEW k \in Kinds, Raise(s, k) PROVE WakeInv'
  <2>1. \A t \in Signallers : t # s => pc'[t] = pc[t] /\ kind'[t] = kind[t]
    BY <1>1 DEF Raise
  <2>2. pc'[s] = "swap" /\ kind'[s] = k /\ pc[s] = "idle"
    BY <1>1 DEF Raise
  <2>3. Writers' = Writers
    BY <2>1, <2>2, <1>1 DEF Raise
  <2> QED
    BY <1>1, <2>1, <2>2, <2>3 DEF Raise
<1>2. ASSUME NEW s \in Signallers, Swap(s) PROVE WakeInv'
  <2>1. CASE pending
    <3>1. pc' = [pc EXCEPT ![s] = "idle"] /\ pc[s] = "swap"
      BY <1>2, <2>1 DEF Swap
    <3>2. Writers' = Writers
      BY <3>1
    <3>3. buffered \/ sup = "clear" \/ bytes > 0 \/ Writers # {}
      BY <2>1
    <3>4. ASSUME NEW k \in raised' \ missed'
          PROVE  \/ sup' \in {"drain", "clear", "done"}
                 \/ sup' = "serve" /\ at' <= k
                 \/ bytes' > 0
                 \/ Writers' # {}
                 \/ \E t \in Signallers : pc'[t] = "swap" /\ kind'[t] = k
      <4>1. /\ sup' = sup /\ at' = at /\ bytes' = bytes /\ kind' = kind /\ raised' = raised
            /\ missed' = IF buffered THEN missed \cup {kind[s]} ELSE missed \ {kind[s]}
        BY <1>2, <2>1 DEF Swap
      <4>2. CASE buffered
        <5>1. k \in raised \ missed /\ k # kind[s] BY <4>1, <4>2
        <5> QED BY <3>1, <3>2, <4>1, <5>1
      <4>3. CASE ~buffered
        BY <3>2, <3>3, <4>1, <4>3
      <4> QED BY <4>2, <4>3
    <3>5. PendingIsBacked'
      BY <1>2, <2>1, <3>2 DEF Swap
    <3> QED
      BY <3>4, <3>5
  <2>2. CASE ~pending
    <3>1. s \in Writers'
      BY <1>2, <2>2 DEF Swap
    <3> QED
      BY <1>2, <2>2, <3>1 DEF Swap
  <2> QED
    BY <2>1, <2>2
<1>3. ASSUME NEW s \in Signallers, WriteByte(s) PROVE WakeInv'
  <2>1. bytes' > 0
    BY <1>3 DEF WriteByte
  <2> QED
    BY <1>3, <2>1 DEF WriteByte
<1>4. CASE PollReadable
  BY <1>4 DEF PollReadable
<1>5. CASE PollTimeout
  BY <1>5 DEF PollTimeout
<1>6. CASE Drain
  BY <1>6 DEF Drain
<1>7. CASE Clear
  <2>1. CASE Reordered
    <3>1. buffered' /\ sup' = "serve" /\ at' = 1 /\ raised' = raised
      BY <1>7, <2>1 DEF Clear
    <3> QED
      BY <3>1
  <2>2. CASE ~Reordered
    <3>1. ~pending' /\ sup' = "serve" /\ at' = 1 /\ raised' = raised
      BY <1>7, <2>2 DEF Clear
    <3> QED
      BY <3>1
  <2> QED
    BY <2>1, <2>2
<1>8. CASE Flush
  BY <1>8 DEF Flush
<1>9. CASE Serve
  <2>1. CASE at \in Kinds
    BY <1>9, <2>1, WakeAssumption DEF Serve
  <2>2. CASE at > NKinds
    BY <1>9, <2>2, WakeAssumption DEF Serve
  <2> QED
    BY <2>1, <2>2, WakeAssumption
<1>10. CASE UNCHANGED vars
  BY <1>10 DEF vars
<1> QED
  BY <1>1, <1>2, <1>3, <1>4, <1>5, <1>6, <1>7, <1>8, <1>9, <1>10 DEF Next

\* No flag raised through `wake` is ever slept on by `nap`, and WAKE_PENDING is
\* never left set over a pipe nobody will write to, whatever the number of
\* handlers and threads; where the store to WAKE_PENDING is delayed, but for a
\* flag whose `wake` met the delay.
THEOREM WakeupsAreKept == Spec => [](NoLostWakeup /\ PendingIsBacked)
<1>1. Init => WakeInv
  <2> SUFFICES ASSUME Init PROVE WakeInv
    OBVIOUS
  <2>1. TypeOK
    BY InitTyped
  <2>2. ~pending /\ raised = {}
    BY Zenon DEF Init
  <2> QED
    BY <2>1, <2>2 DEF WakeInv, PendingIsBacked, NoLostWakeup
<1>2. WakeInv /\ TypeOK' /\ [Next]_vars => WakeInv'
  BY WakeStep
<1>3. WakeInv => NoLostWakeup /\ PendingIsBacked
  BY DEF WakeInv
<1> QED
  BY <1>1, <1>2, <1>3, TypeCorrect, PTL DEF Spec
-----------------------------------------------------------------------------
\* What bounds the pipe: a drain leaves at most one write per caller to come,
\* and one more swap can succeed on each side of the store that follows it, on
\* each side of the moment it becomes visible, that is.
PipeInv ==
    /\ buffered => sup \in {"serve", "poll", "done"}
    /\ bytes + Cardinality(Writers)
           <= Cardinality(Signallers)
              + (IF sup = "clear" \/ buffered THEN 0 ELSE 1)
              + (IF pending THEN 1 ELSE 0)

\* The callers about to write are finitely many, at most all of them.
LEMMA WritersFinite ==
    /\ IsFiniteSet(Writers)
    /\ Cardinality(Writers) \in Nat
    /\ Cardinality(Signallers) \in Nat
    /\ Cardinality(Writers) <= Cardinality(Signallers)
<1>1. Writers \subseteq Signallers /\ IsFiniteSet(Signallers)
  BY WakeAssumption DEF Writers
<1>2. IsFiniteSet(Writers) /\ Cardinality(Writers) <= Cardinality(Signallers)
  BY <1>1, FS_Subset
<1> QED
  BY <1>1, <1>2, FS_CardinalityType

\* One step keeps the bound on the bytes in the pipe and still to be written.
LEMMA PipeStep ==
    ASSUME TypeOK, TypeOK', PipeInv, [Next]_vars
    PROVE  PipeInv'
<1> DEFINE W == Cardinality(Writers)
           N == Cardinality(Signallers)
<1>0. W \in Nat /\ N \in Nat /\ W <= N /\ IsFiniteSet(Writers)
  BY WritersFinite
<1>a. N' = N
  OBVIOUS
<1>1. ASSUME NEW s \in Signallers, NEW k \in Kinds, Raise(s, k) PROVE PipeInv'
  <2>1. Writers' = Writers
    BY <1>1 DEF Raise, Writers, TypeOK
  <2> QED
    BY <1>1, <2>1, <1>0 DEF Raise, PipeInv, TypeOK
<1>2. ASSUME NEW s \in Signallers, Swap(s) PROVE PipeInv'
  <2>1. CASE pending
    <3>1. Writers' = Writers
      BY <1>2, <2>1 DEF Swap, Writers, TypeOK
    <3> QED
      BY <1>2, <2>1, <3>1, <1>0 DEF Swap, PipeInv, TypeOK
  <2>2. CASE ~pending
    <3>1. Writers' = Writers \cup {s} /\ s \notin Writers
      BY <1>2, <2>2 DEF Swap, Writers, TypeOK
    <3>2. Cardinality(Writers') = W + 1
      BY <3>1, <1>0, FS_AddElement
    <3> QED
      BY <1>2, <2>2, <3>2, <1>0 DEF Swap, PipeInv, TypeOK
  <2> QED
    BY <2>1, <2>2
<1>3. ASSUME NEW s \in Signallers, WriteByte(s) PROVE PipeInv'
  <2>1. Writers' = Writers \ {s} /\ s \in Writers
    BY <1>3 DEF WriteByte, Writers, TypeOK
  <2>2. Cardinality(Writers') = W - 1
    BY <2>1, <1>0, FS_RemoveElement
  <2> QED
    BY <1>3, <2>2, <1>0 DEF WriteByte, PipeInv, TypeOK
<1>4. CASE PollReadable \/ PollTimeout
  <2>1. Writers' = Writers
    BY <1>4 DEF PollReadable, PollTimeout, Writers
  <2> QED
    BY <1>4, <2>1, <1>0 DEF PollReadable, PollTimeout, PipeInv, TypeOK
<1>6. CASE Drain
  <2>1. Writers' = Writers
    BY <1>6 DEF Drain, Writers
  <2> QED
    BY <1>6, <2>1, <1>0 DEF Drain, PipeInv, TypeOK
<1>7. CASE Clear
  <2>1. Writers' = Writers
    BY <1>7 DEF Clear, Writers
  <2> QED
    BY <1>7, <2>1, <1>0 DEF Clear, PipeInv, TypeOK
<1>8. CASE Flush
  <2>1. Writers' = Writers
    BY <1>8 DEF Flush, Writers
  <2> QED
    BY <1>8, <2>1, <1>0 DEF Flush, PipeInv, TypeOK
<1>9. CASE Serve
  <2>1. Writers' = Writers
    BY <1>9 DEF Serve, Writers
  <2>2. /\ sup' \in {"serve", "poll", "done"} /\ sup = "serve" /\ bytes' = bytes
        /\ pending' = pending /\ buffered' = buffered
    BY <1>9 DEF Serve
  <2> QED
    BY <2>1, <2>2, <1>0 DEF PipeInv, TypeOK
<1>10. CASE UNCHANGED vars
  BY <1>10, <1>0 DEF vars, PipeInv, Writers
<1> QED
  BY <1>1, <1>2, <1>3, <1>4, <1>6, <1>7, <1>8, <1>9, <1>10 DEF Next

\* The `write` in `wake` never meets a full pipe: for any number of callers
\* the pipe holds at most that number and two.
THEOREM PipeStaysSmall == Spec => []PipeNeverFull
<1>1. Init => PipeInv
  <2>1. Init => Writers = {}
    BY DEF Init, Writers
  <2>2. Init => ~buffered /\ ~pending
    BY Zenon DEF Init
  <2> QED
    BY <2>1, <2>2, WritersFinite, FS_EmptySet DEF Init, PipeInv
<1>2. PipeInv /\ TypeOK /\ TypeOK' /\ [Next]_vars => PipeInv'
  BY PipeStep
<1>3. PipeInv /\ TypeOK => PipeNeverFull
  BY WritersFinite DEF PipeInv, PipeNeverFull, TypeOK
<1> QED
  BY <1>1, <1>2, <1>3, TypeCorrect, PTL DEF Spec
=============================================================================
