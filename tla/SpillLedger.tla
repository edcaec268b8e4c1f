----------------------------- MODULE SpillLedger -----------------------------
(***************************************************************************)
(* What the spill budgets promise: a ledger in which a share is taken in   *)
(* one step, only when it fits both budgets, and given back whole in one   *)
(* step.  SpillBudget, whose `charge` is a load, a test and a swap of an   *)
(* atomic that other threads use too, implements it.                       *)
(***************************************************************************)
EXTENDS Integers

CONSTANTS Files, MaxObject, MaxTotal

VARIABLES
    share,  \* bytes each file has taken
    sum     \* bytes taken by all of them

Init == share = [f \in Files |-> 0] /\ sum = 0

Take(f, k) ==
    /\ share[f] + k <= MaxObject /\ sum + k <= MaxTotal
    /\ share' = [share EXCEPT ![f] = @ + k]
    /\ sum' = sum + k

GiveBack(f) ==
    /\ share' = [share EXCEPT ![f] = 0]
    /\ sum' = sum - share[f]

Next == \E f \in Files : GiveBack(f) \/ \E k \in 0 .. MaxObject : Take(f, k)

Spec == Init /\ [][Next]_<<share, sum>>
=============================================================================
