--------------------------- MODULE ScanWalkProofs ---------------------------
(***************************************************************************)
(* That a scan's verdict accounts for everything that was not examined and *)
(* for every detection, for any limits, any options and any nesting.       *)
(*                                                                         *)
(* What an object lost is never out of sight: at every step it shows in    *)
(* the object's kept verdict, in its walk's tally, in what ended the walk  *)
(* or in the scan's marks, and each return hands one of these on to the    *)
(* object above.  A detection is on the object on top of the stack until   *)
(* it is reported.                                                         *)
(***************************************************************************)
EXTENDS ScanWalk, SequenceTheorems, TLAPS

Vias == {"top", "carried", "unpacked", "second", "image", "archive", "bytes", "stream", "cut",
         "rejoined"}
Walking == {"members", "held", "walked"}

Frame ==
    [kind : Kinds \cup {"second"}, via : Vias, core : BOOLEAN, carve : BOOLEAN,
     pc : {"done", "walk", "core", "carried", "unpacked", "second", "carve", "checks"}
            \cup Walking,
     out : Outcomes, tally : SUBSET {"password", "limits", "unscannable"}, term : Outcomes,
     held : BOOLEAN, loss : SUBSET Causes]

\* A walk's tally and its end belong to the walk, and an archive's second
\* reading is nothing but a walk.
Sound(t) ==
    /\ t.pc \notin Walking => t.tally = {} /\ t.term = "clean"
    /\ t.pc \in {"members", "held"} => t.term = "clean"
    /\ t.kind = "second" => t.out = "clean" /\ t.pc \in Walking \cup {"walk"}

\* Something in t was not examined, and the code knew of it.
Marked(t) == "known" \in t.loss

\* What was known to be lost in t shows, in t or in the marks.
Shown(t, marks) ==
    Marked(t) => t.out # "clean" \/ t.tally # {} \/ t.term # "clean" \/ marks # "no"

\* An object below t waits where it met t: in a walk nothing has ended, or at
\* the place where it looked.
Waits(u, t) ==
    IF t.via \in {"bytes", "stream", "cut", "rejoined"}
    THEN u.pc \in {"members", "walked"} /\ u.term = "clean"
    ELSE u.pc \in {"carried", "unpacked", "second", "carve"}

\* The inductive invariant for losses.
LossInv ==
    /\ stack \in Seq(Frame) /\ Len(stack) > 0
    /\ short \in {"no", "plain", "capped"}
    /\ \A i \in 1..Len(stack) : Sound(stack[i])
    /\ \A i \in 1..Len(stack) - 1 : Waits(stack[i], stack[i + 1])
    /\ verdict = "none" => \A i \in 1..Len(stack) : Shown(stack[i], short)
    /\ verdict # "none" => Len(stack) = 1 /\ Top.pc = "done"
    /\ CleanIsExamined

\* The inductive invariant for detections.
HitInv ==
    IF verdict = "none"
    THEN found => \/ late
                  \/ opts.all /\ listed
                  \/ Top.pc = "done" /\ Top.out = "infected"
                  \/ Top.pc = "walked" /\ Top.term = "infected"
    ELSE DetectionIsKept
-----------------------------------------------------------------------------
(***************************************************************************)
(* The frames the steps build.                                             *)
(***************************************************************************)
\* An object as it is first met.
LEMMA ObjectFrame ==
    ASSUME NEW kind \in Kinds \cup {"second"}, NEW via \in Vias, NEW core \in BOOLEAN,
           NEW carve \in BOOLEAN
    PROVE  /\ Object(kind, via, core, carve) \in Frame
           /\ Sound(Object(kind, via, core, carve))
           /\ ~Marked(Object(kind, via, core, carve))
           /\ Object(kind, via, core, carve).via = via
<1> DEFINE o == Object(kind, via, core, carve)
<1>1. /\ o.kind = kind /\ o.via = via /\ o.core = core /\ o.carve = carve
      /\ o.out = "clean" /\ o.tally = {} /\ o.term = "clean"
      /\ o.held = FALSE /\ o.loss = {}
  BY DEF Object
<1>2. /\ o.pc \in {"done", "walk", "carried", "core", "unpacked"}
      /\ kind = "second" => o.pc = "walk"
  BY DEF Object
<1>3. Sound(o) BY <1>1, <1>2 DEF Sound, Walking
<1>4. o \in Frame
  <2>1. o.pc \in {"done", "walk", "core", "carried", "unpacked", "second", "carve", "checks"}
                   \cup Walking
    BY <1>2
  <2> QED BY <1>1, <2>1 DEF Object, Frame, Outcomes
<1> QED BY <1>1, <1>3, <1>4 DEF Marked

\* A loss the code knows of.
LEMMA MarkedCause ==
    ASSUME NEW b \in BOOLEAN
    PROVE  /\ {"known"} \in SUBSET Causes
           /\ When(b, "known") \in SUBSET Causes /\ ("known" \in When(b, "known") <=> b)
BY DEF When, Causes

\* A loss it does not know of, and one it forgets.
LEMMA KnownCauses ==
    ASSUME NEW b \in BOOLEAN, NEW c \in SUBSET Causes, NEW cause \in Unmarked
    PROVE  /\ When(b, cause) \in SUBSET Causes /\ "known" \notin When(b, cause)
           /\ Forgotten(c, b, cause) \in SUBSET Causes
           /\ "known" \in Forgotten(c, b, cause) <=> "known" \in c /\ ~b
<1>1. cause # "known" BY DEF Unmarked
<1> QED BY <1>1 DEF When, Forgotten, Causes

\* Losing adds to the loss and to nothing else.
LEMMA LosingFrame ==
    ASSUME NEW t \in Frame, NEW b \in SUBSET Causes
    PROVE  /\ Losing(t, b) \in Frame
           /\ Losing(t, b).loss = t.loss \cup b
           /\ Marked(Losing(t, b)) <=> Marked(t) \/ "known" \in b
           /\ Losing(t, b).kind = t.kind /\ Losing(t, b).via = t.via
           /\ Losing(t, b).core = t.core /\ Losing(t, b).carve = t.carve
           /\ Losing(t, b).pc = t.pc /\ Losing(t, b).out = t.out
           /\ Losing(t, b).tally = t.tally /\ Losing(t, b).term = t.term
           /\ Losing(t, b).held = t.held
BY DEF Losing, Frame, Marked

\* An object that is finished is its outcome, and keeps its loss.
LEMMA FinishedFrame ==
    ASSUME NEW t \in Frame, NEW o \in Outcomes
    PROVE  /\ Finished(t, o) \in Frame /\ Sound(Finished(t, o))
           /\ Finished(t, o).loss = t.loss /\ Finished(t, o).via = t.via
           /\ Finished(t, o).pc = "done" /\ Finished(t, o).out = o
<1> DEFINE b == Object("passed", t.via, FALSE, FALSE)
<1>1. t.via \in Vias /\ t.loss \in SUBSET Causes BY DEF Frame
<1>2. b \in Frame BY <1>1, ObjectFrame DEF Kinds
<1>3. b.via = t.via /\ b.pc = "done" /\ b.kind = "passed" /\ b.tally = {} /\ b.term = "clean"
  BY DEF Object
<1>4. Finished(t, o) = [b EXCEPT !.out = o, !.loss = t.loss] BY DEF Finished
<1> HIDE DEF b
<1>5. /\ Finished(t, o).via = t.via /\ Finished(t, o).pc = "done"
      /\ Finished(t, o).kind = "passed" /\ Finished(t, o).tally = {}
      /\ Finished(t, o).term = "clean" /\ Finished(t, o).out = o
      /\ Finished(t, o).loss = t.loss
  BY <1>2, <1>3, <1>4 DEF Frame
<1>6. Finished(t, o) \in Frame BY <1>1, <1>2, <1>4 DEF Frame
<1>7. Sound(Finished(t, o)) BY <1>5 DEF Sound, Walking
<1> QED BY <1>5, <1>6, <1>7

\* The outcome a limit is turned into is one.
LEMMA LimitIsShown == LimitOutcome \in {"limits", "alert"}
BY DEF LimitOutcome
-----------------------------------------------------------------------------
(***************************************************************************)
(* The stack.                                                              *)
(***************************************************************************)
\* The object on top, and the one below it.
LEMMA TopFrame ==
    ASSUME stack \in Seq(Frame), Len(stack) > 0
    PROVE  /\ Len(stack) \in Nat /\ Len(stack) \in 1..Len(stack) /\ Top \in Frame
           /\ Len(stack) > 1 => Len(stack) - 1 \in 1..Len(stack) /\ Parent \in Frame
BY DEF Top, Parent

\* The top is replaced by t.
LEMMA BecomeStack ==
    ASSUME stack \in Seq(Frame), Len(stack) > 0, NEW t \in Frame, Become(t)
    PROVE  /\ stack' \in Seq(Frame) /\ Len(stack') = Len(stack)
           /\ stack'[Len(stack)] = t
           /\ \A i \in 1..Len(stack) - 1 : stack'[i] = stack[i]
BY DEF Become

\* The top is replaced by u and t is put on it.
LEMMA PushStack ==
    ASSUME stack \in Seq(Frame), Len(stack) > 0, NEW u \in Frame, NEW t \in Frame,
           stack' = Append([stack EXCEPT ![Len(stack)] = u], t)
    PROVE  /\ stack' \in Seq(Frame) /\ Len(stack') = Len(stack) + 1
           /\ stack'[Len(stack)] = u /\ stack'[Len(stack) + 1] = t
           /\ \A i \in 1..Len(stack) - 1 : stack'[i] = stack[i]
OBVIOUS

\* The top is taken away and the one below it replaced by t.
LEMMA ReturnStack ==
    ASSUME stack \in Seq(Frame), Len(stack) > 1, NEW t \in Frame, Return(t)
    PROVE  /\ stack' \in Seq(Frame) /\ Len(stack') = Len(stack) - 1
           /\ stack'[Len(stack) - 1] = t
           /\ \A i \in 1..Len(stack) - 2 : stack'[i] = stack[i]
<1> DEFINE below == SubSeq(stack, 1, Len(stack) - 2)
<1>1. /\ below \in Seq(Frame) /\ Len(below) = Len(stack) - 2
      /\ \A i \in 1..Len(stack) - 2 : below[i] = stack[i]
  <2>1. Len(stack) - 2 \in Nat /\ \A i \in 1..Len(stack) - 2 : stack[i] \in Frame OBVIOUS
  <2>2. PICK n \in Nat : n = Len(stack) - 2 BY <2>1
  <2>3. /\ SubSeq(stack, 1, n) \in Seq(Frame)
        /\ Len(SubSeq(stack, 1, n)) = IF 1 <= n THEN n - 1 + 1 ELSE 0
        /\ \A i \in 1..n - 1 + 1 : SubSeq(stack, 1, n)[i] = stack[1 + i - 1]
    BY <2>1, <2>2, SubSeqProperties
  <2>4. \A i \in 1..n : SubSeq(stack, 1, n)[i] = stack[i] BY <2>3
  <2>5. Len(SubSeq(stack, 1, n)) = n BY <2>3
  <2> QED BY <2>2, <2>3, <2>4, <2>5
<1>2. stack' = Append(below, t) BY DEF Return
<1> HIDE DEF below
<1> QED BY <1>1, <1>2
-----------------------------------------------------------------------------
(***************************************************************************)
(* The three kinds of step keep the invariant when the frames they build   *)
(* show what was lost.                                                     *)
(***************************************************************************)
\* The object on top is worked on.
LEMMA BecomeKeeps ==
    ASSUME LossInv, verdict = "none", verdict' = "none", NEW t \in Frame, Become(t),
           Sound(t), t.via = Top.via, Shown(t, short'),
           short' \in {"no", "plain", "capped"}, short # "no" => short' # "no"
    PROVE  LossInv'
<1> USE DEF LossInv
<1>1. /\ stack' \in Seq(Frame) /\ Len(stack') = Len(stack) /\ stack'[Len(stack)] = t
      /\ \A i \in 1..Len(stack) - 1 : stack'[i] = stack[i]
  BY BecomeStack
<1>2. Len(stack) \in Nat BY TopFrame
<1> HIDE DEF LossInv
<1>3. \A i \in 1..Len(stack') : Sound(stack'[i]) BY <1>1, <1>2 DEF LossInv
<1>4. \A i \in 1..Len(stack') : Shown(stack'[i], short')
  BY <1>1, <1>2 DEF LossInv, Shown
<1>5. ASSUME NEW i \in 1..Len(stack') - 1 PROVE Waits(stack'[i], stack'[i + 1])
  <2>1. stack'[i] = stack[i] /\ stack'[i + 1].via = stack[i + 1].via /\ i \in 1..Len(stack) - 1
    BY <1>1, <1>2 DEF Top
  <2>2. Waits(stack[i], stack[i + 1]) BY <2>1 DEF LossInv
  <2> QED BY <2>1, <2>2 DEF Waits
<1>6. CleanIsExamined' BY DEF CleanIsExamined
<1> QED BY <1>1, <1>3, <1>4, <1>5, <1>6 DEF LossInv

\* An object is met in the one on top.
LEMMA PushKeeps ==
    ASSUME LossInv, verdict = "none", verdict' = "none", NEW u \in Frame, NEW t \in Frame,
           stack' = Append([stack EXCEPT ![Len(stack)] = u], t),
           Sound(u), u.via = Top.via, Shown(u, short), Sound(t), ~Marked(t), Waits(u, t),
           short' = short
    PROVE  LossInv'
<1> USE DEF LossInv
<1>1. /\ stack' \in Seq(Frame) /\ Len(stack') = Len(stack) + 1
      /\ stack'[Len(stack)] = u /\ stack'[Len(stack) + 1] = t
      /\ \A i \in 1..Len(stack) - 1 : stack'[i] = stack[i]
  BY PushStack
<1>2. Len(stack) \in Nat BY TopFrame
<1> HIDE DEF LossInv
<1>3. \A i \in 1..Len(stack') : Sound(stack'[i]) BY <1>1, <1>2 DEF LossInv
<1>4. \A i \in 1..Len(stack') : Shown(stack'[i], short')
  <2>1. Shown(t, short') BY DEF Shown
  <2> QED BY <1>1, <1>2, <2>1 DEF LossInv
<1>5. ASSUME NEW i \in 1..Len(stack') - 1 PROVE Waits(stack'[i], stack'[i + 1])
  <2>1. CASE i = Len(stack) BY <1>1, <1>2, <2>1
  <2>2. CASE i < Len(stack)
    <3>1. stack'[i] = stack[i] /\ stack'[i + 1].via = stack[i + 1].via /\ i \in 1..Len(stack) - 1
      BY <1>1, <1>2, <2>2 DEF Top
    <3>2. Waits(stack[i], stack[i + 1]) BY <3>1 DEF LossInv
    <3> QED BY <3>1, <3>2 DEF Waits
  <2> QED BY <1>1, <1>2, <2>1, <2>2
<1>6. CleanIsExamined' BY DEF CleanIsExamined
<1> QED BY <1>1, <1>2, <1>3, <1>4, <1>5, <1>6 DEF LossInv

\* The object on top is done, and the one below takes its outcome.
LEMMA ReturnKeeps ==
    ASSUME LossInv, verdict = "none", verdict' = "none", Len(stack) > 1, NEW t \in Frame,
           Return(t), Sound(t), t.via = Parent.via, Shown(t, short), short' = short
    PROVE  LossInv'
<1> USE DEF LossInv
<1>1. /\ stack' \in Seq(Frame) /\ Len(stack') = Len(stack) - 1
      /\ stack'[Len(stack) - 1] = t
      /\ \A i \in 1..Len(stack) - 2 : stack'[i] = stack[i]
  BY ReturnStack
<1>2. Len(stack) \in Nat BY TopFrame
<1> HIDE DEF LossInv
<1>3. \A i \in 1..Len(stack') : Sound(stack'[i]) BY <1>1, <1>2 DEF LossInv
<1>4. \A i \in 1..Len(stack') : Shown(stack'[i], short') BY <1>1, <1>2 DEF LossInv
<1>5. ASSUME NEW i \in 1..Len(stack') - 1 PROVE Waits(stack'[i], stack'[i + 1])
  <2>1. stack'[i] = stack[i] /\ stack'[i + 1].via = stack[i + 1].via /\ i \in 1..Len(stack) - 1
    BY <1>1, <1>2 DEF Parent
  <2>2. Waits(stack[i], stack[i + 1]) BY <2>1 DEF LossInv
  <2> QED BY <2>1, <2>2 DEF Waits
<1>6. CleanIsExamined' BY DEF CleanIsExamined
<1> QED BY <1>1, <1>2, <1>3, <1>4, <1>5, <1>6 DEF LossInv
-----------------------------------------------------------------------------
(***************************************************************************)
(* What each step hands on.                                                *)
(***************************************************************************)
\* What is known of the top when a step is about to be taken on it.
LEMMA TopKnown ==
    ASSUME LossInv
    PROVE  /\ Top \in Frame /\ Sound(Top)
           /\ verdict = "none" => Shown(Top, short)
           /\ Top.pc # "done" \/ Len(stack) > 1 => verdict = "none"
           /\ Len(stack) > 1 => /\ Parent \in Frame /\ Sound(Parent)
                                /\ Shown(Parent, short) /\ Waits(Parent, Top)
<1>1. /\ Len(stack) \in Nat /\ Len(stack) \in 1..Len(stack) /\ Top \in Frame
      /\ Len(stack) > 1 => Len(stack) - 1 \in 1..Len(stack) /\ Parent \in Frame
  BY TopFrame DEF LossInv
<1>2. /\ Sound(Top) /\ (verdict = "none" => Shown(Top, short))
      /\ Top.pc # "done" \/ Len(stack) > 1 => verdict = "none"
  BY <1>1 DEF LossInv, Top
<1>3. ASSUME Len(stack) > 1
      PROVE  Sound(Parent) /\ Shown(Parent, short) /\ Waits(Parent, Top)
  BY <1>1, <1>2, <1>3 DEF LossInv, Top, Parent
<1> QED BY <1>1, <1>2, <1>3

\* An object goes on to its next stage outside a walk with what it has.
LEMMA GoesOnFrame ==
    ASSUME NEW t \in Frame, Sound(t), t.pc \notin Walking \cup {"walk"}, NEW marks,
           Shown(t, marks),
           NEW pc \in {"done", "walk", "core", "carried", "unpacked", "second", "carve", "checks"}
    PROVE  /\ GoesOn(t, pc) \in Frame /\ Sound(GoesOn(t, pc))
           /\ GoesOn(t, pc).via = t.via /\ Shown(GoesOn(t, pc), marks)
<1>1. t.kind # "second" /\ t.out \in Outcomes /\ t.tally = {} /\ t.term = "clean"
  BY DEF Sound, Frame
<1>2. CASE pc = "done"
  <2>1. GoesOn(t, pc) = Finished(t, t.out) BY <1>2 DEF GoesOn
  <2>2. Shown(Finished(t, t.out), marks) BY <1>1, FinishedFrame DEF Shown, Marked
  <2> QED BY <1>1, <2>1, <2>2, FinishedFrame
<1>3. CASE pc # "done"
  <2>1. GoesOn(t, pc) = [t EXCEPT !.pc = pc] BY <1>3 DEF GoesOn
  <2>2. [t EXCEPT !.pc = pc] \in Frame BY DEF Frame
  <2>3. Sound([t EXCEPT !.pc = pc]) BY <1>1 DEF Sound, Frame, Walking
  <2>4. [t EXCEPT !.pc = pc].via = t.via BY DEF Frame
  <2>5. Shown([t EXCEPT !.pc = pc], marks) BY <1>1 DEF Shown, Frame, Marked
  <2> QED BY <2>1, <2>2, <2>3, <2>4, <2>5
<1> QED BY <1>2, <1>3

\* An object that ends with an outcome other than clean shows its loss by it.
LEMMA FinishedShown ==
    ASSUME NEW t \in Frame, NEW o \in Outcomes \ {"clean"}, NEW marks
    PROVE  Shown(Finished(t, o), marks)
BY FinishedFrame DEF Shown

\* The top ends with such an outcome.
LEMMA StopKeeps ==
    ASSUME LossInv, verdict = "none", verdict' = "none", NEW b \in SUBSET Causes,
           NEW o \in Outcomes \ {"clean"}, Become(Finished(Losing(Top, b), o)),
           short' \in {"no", "plain", "capped"}, short # "no" => short' # "no"
    PROVE  LossInv'
<1>1. Losing(Top, b) \in Frame /\ Losing(Top, b).via = Top.via BY TopKnown, LosingFrame
<1>2. /\ Finished(Losing(Top, b), o) \in Frame /\ Sound(Finished(Losing(Top, b), o))
      /\ Finished(Losing(Top, b), o).via = Top.via
      /\ Shown(Finished(Losing(Top, b), o), short')
  BY <1>1, FinishedFrame, FinishedShown
<1> QED BY <1>2, BecomeKeeps

\* Matching: a check that stopped short is marked.
LEMMA MatchKeeps ==
    ASSUME LossInv, NEW hit \in BOOLEAN, NEW cut \in {"no", "plain", "capped"},
           NEW hidden \in BOOLEAN, Match(hit, cut, hidden)
    PROVE  LossInv'
<1> DEFINE c == When(cut # "no", "known") \cup When(hidden, "deep")
           t == Losing(Top, c)
<1>1. /\ verdict = "none" /\ verdict' = "none" /\ short' \in {"no", "plain", "capped"}
      /\ short # "no" => short' # "no"
      /\ cut # "no" => short' # "no"
  BY TopKnown DEF Match, LossInv
<1>2. Top \in Frame /\ Sound(Top) /\ Shown(Top, short) /\ Top.pc \in {"core", "carried", "checks"}
  BY <1>1, TopKnown DEF Match
<1>3. c \in SUBSET Causes /\ ("known" \in c <=> cut # "no")
  BY MarkedCause, KnownCauses DEF Unmarked
<1>0. Become(IF hit /\ ~opts.all THEN Finished(t, "infected") ELSE GoesOn(t, AfterMatch(t)))
  BY DEF Match
<1> HIDE DEF c
<1>4. CASE hit /\ ~opts.all
  <2>1. Become(Finished(t, "infected")) BY <1>0, <1>4
  <2> QED BY <1>1, <1>3, <2>1, StopKeeps DEF Outcomes
<1>5. CASE ~(hit /\ ~opts.all)
  <2>1. Become(GoesOn(t, AfterMatch(t))) BY <1>0, <1>5
  <2>2. /\ t \in Frame /\ t.pc = Top.pc /\ t.kind = Top.kind /\ t.out = Top.out
        /\ t.tally = Top.tally /\ t.term = Top.term /\ t.via = Top.via
        /\ (Marked(t) <=> Marked(Top) \/ cut # "no")
    BY <1>2, <1>3, LosingFrame
  <2> HIDE DEF t
  <2>3. Sound(t) BY <1>2, <2>2 DEF Sound
  <2>4. Shown(t, short') BY <1>1, <1>2, <2>2 DEF Shown
  <2>5. AfterMatch(t) \in {"unpacked", "carve", "walk", "done"} BY <1>2, <2>2 DEF AfterMatch
  <2>6. t.pc \notin Walking \cup {"walk"} BY <1>2, <2>2 DEF Walking
  <2>7. /\ GoesOn(t, AfterMatch(t)) \in Frame /\ Sound(GoesOn(t, AfterMatch(t)))
        /\ GoesOn(t, AfterMatch(t)).via = Top.via
        /\ Shown(GoesOn(t, AfterMatch(t)), short')
    BY <2>2, <2>3, <2>4, <2>5, <2>6, GoesOnFrame
  <2> QED BY <1>1, <2>1, <2>7, BecomeKeeps
<1> QED BY <1>4, <1>5

\* The end of a search: one that reached its cap is marked.
LEMMA FoundKeeps ==
    ASSUME LossInv, NEW capped \in BOOLEAN, NEW hidden \in BOOLEAN, Found(capped, hidden)
    PROVE  LossInv'
<1> DEFINE skipped == IF Depth >= MaxRecursion THEN "deep" ELSE "payload"
           c == When(capped, "known") \cup When(hidden, skipped)
           t == Losing(Top, c)
<1>1. /\ verdict = "none" /\ verdict' = "none" /\ short' \in {"no", "plain", "capped"}
      /\ short # "no" => short' # "no"
      /\ capped => short' # "no"
  BY TopKnown DEF Found, LossInv
<1>2. Top \in Frame /\ Sound(Top) /\ Shown(Top, short) /\ Top.pc \in {"unpacked", "second", "carve"}
  BY <1>1, TopKnown DEF Found
<1>3. Become(GoesOn(t, AfterFinding(Top))) BY DEF Found
<1>0. c \in SUBSET Causes /\ ("known" \in c <=> capped)
  <2>1. skipped \in Unmarked BY DEF Unmarked
  <2> HIDE DEF skipped
  <2> QED BY <2>1, MarkedCause, KnownCauses
<1> HIDE DEF c
<1>4. /\ t \in Frame /\ t.pc = Top.pc /\ t.kind = Top.kind /\ t.out = Top.out
      /\ t.tally = Top.tally /\ t.term = Top.term /\ t.via = Top.via
      /\ (Marked(t) <=> Marked(Top) \/ capped)
  BY <1>0, <1>2, LosingFrame
<1> HIDE DEF t
<1>5. Sound(t) BY <1>2, <1>4 DEF Sound
<1>6. Shown(t, short') BY <1>1, <1>2, <1>4 DEF Shown
<1>7. AfterFinding(Top) \in {"second", "carried", "checks", "done"} BY <1>2 DEF AfterFinding
<1>8. t.pc \notin Walking \cup {"walk"} BY <1>2, <1>4 DEF Walking
<1>9. /\ GoesOn(t, AfterFinding(Top)) \in Frame /\ Sound(GoesOn(t, AfterFinding(Top)))
      /\ GoesOn(t, AfterFinding(Top)).via = Top.via
      /\ Shown(GoesOn(t, AfterFinding(Top)), short')
  BY <1>4, <1>5, <1>6, <1>7, <1>8, GoesOnFrame
<1> QED BY <1>1, <1>3, <1>9, BecomeKeeps

\* What Losing leaves of what is known of an object.
LEMMA LosingSound ==
    ASSUME NEW t \in Frame, Sound(t), NEW b \in SUBSET Causes
    PROVE  Losing(t, b) \in Frame /\ Sound(Losing(t, b)) /\ Losing(t, b).via = t.via
BY LosingFrame DEF Sound

\* A walk that something ended shows its losses by that.
LEMMA EndWalkFrame ==
    ASSUME NEW t \in Frame, Sound(t), t.pc \in Walking \cup {"walk"},
           NEW o \in Outcomes \ {"clean"}, NEW marks
    PROVE  LET w == [t EXCEPT !.pc = "walked", !.term = o]
           IN w \in Frame /\ Sound(w) /\ w.via = t.via /\ Shown(w, marks)
<1> DEFINE w == [t EXCEPT !.pc = "walked", !.term = o]
<1>1. w \in Frame BY DEF Frame, Walking
<1>2. /\ w.via = t.via /\ w.pc = "walked" /\ w.term = o /\ w.kind = t.kind /\ w.out = t.out
  BY DEF Frame
<1>3. Sound(w) BY <1>2 DEF Sound, Walking
<1>4. Shown(w, marks) BY <1>2 DEF Shown
<1> QED BY <1>1, <1>2, <1>3, <1>4

\* The walk on top is ended.
LEMMA EndWalkKeeps ==
    ASSUME LossInv, verdict = "none", verdict' = "none", short' = short, NEW t \in Frame,
           Sound(t), t.via = Top.via, t.pc \in Walking \cup {"walk"},
           NEW o \in Outcomes \ {"clean"}, Become([t EXCEPT !.pc = "walked", !.term = o])
    PROVE  LossInv'
<1> DEFINE w == [t EXCEPT !.pc = "walked", !.term = o]
<1>1. w \in Frame /\ Sound(w) /\ w.via = t.via /\ Shown(w, short') BY EndWalkFrame
<1>2. short' \in {"no", "plain", "capped"} BY DEF LossInv
<1>3. Become(w) OBVIOUS
<1> HIDE DEF w
<1> QED BY <1>1, <1>2, <1>3, BecomeKeeps

\* An object is met in the one on top, which is otherwise left alone.
LEMMA MeetKeeps ==
    ASSUME LossInv, verdict = "none", verdict' = "none", short' = short,
           NEW kind \in Kinds \cup {"second"}, NEW via \in Vias, NEW core \in BOOLEAN,
           NEW carve \in BOOLEAN, stack' = Append(stack, Object(kind, via, core, carve)),
           IF via \in {"bytes", "stream", "cut", "rejoined"}
           THEN Top.pc = "members" ELSE Top.pc \in {"carried", "unpacked", "second", "carve"}
    PROVE  LossInv'
<1> DEFINE t == Object(kind, via, core, carve)
<1>1. t \in Frame /\ Sound(t) /\ ~Marked(t) /\ t.via = via BY ObjectFrame
<1>2. Top \in Frame /\ Sound(Top) /\ Shown(Top, short) BY TopKnown
<1>3. Waits(Top, t) BY <1>1, <1>2 DEF Waits, Sound
<1>4. [stack EXCEPT ![Len(stack)] = Top] = stack BY DEF LossInv, Top
<1>5. stack' = Append([stack EXCEPT ![Len(stack)] = Top], t) BY <1>4
<1> HIDE DEF t
<1> QED BY <1>1, <1>2, <1>3, <1>5, PushKeeps

\* What is found is charged for, and met unless that is too much.
LEMMA FindKeeps ==
    ASSUME LossInv, NEW via \in {"carried", "unpacked", "second", "image", "archive"},
           NEW kind \in Kinds, Find(via, kind)
    PROVE  LossInv'
<1>1. Top.pc \in {"carried", "unpacked", "second", "carve"} BY DEF Find, Sites
<1>2. verdict = "none" /\ verdict' = "none" /\ short' = short BY <1>1, TopKnown DEF Find
<1>3. CASE Overdrawn(via)
  <2>1. Become(Finished(Losing(Top, {"known"}), LimitOutcome)) BY <1>3 DEF Find
  <2>2. LimitOutcome \in Outcomes \ {"clean"} BY LimitIsShown DEF Outcomes
  <2> QED BY <1>2, <2>1, <2>2, MarkedCause, StopKeeps DEF LossInv
<1>4. CASE ~Overdrawn(via)
  <2>1. stack' = Append(stack, Object(kind, via, via # "archive", via = "unpacked"))
    BY <1>4 DEF Find
  <2>2. (via # "archive") \in BOOLEAN /\ (via = "unpacked") \in BOOLEAN OBVIOUS
  <2>3. via \in Vias /\ via \notin {"bytes", "stream", "cut", "rejoined"} BY DEF Vias
  <2> QED BY <1>1, <1>2, <2>1, <2>2, <2>3, MeetKeeps
<1> QED BY <1>3, <1>4

\* A member is met, or the walk ends at the budget.
LEMMA MemberKeeps ==
    ASSUME LossInv, NEW via \in {"bytes", "stream", "cut"}, NEW kind \in Kinds,
           Member(via, kind)
    PROVE  LossInv'
<1>1. Top.pc = "members" BY DEF Member
<1>2. /\ verdict = "none" /\ verdict' = "none" /\ short' = short
      /\ Top \in Frame /\ Sound(Top)
  BY <1>1, TopKnown DEF Member
<1>3. CASE Overdrawn(via)
  <2>1. Become([Losing(Top, {"known"}) EXCEPT !.pc = "walked", !.term = LimitOutcome])
    BY <1>3 DEF Member
  <2>2. LimitOutcome \in Outcomes \ {"clean"} BY LimitIsShown DEF Outcomes
  <2>3. /\ Losing(Top, {"known"}) \in Frame /\ Sound(Losing(Top, {"known"}))
        /\ Losing(Top, {"known"}).via = Top.via /\ Losing(Top, {"known"}).pc \in Walking \cup {"walk"}
    BY <1>1, <1>2, MarkedCause, LosingFrame, LosingSound DEF Walking
  <2> QED BY <1>2, <2>1, <2>2, <2>3, EndWalkKeeps
<1>4. CASE ~Overdrawn(via)
  <2>1. stack' = Append(stack, Object(kind, via, TRUE, TRUE)) BY <1>4 DEF Member
  <2>2. via \in Vias /\ via \in {"bytes", "stream", "cut", "rejoined"} BY DEF Vias
  <2> QED BY <1>1, <1>2, <2>1, <2>2, MeetKeeps
<1> QED BY <1>3, <1>4

\* The other steps of a walk: what is not examined goes to the tally, or ends it.
LEMMA WalkKeeps ==
    ASSUME LossInv,
           \/ WalkStart \/ MetadataHit \/ NotHeld \/ Hold \/ NoMoreMembers
           \/ \E encrypted \in BOOLEAN : NotDecoded(encrypted)
           \/ \E corrupt \in BOOLEAN : WalkFails(corrupt)
    PROVE  LossInv'
<1>0. Top.pc \in {"walk", "members"}
  BY DEF WalkStart, MetadataHit, NotHeld, Hold, NoMoreMembers, NotDecoded, WalkFails
<1>1. /\ verdict = "none" /\ verdict' = "none" /\ short' = short
      /\ Top \in Frame /\ Sound(Top) /\ Shown(Top, short)
      /\ short' \in {"no", "plain", "capped"}
  BY <1>0, TopKnown
  DEF WalkStart, MetadataHit, NotHeld, Hold, NoMoreMembers, NotDecoded, WalkFails, LossInv
<1>2. LimitOutcome \in Outcomes \ {"clean"} BY LimitIsShown DEF Outcomes
<1>3. /\ Top.pc \in Walking \cup {"walk"}
      /\ Losing(Top, {"known"}) \in Frame /\ Sound(Losing(Top, {"known"}))
      /\ Losing(Top, {"known"}).via = Top.via /\ Losing(Top, {"known"}).pc \in Walking \cup {"walk"}
  BY <1>0, <1>1, MarkedCause, LosingFrame, LosingSound DEF Walking
<1>4. ASSUME NEW pc \in Walking, pc \in {"members", "held", "walked"}, NEW held \in BOOLEAN,
             Become([Top EXCEPT !.pc = pc, !.held = held])
      PROVE  LossInv'
  <2> DEFINE t == [Top EXCEPT !.pc = pc, !.held = held]
  <2>1. t \in Frame BY <1>1 DEF Frame
  <2>2. /\ t.via = Top.via /\ t.pc = pc /\ t.term = Top.term /\ t.kind = Top.kind
        /\ t.out = Top.out /\ t.tally = Top.tally /\ t.loss = Top.loss
    BY <1>1 DEF Frame
  <2>3. Top.term = "clean" BY <1>0, <1>1 DEF Sound, Walking
  <2>4. Sound(t) BY <1>1, <2>2, <2>3 DEF Sound, Walking
  <2>5. Shown(t, short') BY <1>1, <2>2 DEF Shown, Marked
  <2>6. Become(t) BY <1>4
  <2> HIDE DEF t
  <2> QED BY <1>1, <2>1, <2>2, <2>4, <2>5, <2>6, BecomeKeeps
<1>5. ASSUME NEW o \in {"password", "unscannable", "limits"}, Top.pc = "members",
             Become([Losing(Top, {"known"}) EXCEPT !.tally = @ \cup {o}])
      PROVE  LossInv'
  <2> DEFINE u == Losing(Top, {"known"})
             t == [u EXCEPT !.tally = @ \cup {o}]
  <2>1. u.tally \subseteq {"password", "limits", "unscannable"} BY <1>3 DEF Frame
  <2>2. u.pc = "members" BY <1>1, <1>5, MarkedCause, LosingFrame
  <2>3. u \in Frame /\ Sound(u) /\ u.via = Top.via BY <1>3
  <2> HIDE DEF u
  <2>4. t \in Frame BY <2>1, <2>3 DEF Frame
  <2>5. /\ t.via = u.via /\ t.pc = "members" /\ t.term = u.term /\ t.kind = u.kind
        /\ t.out = u.out /\ t.tally # {}
    BY <2>2, <2>3 DEF Frame
  <2>6. Sound(t) BY <2>2, <2>3, <2>5 DEF Sound, Walking
  <2>7. Shown(t, short') BY <2>5 DEF Shown
  <2>8. Become(t) BY <1>5 DEF u
  <2> HIDE DEF t
  <2> QED BY <1>1, <2>3, <2>4, <2>5, <2>6, <2>7, <2>8, BecomeKeeps
<1>6. ASSUME NEW o \in Outcomes \ {"clean"},
             Become([Losing(Top, {"known"}) EXCEPT !.pc = "walked", !.term = o])
      PROVE  LossInv'
  BY <1>1, <1>3, <1>6, EndWalkKeeps
<1>7. ASSUME NEW pc, [Top EXCEPT !.pc = pc] # [Top EXCEPT !.pc = pc, !.held = Top.held]
      PROVE FALSE
  BY <1>1, <1>7 DEF Frame
<1>8. Top.held \in BOOLEAN BY <1>1 DEF Frame
<1>9. CASE WalkStart
  <2>1. CASE Depth >= MaxRecursion
    <3>1. Become([Losing(Top, {"known"}) EXCEPT !.pc = "walked", !.term = LimitOutcome])
      BY <1>9, <2>1 DEF WalkStart
    <3> QED BY <3>1, <1>2, <1>6
  <2>2. CASE ~(Depth >= MaxRecursion)
    <3>1. Become([Top EXCEPT !.pc = "members"]) BY <1>9, <2>2 DEF WalkStart
    <3> QED BY <3>1, <1>4, <1>7, <1>8 DEF Walking
  <2> QED BY <2>1, <2>2
<1>10. CASE MetadataHit
  <2>1. CASE opts.all
    <3>1. Become(Top) /\ Top.pc = "members" BY <1>10, <2>1 DEF MetadataHit
    <3> QED BY <3>1, <1>1, BecomeKeeps
  <2>2. CASE ~opts.all
    <3>1. Become([Top EXCEPT !.pc = "walked", !.term = "infected"])
      BY <1>10, <2>2 DEF MetadataHit
    <3> QED BY <3>1, <1>1, <1>3, EndWalkKeeps DEF Outcomes
  <2> QED BY <2>1, <2>2
<1>11. CASE NotHeld
  <2>1. CASE LimitOutcome = "limits" BY <1>5, <1>11, <2>1 DEF NotHeld
  <2>2. CASE LimitOutcome # "limits"
    <3>1. Become([Losing(Top, {"known"}) EXCEPT !.pc = "walked", !.term = "alert"])
      BY <1>11, <2>2 DEF NotHeld
    <3> QED BY <3>1, <1>6 DEF Outcomes
  <2> QED BY <2>1, <2>2
<1>12. CASE Hold
  <2>1. Become([Top EXCEPT !.held = TRUE]) /\ Top.pc = "members" BY <1>12 DEF Hold
  <2>2. [Top EXCEPT !.held = TRUE] = [Top EXCEPT !.pc = "members", !.held = TRUE]
    BY <1>1, <2>1 DEF Frame
  <2> QED BY <2>1, <2>2, <1>4 DEF Walking
<1>13. CASE NoMoreMembers
  <2>1. \E pc \in {"held", "walked"} : Become([Top EXCEPT !.pc = pc])
    BY <1>13 DEF NoMoreMembers
  <2> QED BY <2>1, <1>4, <1>7, <1>8 DEF Walking
<1>14. ASSUME NEW encrypted \in BOOLEAN, NotDecoded(encrypted) PROVE LossInv'
  BY <1>5, <1>14 DEF NotDecoded
<1>15. ASSUME NEW corrupt \in BOOLEAN, WalkFails(corrupt) PROVE LossInv'
  BY <1>2, <1>6, <1>15 DEF WalkFails, Outcomes
<1> QED BY <1>9, <1>10, <1>11, <1>12, <1>13, <1>14, <1>15

\* Three steps that only meet, stop or pass over.
LEMMA LesserStepsKeep ==
    ASSUME LossInv, \/ ReadAgain \/ UnpackedTooDeep
                    \/ \E hides \in BOOLEAN : FixedPoint(hides)
    PROVE  LossInv'
<1>1. CASE ReadAgain
  <2>1. Top.pc = "second" /\ stack' = Append(stack, Object("second", "second", FALSE, FALSE))
    BY <1>1 DEF ReadAgain
  <2>2. verdict = "none" /\ verdict' = "none" /\ short' = short
    BY <1>1, <2>1, TopKnown DEF ReadAgain
  <2>3. "second" \in Vias BY DEF Vias
  <2> QED BY <2>1, <2>2, <2>3, MeetKeeps
<1>2. CASE UnpackedTooDeep
  <2>1. Top.pc = "unpacked" /\ Become(Finished(Losing(Top, {"known"}), LimitOutcome))
    BY <1>2 DEF UnpackedTooDeep
  <2>2. verdict = "none" /\ verdict' = "none" /\ short' = short
    BY <1>2, <2>1, TopKnown DEF UnpackedTooDeep
  <2>3. LimitOutcome \in Outcomes \ {"clean"} BY LimitIsShown DEF Outcomes
  <2> QED BY <2>1, <2>2, <2>3, MarkedCause, StopKeeps DEF LossInv
<1>3. CASE \E hides \in BOOLEAN : FixedPoint(hides)
  <2>0. PICK hides \in BOOLEAN : FixedPoint(hides) BY <1>3
  <2> DEFINE c == When(hides, "twin")
             t == Losing(Top, c)
  <2>1. Top.pc = "members" /\ Become(t) BY <2>0 DEF FixedPoint
  <2>2. /\ verdict = "none" /\ verdict' = "none" /\ short' = short
        /\ Top \in Frame /\ Sound(Top) /\ Shown(Top, short)
        /\ short' \in {"no", "plain", "capped"}
    BY <2>0, <2>1, TopKnown DEF FixedPoint, LossInv
  <2>3. c \in SUBSET Causes /\ "known" \notin c BY KnownCauses DEF Unmarked
  <2> HIDE DEF c
  <2>4. t \in Frame /\ Sound(t) /\ t.via = Top.via BY <2>2, <2>3, LosingSound
  <2>5. Shown(t, short') BY <2>2, <2>3, LosingFrame DEF Shown
  <2> HIDE DEF t
  <2> QED BY <2>1, <2>2, <2>4, <2>5, BecomeKeeps
<1> QED BY <1>1, <1>2, <1>3

\* A set with a gap in it is noted; one that is too much ends the walk.
LEMMA RejoinKeeps ==
    ASSUME LossInv, NEW kind \in Kinds, NEW gap \in BOOLEAN, Rejoin(kind, gap)
    PROVE  LossInv'
<1> DEFINE l == Losing(Top, When(gap, "known"))
           s == IF gap THEN {"unscannable"} ELSE {}
           t == [l EXCEPT !.tally = @ \cup s, !.pc = "walked"]
<1>1. Top.pc = "held" BY DEF Rejoin
<1>2. /\ verdict = "none" /\ verdict' = "none" /\ short' = short
      /\ Top \in Frame /\ Sound(Top) /\ Shown(Top, short)
  BY <1>1, TopKnown DEF Rejoin
<1>3. /\ l \in Frame /\ l.via = Top.via /\ l.kind = Top.kind /\ l.out = Top.out
      /\ l.tally = Top.tally /\ l.term = Top.term /\ l.pc = "held"
      /\ (Marked(l) <=> Marked(Top) \/ gap)
  BY <1>1, <1>2, MarkedCause, LosingFrame
<1>4. Top.term = "clean" BY <1>1, <1>2 DEF Sound
<1>5. s \subseteq {"unscannable"} /\ (gap => s # {}) OBVIOUS
<1>6. IF Overdrawn("rejoined")
      THEN Become([Losing(t, {"known"}) EXCEPT !.term = LimitOutcome])
      ELSE stack' = Append([stack EXCEPT ![Len(stack)] = t],
                           Object(kind, "rejoined", TRUE, TRUE))
  BY DEF Rejoin
<1> HIDE DEF l, s
<1>7. t \in Frame
  <2>1. l.tally \cup s \in SUBSET {"password", "limits", "unscannable"} BY <1>3, <1>5 DEF Frame
  <2> QED BY <1>3, <2>1 DEF Frame, Walking
<1>8. /\ t.via = Top.via /\ t.kind = Top.kind /\ t.out = Top.out /\ t.term = "clean"
      /\ t.tally = Top.tally \cup s /\ (Marked(t) <=> Marked(Top) \/ gap) /\ t.pc = "walked"
  BY <1>3, <1>4 DEF Frame, Marked
<1> HIDE DEF t
<1>9. Sound(t) BY <1>1, <1>2, <1>8 DEF Sound, Walking
<1>10. Shown(t, short) BY <1>2, <1>4, <1>5, <1>8 DEF Shown
<1>11. CASE Overdrawn("rejoined")
  <2> DEFINE u == Losing(t, {"known"})
  <2>1. /\ u \in Frame /\ Sound(u) /\ u.via = Top.via /\ u.pc = "walked"
    BY <1>7, <1>8, <1>9, MarkedCause, LosingFrame, LosingSound
  <2>2. Become([u EXCEPT !.term = LimitOutcome]) BY <1>6, <1>11
  <2> HIDE DEF u
  <2>3. [u EXCEPT !.term = LimitOutcome] = [u EXCEPT !.pc = "walked", !.term = LimitOutcome]
    BY <2>1 DEF Frame
  <2>4. LimitOutcome \in Outcomes \ {"clean"} BY LimitIsShown DEF Outcomes
  <2>5. "walked" \in Walking BY DEF Walking
  <2> QED BY <1>2, <2>1, <2>2, <2>3, <2>4, <2>5, EndWalkKeeps
<1>12. CASE ~Overdrawn("rejoined")
  <2> DEFINE c == Object(kind, "rejoined", TRUE, TRUE)
  <2>1. "rejoined" \in Vias BY DEF Vias
  <2>2. c \in Frame /\ Sound(c) /\ ~Marked(c) /\ c.via = "rejoined" BY <2>1, ObjectFrame
  <2>3. stack' = Append([stack EXCEPT ![Len(stack)] = t], c) BY <1>6, <1>12
  <2> HIDE DEF c
  <2>4. Waits(t, c) BY <1>8, <2>2 DEF Waits
  <2> QED BY <1>2, <1>7, <1>8, <1>9, <1>10, <2>2, <2>3, <2>4, PushKeeps
<1> QED BY <1>11, <1>12

\* The end of a walk hands on the outcome of the walk or the one kept before it.
LEMMA AfterWalkFrame ==
    ASSUME NEW t \in Frame, Sound(t), t.pc = "walked", NEW o \in Outcomes, NEW marks,
           Marked(t) => t.out # "clean" \/ o # "clean" \/ marks # "no"
    PROVE  /\ AfterWalk(t, o) \in Frame /\ Sound(AfterWalk(t, o))
           /\ AfterWalk(t, o).via = t.via /\ Shown(AfterWalk(t, o), marks)
<1>1. t.out \in Outcomes /\ (t.kind = "second" => t.out = "clean") BY DEF Frame, Sound
<1>2. ASSUME NEW r \in Outcomes, r # "clean" \/ (t.out = "clean" /\ o = "clean")
      PROVE  /\ Finished(t, r) \in Frame /\ Sound(Finished(t, r))
             /\ Finished(t, r).via = t.via /\ Shown(Finished(t, r), marks)
  BY <1>2, FinishedFrame DEF Shown, Marked
<1>3. ASSUME NEW r \in Outcomes, r # "clean" \/ (t.out = "clean" /\ o = "clean"),
             NEW pc \in {"core", "carve"}, t.kind # "second"
      PROVE  LET w == [Left(t) EXCEPT !.out = r, !.pc = pc]
             IN w \in Frame /\ Sound(w) /\ w.via = t.via /\ Shown(w, marks)
  <2> DEFINE w == [Left(t) EXCEPT !.out = r, !.pc = pc]
  <2>1. w \in Frame BY DEF Left, Frame, Outcomes
  <2>2. /\ w.via = t.via /\ w.pc = pc /\ w.out = r /\ w.tally = {} /\ w.term = "clean"
        /\ w.kind = t.kind /\ w.loss = t.loss
    BY DEF Left, Frame
  <2> HIDE DEF w
  <2>3. Sound(w) BY <1>3, <2>2 DEF Sound, Walking
  <2>4. Shown(w, marks) BY <1>3, <2>2 DEF Shown, Marked
  <2> QED BY <2>1, <2>2, <2>3, <2>4 DEF w
<1>4. /\ Defer(o, t.out) \in Outcomes /\ Defer(t.out, o) \in Outcomes
      /\ Defer(o, t.out) # "clean" \/ (t.out = "clean" /\ o = "clean")
      /\ Defer(t.out, o) # "clean" \/ (t.out = "clean" /\ o = "clean")
  BY <1>1 DEF Defer
<1>5. CASE t.kind = "second"
  <2>1. AfterWalk(t, o) = Finished(t, o) BY <1>5 DEF AfterWalk
  <2> QED BY <1>1, <1>2, <1>5, <2>1
<1>6. CASE t.kind = "archive"
  <2>1. \/ AfterWalk(t, o) = Finished(t, Defer(o, t.out))
        \/ AfterWalk(t, o) = [Left(t) EXCEPT !.out = Defer(o, t.out), !.pc = "core"]
    BY <1>6 DEF AfterWalk
  <2> QED BY <1>2, <1>3, <1>4, <1>6, <2>1
<1>7. CASE t.kind \notin {"second", "archive"}
  <2>1. \/ o \in Stops /\ AfterWalk(t, o) = Finished(t, o)
        \/ AfterWalk(t, o) = [Left(t) EXCEPT !.out = Defer(t.out, o), !.pc = "carve"]
        \/ AfterWalk(t, o) = Finished(t, Defer(t.out, o))
    BY <1>7 DEF AfterWalk
  <2>2. o \in Stops => o # "clean" BY DEF Stops
  <2> QED BY <1>2, <1>3, <1>4, <1>7, <2>1, <2>2
<1> QED BY <1>5, <1>6, <1>7

\* The walk's outcome: what ended it, then its tally.
LEMMA WalkedKeeps ==
    ASSUME LossInv, NEW encrypted \in BOOLEAN, Walked(encrypted)
    PROVE  LossInv'
<1> DEFINE b == Top.held /\ Top.term # "clean"
           c == When(b, "known")
           t == Losing(Top, c)
           o == IF encrypted THEN "infected"
                ELSE IF Top.term # "clean" THEN Top.term ELSE TallyVerdict(Top)
<1>1. Top.pc = "walked" BY DEF Walked
<1>2. /\ verdict = "none" /\ verdict' = "none" /\ short' = short
      /\ Top \in Frame /\ Sound(Top) /\ Shown(Top, short) /\ short' \in {"no", "plain", "capped"}
  BY <1>1, TopKnown DEF Walked, LossInv
<1>3. Become(AfterWalk(t, o)) BY DEF Walked
<1>4. b \in BOOLEAN BY <1>2 DEF Frame
<1>5. TallyVerdict(Top) \in Outcomes /\ (Top.tally # {} => TallyVerdict(Top) # "clean")
  BY <1>2 DEF TallyVerdict, Outcomes, Frame
<1>6. /\ o \in Outcomes
      /\ Top.tally # {} \/ Top.term # "clean" => o # "clean"
  BY <1>2, <1>5 DEF Outcomes, Frame
<1>7. b => Top.term # "clean" OBVIOUS
<1>8. t \in Frame /\ Sound(t) /\ t.via = Top.via /\ t.pc = "walked" /\ t.out = Top.out
      /\ (Marked(t) <=> Marked(Top) \/ b)
  <2> HIDE DEF b
  <2>1. c \in SUBSET Causes /\ ("known" \in c <=> b) BY <1>4, MarkedCause
  <2> HIDE DEF c
  <2> QED BY <1>1, <1>2, <2>1, LosingFrame, LosingSound
<1> HIDE DEF b, c, t, o
<1>9. Marked(t) => t.out # "clean" \/ o # "clean" \/ short # "no"
  BY <1>2, <1>6, <1>7, <1>8 DEF Shown
<1>10. /\ AfterWalk(t, o) \in Frame /\ Sound(AfterWalk(t, o))
       /\ AfterWalk(t, o).via = Top.via /\ Shown(AfterWalk(t, o), short)
  BY <1>6, <1>8, <1>9, AfterWalkFrame
<1> QED BY <1>2, <1>3, <1>10, BecomeKeeps

\* What a member lost goes to the walk it was met in: into its tally or its end.
LEMMA MemberReturnsKeeps ==
    ASSUME LossInv, MemberReturns
    PROVE  LossInv'
<1> DEFINE stop == MemberStop(Child.out)
           muted == Child.out = "alert" /\ stop = "clean"
           streamed == Child.via \in {"stream", "cut"}
           term == IF streamed /\ Overdrawn(Child.via) THEN LimitOutcome ELSE stop
           kept == (IF Child.via = "cut" /\ stop = "clean" THEN {"unscannable"} ELSE {})
                     \cup ({Child.out} \cap {"unscannable", "password"})
           b == When(Child.via = "cut", "known") \cup Forgotten(Child.loss, muted, "ignored")
           p == Losing(Parent, b)
           t == [p EXCEPT !.tally = @ \cup kept, !.term = term,
                          !.pc = IF term # "clean" THEN "walked" ELSE @]
<1>1. /\ Len(stack) > 1 /\ Child.pc = "done"
      /\ Child.via \in {"bytes", "stream", "cut", "rejoined"}
  BY DEF MemberReturns
<1>2. Return(t) BY DEF MemberReturns
<1>3. /\ verdict = "none" /\ verdict' = "none" /\ short' = short
      /\ Child \in Frame /\ Sound(Child) /\ Shown(Child, short)
      /\ Parent \in Frame /\ Sound(Parent) /\ Shown(Parent, short) /\ Waits(Parent, Child)
  BY <1>1, TopKnown DEF MemberReturns, Child
<1>4. Parent.pc \in {"members", "walked"} /\ Parent.term = "clean" BY <1>1, <1>3 DEF Waits
<1>5. Child.tally = {} /\ Child.term = "clean" /\ Child.out \in Outcomes /\ Child.loss \in SUBSET Causes
  BY <1>1, <1>3 DEF Sound, Walking, Frame
<1>6. /\ stop \in Outcomes
      /\ stop # "clean" \/ Child.out \in {"clean", "unscannable", "password"} \/ muted
  BY <1>5 DEF MemberStop, Outcomes, Stops
<1>7. LimitOutcome \in Outcomes \ {"clean"} BY LimitIsShown DEF Outcomes
<1>8. term \in Outcomes /\ (stop # "clean" => term # "clean") BY <1>6, <1>7
<1>9. /\ kept \in SUBSET {"password", "limits", "unscannable"}
      /\ Child.via = "cut" /\ stop = "clean" => kept # {}
      /\ Child.out \in {"unscannable", "password"} => kept # {}
  OBVIOUS
<1>10. b \in SUBSET Causes /\ ("known" \in b <=> Child.via = "cut" \/ (Marked(Child) /\ ~muted))
  BY <1>5, MarkedCause, KnownCauses DEF Unmarked, Marked
<1>11. "known" \in b => kept # {} \/ term # "clean" \/ short # "no"
  <2>1. CASE Child.via = "cut" BY <2>1, <1>8, <1>9
  <2>2. CASE Marked(Child) /\ ~muted
    <3>1. Child.out # "clean" \/ short # "no" BY <1>3, <1>5, <2>2 DEF Shown
    <3> QED BY <3>1, <2>2, <1>6, <1>8, <1>9
  <2> QED BY <1>10, <2>1, <2>2
<1> HIDE DEF term, kept, b
<1>12. /\ p \in Frame /\ p.via = Parent.via /\ p.kind = Parent.kind /\ p.out = Parent.out
       /\ p.tally = Parent.tally /\ p.pc = Parent.pc
       /\ (Marked(p) <=> Marked(Parent) \/ "known" \in b)
  BY <1>3, <1>10, LosingFrame
<1> HIDE DEF p
<1>13. t \in Frame
  <2>1. p.tally \cup kept \in SUBSET {"password", "limits", "unscannable"}
    BY <1>9, <1>12 DEF Frame
  <2>2. p.pc \in Walking /\ "walked" \in Walking BY <1>4, <1>12 DEF Walking
  <2> QED BY <1>8, <1>12, <2>1, <2>2 DEF Frame
<1>14. /\ t.via = Parent.via /\ t.kind = Parent.kind /\ t.out = Parent.out /\ t.term = term
       /\ t.tally = Parent.tally \cup kept /\ (Marked(t) <=> Marked(Parent) \/ "known" \in b)
       /\ t.pc \in {"members", "walked"} /\ (t.pc = "members" => term = "clean")
  BY <1>4, <1>12 DEF Frame, Marked
<1> HIDE DEF t
<1>15. Sound(t) BY <1>3, <1>14 DEF Sound, Walking
<1>16. Shown(t, short) BY <1>3, <1>4, <1>11, <1>14 DEF Shown
<1> QED BY <1>1, <1>2, <1>3, <1>13, <1>14, <1>15, <1>16, ReturnKeeps

\* What was found returns to where it was looked for.
LEMMA FoundReturnsKeeps ==
    ASSUME LossInv, FoundReturns \/ \E proven \in BOOLEAN : ArchiveReturns(proven)
    PROVE  LossInv'
<1>1. /\ Len(stack) > 1 /\ Child.pc = "done"
      /\ Child.via \in {"carried", "unpacked", "second", "image", "archive"}
  BY DEF FoundReturns, ArchiveReturns
<1>2. /\ verdict = "none" /\ verdict' = "none" /\ short' = short
      /\ Child \in Frame /\ Sound(Child) /\ Shown(Child, short)
      /\ Parent \in Frame /\ Sound(Parent) /\ Shown(Parent, short) /\ Waits(Parent, Child)
  BY <1>1, TopKnown DEF FoundReturns, ArchiveReturns, Child
<1>3. Parent.pc \in {"carried", "unpacked", "second", "carve"} BY <1>1, <1>2 DEF Waits
<1>4. /\ Parent.tally = {} /\ Parent.term = "clean" /\ Parent.kind # "second"
      /\ Parent.out \in Outcomes
  BY <1>2, <1>3 DEF Sound, Walking, Frame
<1>5. Child.tally = {} /\ Child.term = "clean" /\ Child.out \in Outcomes /\ Child.loss \in SUBSET Causes
  BY <1>1, <1>2 DEF Sound, Walking, Frame
<1>6. Marked(Child) => Child.out # "clean" \/ short # "no" BY <1>2, <1>5 DEF Shown
<1>7. ASSUME NEW b \in SUBSET Causes, Child.out \in Stops, Return(Finished(Losing(Parent, b), Child.out))
      PROVE  LossInv'
  <2> DEFINE t == Losing(Parent, b)
             f == Finished(t, Child.out)
  <2>1. t \in Frame /\ t.via = Parent.via BY <1>2, LosingFrame
  <2>2. Child.out \in Outcomes \ {"clean"} BY <1>5, <1>7 DEF Stops
  <2> HIDE DEF t
  <2>3. f \in Frame /\ Sound(f) /\ f.via = Parent.via /\ Shown(f, short)
    BY <2>1, <2>2, FinishedFrame, FinishedShown
  <2>4. Return(f) BY <1>7 DEF t
  <2> HIDE DEF f
  <2> QED BY <1>1, <1>2, <2>3, <2>4, ReturnKeeps
<1>8. ASSUME NEW b \in SUBSET Causes, NEW o \in Outcomes, Parent.out # "clean" => o # "clean",
             "known" \in b => o # "clean" \/ short # "no",
             Return([Losing(Parent, b) EXCEPT !.out = o])
      PROVE  LossInv'
  <2> DEFINE l == Losing(Parent, b)
             t == [l EXCEPT !.out = o]
  <2>1. /\ l \in Frame /\ l.via = Parent.via /\ l.kind = Parent.kind /\ l.term = Parent.term
        /\ l.tally = Parent.tally /\ l.pc = Parent.pc
        /\ (Marked(l) <=> Marked(Parent) \/ "known" \in b)
    BY <1>2, LosingFrame
  <2>2. Return(t) BY <1>8
  <2> HIDE DEF l
  <2>3. t \in Frame BY <2>1 DEF Frame
  <2>4. /\ t.via = Parent.via /\ t.kind = Parent.kind /\ t.term = Parent.term
        /\ t.tally = Parent.tally /\ t.pc = Parent.pc /\ t.out = o
        /\ (Marked(t) <=> Marked(Parent) \/ "known" \in b)
    BY <2>1 DEF Frame, Marked
  <2> HIDE DEF t
  <2>5. Sound(t) BY <1>2, <1>4, <2>4 DEF Sound
  <2>6. Shown(t, short) BY <1>2, <1>4, <1>8, <2>4 DEF Shown
  <2> QED BY <1>1, <1>2, <2>2, <2>3, <2>4, <2>5, <2>6, ReturnKeeps
<1>9. CASE FoundReturns
  <2>1. CASE Child.out \in Stops
    <3>1. Return(Finished(Losing(Parent, Child.loss), Child.out)) BY <1>9, <2>1 DEF FoundReturns
    <3> QED BY <1>5, <1>7, <2>1, <3>1
  <2>2. CASE Child.out \notin Stops
    <3> DEFINE o == Defer(Parent.out, Child.out)
               l == Losing(Parent, Child.loss)
    <3>1. Return([l EXCEPT !.out = Defer(@, Child.out)]) BY <1>9, <2>2 DEF FoundReturns
    <3>2. l \in Frame /\ l.out = Parent.out BY <1>2, <1>5, LosingFrame
    <3>3. [l EXCEPT !.out = Defer(@, Child.out)] = [l EXCEPT !.out = o] BY <3>2 DEF Frame
    <3>4. /\ o \in Outcomes /\ (Parent.out # "clean" => o # "clean")
          /\ "known" \in Child.loss => o # "clean" \/ short # "no"
      BY <1>4, <1>5, <1>6 DEF Defer, Marked
    <3> HIDE DEF o
    <3> QED BY <1>5, <1>8, <3>1, <3>3, <3>4
  <2> QED BY <2>1, <2>2
<1>10. ASSUME NEW proven \in BOOLEAN, ArchiveReturns(proven) PROVE LossInv'
  <2> DEFINE guess == Child.out \in {"unscannable", "password"} /\ ~proven
             b == Forgotten(Child.loss, guess, "chance")
  <2>0. b \in SUBSET Causes /\ ("known" \in b <=> Marked(Child) /\ ~guess)
    BY <1>5, KnownCauses DEF Unmarked, Marked
  <2>1. "known" \in b /\ Child.out \notin Stops => proven \/ short # "no"
    BY <1>5, <1>6, <2>0 DEF Outcomes, Stops
  <2>2. proven => Child.out = "password" BY <1>10 DEF ArchiveReturns
  <2>3. Return(IF Child.out \in Stops THEN Finished(Losing(Parent, b), Child.out)
               ELSE IF proven THEN [Losing(Parent, b) EXCEPT !.out = "password"]
               ELSE Losing(Parent, b))
    BY <1>10 DEF ArchiveReturns
  <2> HIDE DEF b
  <2>4. CASE Child.out \in Stops BY <1>7, <2>0, <2>3, <2>4
  <2>5. CASE Child.out \notin Stops /\ proven
    <3>1. Return([Losing(Parent, b) EXCEPT !.out = "password"]) BY <2>3, <2>5
    <3> QED BY <1>8, <2>0, <2>1, <2>2, <2>5, <3>1 DEF Outcomes
  <2>6. CASE Child.out \notin Stops /\ ~proven
    <3>1. Return(Losing(Parent, b)) BY <2>3, <2>6
    <3>2. Losing(Parent, b) \in Frame /\ Losing(Parent, b).out = Parent.out
      BY <1>2, <2>0, LosingFrame
    <3>3. [Losing(Parent, b) EXCEPT !.out = Parent.out] = Losing(Parent, b)
      BY <3>2 DEF Frame
    <3> QED BY <1>4, <1>8, <2>0, <2>1, <2>6, <3>1, <3>3
  <2> QED BY <2>4, <2>5, <2>6
<1> QED BY <1>9, <1>10

\* A clean verdict is given to an object that shows no loss.
LEMMA ReportKeeps ==
    ASSUME LossInv, NEW over \in BOOLEAN, NEW unread \in BOOLEAN, Report(over, unread)
    PROVE  LossInv'
<1> DEFINE b == over \/ unread
           t == Losing(Top, When(b, "known"))
<1>1. Len(stack) = 1 /\ Top.pc = "done" /\ verdict = "none" /\ short' = short BY DEF Report
<1>2. Top \in Frame /\ Sound(Top) /\ Shown(Top, short) BY <1>1, TopKnown
<1>3. Become(t) BY DEF Report
<1>4. b \in BOOLEAN OBVIOUS
<1>5. verdict' = "clean" => ~over /\ ~unread /\ Unfinished(Top.out) = "clean"
  BY LimitIsShown DEF Report
<1>6. verdict' # "none"
  <2>1. Top.out # "none" BY <1>2 DEF Frame, Outcomes
  <2>2. Unfinished(Top.out) # "none" BY <2>1, LimitIsShown DEF Unfinished
  <2> QED BY <2>2 DEF Report
<1>7. Unfinished(Top.out) = "clean" => Top.out = "clean" /\ short = "no"
  BY LimitIsShown DEF Unfinished, LossInv
<1>8. verdict' = "clean" => ~Marked(Top) /\ ~b
  BY <1>1, <1>2, <1>5, <1>7 DEF Shown, Sound, Walking
<1> HIDE DEF b
<1>9. t \in Frame /\ Sound(t) /\ t.pc = "done" /\ (Marked(t) <=> Marked(Top) \/ b)
  <2>1. t \in Frame /\ t.pc = "done" /\ (Marked(t) <=> Marked(Top) \/ b)
    BY <1>1, <1>2, <1>4, MarkedCause, LosingFrame
  <2>2. Sound(t) BY <1>2, <1>4, MarkedCause, LosingSound
  <2> QED BY <2>1, <2>2
<1> HIDE DEF t
<1>10. stack' \in Seq(Frame) /\ Len(stack') = 1 /\ stack'[1] = t
  BY <1>1, <1>3, <1>9, BecomeStack DEF LossInv
<1>11. Top' = t BY <1>10 DEF Top
<1>12. CleanIsExamined'
  BY <1>8, <1>9, <1>10 DEF CleanIsExamined, Frame, Causes, Marked
<1> QED BY <1>1, <1>6, <1>9, <1>10, <1>11, <1>12 DEF LossInv

\* The invariant holds of the input alone, and every step keeps it.
LEMMA LossInit == Init => LossInv
<1> SUFFICES ASSUME Init PROVE LossInv OBVIOUS
<1>1. PICK kind \in Kinds : stack = <<Object(kind, "top", TRUE, TRUE)>> BY DEF Init
<1> DEFINE o == Object(kind, "top", TRUE, TRUE)
<1>2. "top" \in Vias BY DEF Vias
<1>3. o \in Frame /\ Sound(o) /\ ~Marked(o) BY <1>2, ObjectFrame
<1>4. stack = <<o>> BY <1>1
<1> HIDE DEF o
<1>5. stack \in Seq(Frame) /\ Len(stack) = 1 /\ stack[1] = o BY <1>3, <1>4
<1>6. \A i \in 1..Len(stack) : Sound(stack[i]) /\ Shown(stack[i], short)
  BY <1>3, <1>5 DEF Shown
<1>7. short = "no" /\ verdict = "none" BY DEF Init
<1> QED BY <1>5, <1>6, <1>7 DEF LossInv, CleanIsExamined

\* Every step of the scan keeps the losses in sight.
LEMMA LossStep == LossInv /\ [Next]_vars => LossInv'
<1> SUFFICES ASSUME LossInv, [Next]_vars PROVE LossInv' OBVIOUS
<1>2. ASSUME NEW hit \in BOOLEAN, NEW cut \in {"no", "plain", "capped"},
             NEW hidden \in BOOLEAN, Match(hit, cut, hidden)
      PROVE  LossInv'
  BY <1>2, MatchKeeps
<1>3. ASSUME NEW via \in {"carried", "unpacked", "second", "image", "archive"},
             NEW kind \in Kinds, Find(via, kind)
      PROVE  LossInv'
  BY <1>3, FindKeeps
<1>4. CASE \/ ReadAgain \/ UnpackedTooDeep
           \/ \E hides \in BOOLEAN : FixedPoint(hides)
  BY <1>4, LesserStepsKeep
<1>5. ASSUME NEW capped \in BOOLEAN, NEW hidden \in BOOLEAN, Found(capped, hidden)
      PROVE  LossInv'
  BY <1>5, FoundKeeps
<1>6. CASE \/ WalkStart \/ MetadataHit \/ NotHeld \/ Hold \/ NoMoreMembers
           \/ \E encrypted \in BOOLEAN : NotDecoded(encrypted)
           \/ \E corrupt \in BOOLEAN : WalkFails(corrupt)
  BY <1>6, WalkKeeps
<1>7. ASSUME NEW via \in {"bytes", "stream", "cut"}, NEW kind \in Kinds, Member(via, kind)
      PROVE  LossInv'
  BY <1>7, MemberKeeps
<1>8. ASSUME NEW kind \in Kinds, NEW gap \in BOOLEAN, Rejoin(kind, gap) PROVE LossInv'
  BY <1>8, RejoinKeeps
<1>9. ASSUME NEW encrypted \in BOOLEAN, Walked(encrypted) PROVE LossInv'
  BY <1>9, WalkedKeeps
<1>10. CASE MemberReturns BY <1>10, MemberReturnsKeeps
<1>11. CASE FoundReturns \/ \E proven \in BOOLEAN : ArchiveReturns(proven)
  BY <1>11, FoundReturnsKeeps
<1>12. ASSUME NEW over \in BOOLEAN, NEW unread \in BOOLEAN, Report(over, unread) PROVE LossInv'
  BY <1>12, ReportKeeps
<1>13. CASE UNCHANGED vars
  <2>1. stack' = stack /\ short' = short /\ verdict' = verdict BY <1>13 DEF vars
  <2> QED BY <2>1 DEF LossInv, CleanIsExamined, Top
<1>14. CASE Done BY <1>13, <1>14 DEF Done
<1> QED
  BY <1>2, <1>3, <1>4, <1>5, <1>6, <1>7, <1>8, <1>9, <1>10, <1>11, <1>12, <1>13, <1>14 DEF Next

\* "Not-fully-scanned is never `Clean`" (lib.rs), of what the code knows of: under
\* a clean verdict nothing was kept from being examined, at any depth of nesting
\* and for any limits, but by one of the five causes in Unmarked, for which the
\* code keeps no mark.  (A depth limit is among them: encoded payloads and carving
\* that nobody looks for at the recursion limit.)
THEOREM ScanIsHonest == Spec => []CleanIsExamined
<1>1. LossInv => CleanIsExamined BY DEF LossInv
<1> QED BY <1>1, LossInit, LossStep, PTL DEF Spec
-----------------------------------------------------------------------------
(***************************************************************************)
(* Detections.                                                             *)
(***************************************************************************)
\* The object on top after a step.
LEMMA TopAfter ==
    ASSUME LossInv, NEW t
    PROVE  /\ Become(t) => Top' = t
           /\ Len(stack) > 1 /\ Return(t) => Top' = t
<1>1. stack \in Seq(Frame) /\ Len(stack) \in Nat \ {0} BY DEF LossInv
<1>2. Become(t) => Top' = t BY <1>1 DEF Become, Top
<1>3. ASSUME Len(stack) > 1, Return(t) PROVE Top' = t
  <2> DEFINE below == SubSeq(stack, 1, Len(stack) - 2)
  <2>1. below \in Seq(Frame) BY <1>1
  <2>2. stack' = Append(below, t) BY <1>3 DEF Return
  <2> HIDE DEF below
  <2>3. Len(stack') = Len(below) + 1 /\ stack'[Len(below) + 1] = t BY <2>1, <2>2
  <2> QED BY <2>3 DEF Top
<1> QED BY <1>2, <1>3

\* Away from a finished object and the end of a walk no detection is pending,
\* and a step that makes none has nothing to hand on.
LEMMA NothingPending ==
    ASSUME HitInv, verdict = "none", verdict' = "none", Top.pc \notin {"done", "walked"},
           found' = found, late' = late, opts' = opts, listed => listed'
    PROVE  HitInv'
BY DEF HitInv

\* A match stops the object, or is listed.
LEMMA MatchKeepsHits ==
    ASSUME LossInv, HitInv, NEW hit \in BOOLEAN, NEW cut \in {"no", "plain", "capped"},
           NEW hidden \in BOOLEAN, Match(hit, cut, hidden)
    PROVE  HitInv'
<1>1. /\ Top.pc \in {"core", "carried", "checks"} /\ found' = (found \/ hit)
      /\ listed' = (listed \/ (hit /\ opts.all)) /\ opts' = opts /\ late' = late
      /\ verdict' = verdict
  BY DEF Match
<1>2. verdict = "none" /\ verdict' = "none" /\ Top \in Frame BY <1>1, TopKnown
<1>3. CASE ~hit BY <1>1, <1>2, <1>3 DEF HitInv
<1>4. CASE hit /\ opts.all BY <1>1, <1>2, <1>4 DEF HitInv
<1>5. CASE hit /\ ~opts.all
  <2> DEFINE t == Losing(Top, When(cut # "no", "known") \cup When(hidden, "deep"))
  <2>1. Become(Finished(t, "infected")) BY <1>5 DEF Match
  <2>2. t \in Frame BY <1>2, MarkedCause, KnownCauses, LosingFrame DEF Unmarked
  <2> HIDE DEF t
  <2>3. Finished(t, "infected").pc = "done" /\ Finished(t, "infected").out = "infected"
    BY <2>2, FinishedFrame DEF Outcomes
  <2>4. Top' = Finished(t, "infected") BY <2>1, TopAfter
  <2> QED BY <1>2, <2>3, <2>4 DEF HitInv
<1> QED BY <1>3, <1>4, <1>5

\* A hit on metadata ends the walk, or is listed.
LEMMA MetadataKeepsHits ==
    ASSUME LossInv, HitInv, MetadataHit
    PROVE  HitInv'
<1>1. /\ Top.pc = "members" /\ listed' = (listed \/ opts.all) /\ opts' = opts
      /\ verdict' = verdict
      /\ Become(IF opts.all THEN Top ELSE [Top EXCEPT !.pc = "walked", !.term = "infected"])
  BY DEF MetadataHit
<1>2. verdict = "none" /\ verdict' = "none" /\ Top \in Frame BY <1>1, TopKnown
<1>3. CASE opts.all BY <1>1, <1>2, <1>3 DEF HitInv
<1>4. CASE ~opts.all
  <2>1. Top' = [Top EXCEPT !.pc = "walked", !.term = "infected"] BY <1>1, <1>4, TopAfter
  <2>2. Top'.pc = "walked" /\ Top'.term = "infected" BY <1>2, <2>1 DEF Frame
  <2> QED BY <1>2, <2>2 DEF HitInv
<1> QED BY <1>3, <1>4

\* A walk that a detection ended, or that ends with one, ends its object.
LEMMA WalkedKeepsHits ==
    ASSUME LossInv, HitInv, NEW encrypted \in BOOLEAN, Walked(encrypted)
    PROVE  HitInv'
<1> DEFINE b == Top.held /\ Top.term # "clean"
           c == When(b, "known")
           t == Losing(Top, c)
           o == IF encrypted THEN "infected"
                ELSE IF Top.term # "clean" THEN Top.term ELSE TallyVerdict(Top)
<1>1. /\ Top.pc = "walked" /\ found' = (found \/ encrypted) /\ listed' = listed /\ opts' = opts
      /\ late' = late /\ verdict' = verdict /\ Become(AfterWalk(t, o))
  BY DEF Walked
<1>2. verdict = "none" /\ verdict' = "none" /\ Top \in Frame BY <1>1, TopKnown
<1>3. b \in BOOLEAN BY <1>2 DEF Frame
<1>4. t \in Frame
  <2> HIDE DEF b
  <2> QED BY <1>2, <1>3, MarkedCause, LosingFrame
<1>5. encrypted \/ Top.term = "infected" => o = "infected" OBVIOUS
<1> HIDE DEF b, c, t, o
<1>6. ASSUME o = "infected" PROVE Top'.pc = "done" /\ Top'.out = "infected"
  <2>1. AfterWalk(t, o) = Finished(t, "infected") BY <1>6 DEF AfterWalk, Defer, Stops
  <2>2. Top' = Finished(t, "infected") BY <1>1, <2>1, TopAfter
  <2> QED BY <1>4, <2>2, FinishedFrame DEF Outcomes
<1> QED BY <1>1, <1>2, <1>5, <1>6 DEF HitInv

\* A member's detection ends the walk it was met in, unless its charge is in the way.
LEMMA MemberReturnsHits ==
    ASSUME LossInv, HitInv, MemberReturns
    PROVE  HitInv'
<1> DEFINE stop == MemberStop(Child.out)
           muted == Child.out = "alert" /\ stop = "clean"
           streamed == Child.via \in {"stream", "cut"}
           term == IF streamed /\ Overdrawn(Child.via) THEN LimitOutcome ELSE stop
           kept == (IF Child.via = "cut" /\ stop = "clean" THEN {"unscannable"} ELSE {})
                     \cup ({Child.out} \cap {"unscannable", "password"})
           b == When(Child.via = "cut", "known") \cup Forgotten(Child.loss, muted, "ignored")
           p == Losing(Parent, b)
           t == [p EXCEPT !.tally = @ \cup kept, !.term = term,
                          !.pc = IF term # "clean" THEN "walked" ELSE @]
<1>1. /\ Len(stack) > 1 /\ Top.pc = "done" /\ found' = found /\ listed' = listed /\ opts' = opts
      /\ late' = (late \/ (stop = "infected" /\ term # "infected")) /\ verdict' = verdict
  BY DEF MemberReturns, Child
<1>2. Return(t) BY DEF MemberReturns
<1>3. /\ verdict = "none" /\ verdict' = "none" /\ Parent \in Frame /\ Top \in Frame
  BY <1>1, TopKnown
<1>4. b \in SUBSET Causes
  <2>1. Child.loss \in SUBSET Causes BY <1>3 DEF Frame, Child
  <2> QED BY <2>1, MarkedCause, KnownCauses DEF Unmarked
<1>5. Top.out = "infected" => stop = "infected" BY DEF MemberStop, Stops, Child
<1> HIDE DEF stop, term, kept, b
<1>6. p \in Frame BY <1>3, <1>4, LosingFrame
<1> HIDE DEF p
<1>7. term = "infected" => t.pc = "walked" /\ t.term = "infected" BY <1>6 DEF Frame
<1>8. Top' = t BY <1>1, <1>2, TopAfter
<1> HIDE DEF t
<1> QED BY <1>1, <1>3, <1>5, <1>7, <1>8 DEF HitInv

\* A detection in what was found stops the object it was found in.
LEMMA FoundReturnsHits ==
    ASSUME LossInv, HitInv, FoundReturns \/ \E proven \in BOOLEAN : ArchiveReturns(proven)
    PROVE  HitInv'
<1>1. /\ Len(stack) > 1 /\ Top.pc = "done" /\ found' = found /\ listed' = listed /\ opts' = opts
      /\ late' = late /\ verdict' = verdict
  BY DEF FoundReturns, ArchiveReturns, Child
<1>2. verdict = "none" /\ verdict' = "none" /\ Parent \in Frame /\ Top \in Frame
  BY <1>1, TopKnown
<1>3. ASSUME Top.out = "infected" PROVE Top'.pc = "done" /\ Top'.out = "infected"
  <2>1. \E b \in SUBSET Causes : Return(Finished(Losing(Parent, b), "infected"))
    <3>1. Child.out = "infected" /\ Child.out \in Stops /\ Child.loss \in SUBSET Causes
      BY <1>2, <1>3 DEF Child, Stops, Frame
    <3>2. CASE FoundReturns
      <4>1. Return(Finished(Losing(Parent, Child.loss), "infected")) BY <3>1, <3>2 DEF FoundReturns
      <4> QED BY <3>1, <4>1
    <3>3. ASSUME NEW proven \in BOOLEAN, ArchiveReturns(proven)
          PROVE  \E b \in SUBSET Causes : Return(Finished(Losing(Parent, b), "infected"))
      <4> DEFINE guess == Child.out \in {"unscannable", "password"} /\ ~proven
                 b == Forgotten(Child.loss, guess, "chance")
      <4>1. Return(Finished(Losing(Parent, b), "infected")) BY <3>1, <3>3 DEF ArchiveReturns
      <4>2. b \in SUBSET Causes BY <3>1, KnownCauses DEF Unmarked
      <4> HIDE DEF b
      <4> QED BY <4>1, <4>2
    <3> QED BY <3>2, <3>3
  <2>2. PICK b \in SUBSET Causes : Return(Finished(Losing(Parent, b), "infected")) BY <2>1
  <2>3. Losing(Parent, b) \in Frame BY <1>2, LosingFrame
  <2>4. Top' = Finished(Losing(Parent, b), "infected") BY <1>1, <2>2, TopAfter
  <2> QED BY <2>3, <2>4, FinishedFrame DEF Outcomes
<1> QED BY <1>1, <1>2, <1>3 DEF HitInv

\* The report is of what is on the input, or an error.
LEMMA ReportKeepsHits ==
    ASSUME LossInv, HitInv, NEW over \in BOOLEAN, NEW unread \in BOOLEAN, Report(over, unread)
    PROVE  HitInv'
<1>1. /\ Top.pc = "done" /\ verdict = "none" /\ found' = found /\ listed' = listed
      /\ opts' = opts /\ late' = late
  BY DEF Report
<1>2. Top \in Frame BY TopKnown
<1>3. Top.out = "infected" => verdict' \in {"infected", "error"} BY DEF Report, Unfinished
<1>4. verdict' # "none"
  <2>1. Unfinished(Top.out) # "none"
    BY <1>2, LimitIsShown DEF Unfinished, Frame, Outcomes
  <2> QED BY <2>1 DEF Report
<1> QED BY <1>1, <1>3, <1>4 DEF HitInv, DetectionIsKept

\* Every step keeps the invariant for detections, given the one for losses.
LEMMA HitStep == LossInv /\ HitInv /\ [Next]_vars => HitInv'
<1> SUFFICES ASSUME LossInv, HitInv, [Next]_vars PROVE HitInv' OBVIOUS
<1>2. ASSUME NEW hit \in BOOLEAN, NEW cut \in {"no", "plain", "capped"},
             NEW hidden \in BOOLEAN, Match(hit, cut, hidden)
      PROVE  HitInv'
  BY <1>2, MatchKeepsHits
<1>3. CASE \/ \E via \in {"carried", "unpacked", "second", "image", "archive"}, kind \in Kinds :
                 Find(via, kind)
           \/ ReadAgain \/ UnpackedTooDeep
           \/ \E capped \in BOOLEAN, hidden \in BOOLEAN : Found(capped, hidden)
  <2>1. /\ Top.pc \in {"carried", "unpacked", "second", "carve"} /\ verdict' = verdict
        /\ found' = found /\ late' = late /\ opts' = opts /\ listed' = listed
    BY <1>3 DEF Find, Sites, ReadAgain, UnpackedTooDeep, Found
  <2>2. verdict = "none" BY <2>1, TopKnown
  <2> QED BY <2>1, <2>2, NothingPending
<1>4. CASE \/ WalkStart \/ NotHeld \/ Hold \/ NoMoreMembers
           \/ \E encrypted \in BOOLEAN : NotDecoded(encrypted)
           \/ \E hides \in BOOLEAN : FixedPoint(hides)
           \/ \E corrupt \in BOOLEAN : WalkFails(corrupt)
           \/ \E via \in {"bytes", "stream", "cut"}, kind \in Kinds : Member(via, kind)
           \/ \E kind \in Kinds, gap \in BOOLEAN : Rejoin(kind, gap)
  <2>1. /\ Top.pc \in {"walk", "members", "held"} /\ verdict' = verdict
        /\ found' = found /\ late' = late /\ opts' = opts /\ listed' = listed
    BY <1>4 DEF WalkStart, NotHeld, Hold, NoMoreMembers, NotDecoded, FixedPoint, WalkFails,
                Member, Rejoin
  <2>2. verdict = "none" BY <2>1, TopKnown
  <2> QED BY <2>1, <2>2, NothingPending
<1>5. CASE MetadataHit BY <1>5, MetadataKeepsHits
<1>6. ASSUME NEW encrypted \in BOOLEAN, Walked(encrypted) PROVE HitInv'
  BY <1>6, WalkedKeepsHits
<1>7. CASE MemberReturns BY <1>7, MemberReturnsHits
<1>8. CASE FoundReturns \/ \E proven \in BOOLEAN : ArchiveReturns(proven)
  BY <1>8, FoundReturnsHits
<1>9. ASSUME NEW over \in BOOLEAN, NEW unread \in BOOLEAN, Report(over, unread) PROVE HitInv'
  BY <1>9, ReportKeepsHits
<1>10. CASE UNCHANGED vars BY <1>10 DEF vars, HitInv, DetectionIsKept, Top
<1>11. CASE Done BY <1>10, <1>11 DEF Done
<1> QED BY <1>2, <1>3, <1>4, <1>5, <1>6, <1>7, <1>8, <1>9, <1>10, <1>11 DEF Next

\* "A detection always beats a limit" (lib.rs): a signature that matched, at any
\* depth, is in the verdict or the list, unless the charge of a streamed member
\* dropped it or the input could not be read.
THEOREM DetectionIsReported == Spec => []DetectionIsKept
<1>1. Init => HitInv BY DEF Init, HitInv
<1>2. HitInv => DetectionIsKept BY DEF HitInv, DetectionIsKept
<1> QED BY <1>1, <1>2, LossInit, LossStep, HitStep, PTL DEF Spec
=============================================================================
