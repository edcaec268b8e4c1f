------------------------------ MODULE ScanWalk ------------------------------
(***************************************************************************)
(* The scan of one input (exav-core/src/lib.rs): `scan_object` and what it *)
(* calls, over the input and whatever is unpacked, decoded or carved out   *)
(* of it, until `report_of_outcome` turns the outcome into a verdict.      *)
(*                                                                         *)
(* The recursion is a stack with a frame for each object being scanned.    *)
(* What an object holds is not known beforehand: each step reveals some of *)
(* it (a signature in its bytes, a member, an appended archive, a codec    *)
(* nobody can decode) and takes the branch the code takes.  Bytes are      *)
(* counted in units: an object costs the scan budget one, a member decoded *)
(* whole two.                                                              *)
(***************************************************************************)
EXTENDS Integers, Sequences

CONSTANTS
    MaxRecursion,   \* Limits::max_recursion
    MaxScanned,     \* Limits::max_scanned_bytes
    MaxObjects,     \* bound: objects met in one scan, read or not
    Options         \* ScanOptions: --all-matches and alert_exceeds_max

ASSUME LimitsAssumption ==
    /\ {MaxRecursion, MaxScanned, MaxObjects} \subseteq Nat
    /\ Options \subseteq [all : BOOLEAN, alert : {"off", "on", "ignored"}]

VARIABLES
    stack,      \* the objects being scanned, the input first
    scanned,    \* Budget::scanned
    short,      \* SCAN_TRUNCATED, or SCAN_CAPPED / SCAN_OVER_SIZE over it
    listed,     \* Sink::All holds a name
    verdict,    \* the report, or "none" yet
    opts,       \* the options of this scan
    opened,     \* history: objects met
    found,      \* history: a signature that is not ignored has matched
    late        \* history: a detection was dropped by a charge after it

vars == <<stack, scanned, short, listed, verdict, opts, opened, found, late>>

Outcomes == {"clean", "infected", "alert", "limits", "unscannable", "password"}

(* What stops every walk above it: a detection, an alert that stands for a *)
(* limit (DeepOutcome::Infected both), a limit.                            *)
Stops == {"infected", "alert", "limits"}

(* An object as scan_object types it: an archive, an executable that is    *)
(* packed or a container of another kind, anything else, or one that is    *)
(* not scanned (below min_scan_bytes, or allowlisted).  A "second" reading *)
(* of an archive is walked and nothing more.                               *)
Kinds == {"archive", "packed", "installer", "file", "passed"}

(* Why something in an object was not examined.  "known": a limit, a cap, a *)
(* codec, encryption, a gap in a set, a read that failed.  The others are   *)
(* what the code leaves unexamined and keeps no mark of: an image or an     *)
(* encoded payload nobody looks for at the recursion limit ("deep") or in a *)
(* payload that was itself encoded ("payload"), what a decode error hid in  *)
(* a member taken for its own container ("twin"), what a limit kept from a  *)
(* member when the alert that stands for limits is an ignored name          *)
(* ("ignored"), and a carved archive nobody can read ("chance").            *)
Unmarked == {"deep", "payload", "twin", "ignored", "chance"}
Causes == {"known"} \cup Unmarked

(* Obj, with the verdict kept for later, a walk's MemberTally and outcome,  *)
(* and the parts held by its Collector.  `loss` is history: why something   *)
(* in it, at any depth, was not examined.                                   *)
Object(kind, via, core, carve) ==
    [kind |-> kind, via |-> via, core |-> core, carve |-> carve,
     pc |-> IF kind = "passed" THEN "done"
            ELSE IF kind = "second" THEN "walk"
            ELSE IF kind = "archive" THEN "carried"
            ELSE IF core THEN "core" ELSE "unpacked",
     out |-> "clean", tally |-> {}, term |-> "clean", held |-> FALSE, loss |-> {}]

Init ==
    /\ \E kind \in Kinds : stack = <<Object(kind, "top", TRUE, TRUE)>>
    /\ opts \in Options
    /\ scanned = 0 /\ short = "no" /\ listed = FALSE /\ verdict = "none"
    /\ opened = 1 /\ found = FALSE /\ late = FALSE

Depth == Len(stack) - 1
Top == stack[Len(stack)]
Become(t) == stack' = [stack EXCEPT ![Len(stack)] = t]

Losing(t, causes) == [t EXCEPT !.loss = @ \cup causes]
When(b, cause) == IF b THEN {cause} ELSE {}

(* A loss the code knew of, dropped for the given cause. *)
Forgotten(causes, b, cause) ==
    IF b /\ "known" \in causes THEN (causes \ {"known"}) \cup {cause} ELSE causes

(* The walk is over: its tally and what it held are dropped. *)
Left(t) == [t EXCEPT !.tally = {}, !.term = "clean", !.held = FALSE]

(* An object whose scan is over is its outcome, as if there were no more in *)
(* it than that.                                                            *)
Finished(t, o) ==
    [Object("passed", t.via, FALSE, FALSE) EXCEPT !.out = o, !.loss = t.loss]

GoesOn(t, pc) == IF pc = "done" THEN Finished(t, t.out) ELSE [t EXCEPT !.pc = pc]

(* limits_outcome *)
LimitOutcome == IF opts.alert = "off" THEN "limits" ELSE "alert"

Cost(via) == IF via = "bytes" THEN 2 ELSE 1

(* Budget::charge_scan: charged first, then compared.  Past the limit the   *)
(* sum no longer matters.                                                   *)
Overdrawn(via) == scanned + Cost(via) > MaxScanned
Charged(via) == IF Overdrawn(via) THEN MaxScanned + 1 ELSE scanned + Cost(via)

(* defer: keep the first outcome that does not stop the walk. *)
Defer(slot, o) == IF slot = "clean" THEN o ELSE slot

(* Mutant of TallyVerdict: a limit that did not stop the walk is forgotten. *)
TallyVerdictTwo(t) ==
    IF "password" \in t.tally THEN "password"
    ELSE IF "unscannable" \in t.tally THEN "unscannable" ELSE "clean"

(* MemberTally::verdict *)
TallyVerdict(t) ==
    IF "password" \in t.tally THEN "password"
    ELSE IF "limits" \in t.tally THEN "limits"
    ELSE IF "unscannable" \in t.tally THEN "unscannable" ELSE "clean"
-----------------------------------------------------------------------------
(***************************************************************************)
(* An object's own bytes: the matching core, the whole-buffer heuristics   *)
(* that end scan_carried, and the checks that end scan_file.               *)
(***************************************************************************)
AfterMatch(t) ==
    CASE t.pc = "core" -> "unpacked"
      [] t.pc = "carried" /\ t.kind = "file" -> "carve"
      [] t.pc = "carried" /\ t.kind # "file" -> "walk"
      [] t.pc = "checks" -> "done"

(* Sink::hit: a normal scan stops at the first detection, all-matches      *)
(* keeps its name and goes on.  A check that stopped short is marked, and  *)
(* so is a search for encoded payloads that reached its cap.  One that was *)
(* not made, past the recursion limit, is not.                             *)
Match(hit, cut, hidden) ==
    /\ Top.pc \in {"core", "carried", "checks"}
    /\ cut = "capped" => Top.pc = "carried" /\ Depth < MaxRecursion
    /\ hidden => Top.pc = "carried" /\ Depth >= MaxRecursion
    /\ found' = (found \/ hit)
    /\ listed' = (listed \/ (hit /\ opts.all))
    /\ short' = IF cut = "no" \/ short = "capped" THEN short ELSE cut
    /\ LET t == Losing(Top, When(cut # "no", "known") \cup When(hidden, "deep"))
       IN Become(IF hit /\ ~opts.all
                 THEN Finished(t, "infected")
                 ELSE GoesOn(t, AfterMatch(t)))
    /\ UNCHANGED <<scanned, verdict, opts, opened, late>>
-----------------------------------------------------------------------------
(***************************************************************************)
(* What is found inside an object rather than decoded from a container:    *)
(* the payloads it carries encoded, a bytecode unpacker's output, an       *)
(* archive's second reading, carved images and archives.                   *)
(***************************************************************************)
Sites == [carried |-> {"carried"}, unpacked |-> {"unpacked"},
          second |-> {"second"}, carve |-> {"image", "archive"}]

(* Whether the code looks for it: not past the recursion limit, and carving *)
(* only where Obj::carve allows.                                            *)
Looks(t) == Depth < MaxRecursion /\ (t.pc \in {"second", "carve"} => t.carve)

(* scan_found: charged, then scanned one level down. *)
Find(via, kind) ==
    /\ Top.pc \in DOMAIN Sites /\ via \in Sites[Top.pc] /\ Looks(Top)
    /\ opened < MaxObjects
    /\ opened' = opened + 1
    /\ scanned' = Charged(via)
    /\ IF Overdrawn(via)
       THEN Become(Finished(Losing(Top, {"known"}), LimitOutcome))
       ELSE stack' = Append(stack, Object(kind, via, via # "archive", via = "unpacked"))
    /\ UNCHANGED <<short, listed, verdict, opts, found, late>>

(* also_reads_as: the object itself, walked as the other archive it is. *)
ReadAgain ==
    /\ Top.pc = "second" /\ Looks(Top)
    /\ opened < MaxObjects
    /\ opened' = opened + 1
    /\ stack' = Append(stack, Object("second", "second", FALSE, FALSE))
    /\ UNCHANGED <<scanned, short, listed, verdict, opts, found, late>>

(* An unpacker's output past the recursion limit is a limit. *)
UnpackedTooDeep ==
    /\ Top.pc = "unpacked" /\ Depth >= MaxRecursion
    /\ Become(Finished(Losing(Top, {"known"}), LimitOutcome))
    /\ UNCHANGED <<scanned, short, listed, verdict, opts, opened, found, late>>

AfterFinding(t) ==
    CASE t.pc = "unpacked" /\ t.kind = "archive" -> "second"
      [] t.pc = "unpacked" /\ t.kind # "archive" -> "carried"
      [] t.pc = "carve" -> "checks"
      [] t.pc = "second" -> "done"

(* Nothing more is found.  Carving that reached its cap is marked.  Carving *)
(* that was not done, past the recursion limit or in a decoded payload, is  *)
(* not.                                                                     *)
Found(capped, hidden) ==
    /\ Top.pc \in {"unpacked", "second", "carve"}
    /\ capped => Looks(Top) /\ Top.pc # "unpacked"
    /\ hidden => Top.pc = "carve" /\ (Depth >= MaxRecursion \/ Top.via = "carried")
    /\ short' = IF capped THEN "capped" ELSE short
    /\ LET skipped == IF Depth >= MaxRecursion THEN "deep" ELSE "payload"
           t == Losing(Top, When(capped, "known") \cup When(hidden, skipped))
       IN Become(GoesOn(t, AfterFinding(Top)))
    /\ UNCHANGED <<scanned, listed, verdict, opts, opened, found, late>>
-----------------------------------------------------------------------------
(***************************************************************************)
(* walk_members: the container's members, one after the other.             *)
(***************************************************************************)
WalkStart ==
    /\ Top.pc = "walk"
    /\ Become(IF Depth >= MaxRecursion
              THEN [Losing(Top, {"known"}) EXCEPT !.pc = "walked", !.term = LimitOutcome]
              ELSE [Top EXCEPT !.pc = "members"])
    /\ UNCHANGED <<scanned, short, listed, verdict, opts, opened, found, late>>

(* member_metadata_scan finds a signature or an alert on the metadata. *)
MetadataHit ==
    /\ Top.pc = "members"
    /\ found' = TRUE
    /\ listed' = (listed \/ opts.all)
    /\ Become(IF opts.all THEN Top ELSE [Top EXCEPT !.pc = "walked", !.term = "infected"])
    /\ UNCHANGED <<scanned, short, verdict, opts, opened, late>>

(* A member that cannot be read, encrypted or not: noted, and the walk goes *)
(* on.                                                                      *)
NotDecoded(encrypted) ==
    /\ Top.pc = "members" /\ opened < MaxObjects
    /\ opened' = opened + 1
    /\ Become([Losing(Top, {"known"}) EXCEPT
                 !.tally = @ \cup {IF encrypted THEN "password" ELSE "unscannable"}])
    /\ UNCHANGED <<scanned, short, listed, verdict, opts, found, late>>

(* A member too large to hold that cannot be spilled: noted too, unless    *)
(* limits are alerts.                                                      *)
NotHeld ==
    /\ Top.pc = "members" /\ opened < MaxObjects
    /\ opened' = opened + 1
    /\ Become(LET t == Losing(Top, {"known"})
              IN IF LimitOutcome = "limits" THEN [t EXCEPT !.tally = @ \cup {"limits"}]
                 ELSE [t EXCEPT !.pc = "walked", !.term = "alert"])
    /\ UNCHANGED <<scanned, short, listed, verdict, opts, found, late>>

(* A member byte-identical to its container is passed over, and with it    *)
(* the decode error that ended it.                                         *)
FixedPoint(hides) ==
    /\ Top.pc = "members"
    /\ Become(Losing(Top, When(hides, "twin")))
    /\ UNCHANGED <<scanned, short, listed, verdict, opts, opened, found, late>>

(* A part of a volume set waits for the rest of it. *)
Hold ==
    /\ Top.pc = "members" /\ ~Top.held /\ opened < MaxObjects
    /\ opened' = opened + 1
    /\ Become([Top EXCEPT !.held = TRUE])
    /\ UNCHANGED <<scanned, short, listed, verdict, opts, found, late>>

(* unpack::walk ends with a LimitHit: a budget, or a container it cannot   *)
(* read (a decoder that panicked included).                                *)
WalkFails(corrupt) ==
    /\ Top.pc = "members"
    /\ Become([Losing(Top, {"known"}) EXCEPT
                 !.pc = "walked", !.term = IF corrupt THEN "unscannable" ELSE LimitOutcome])
    /\ UNCHANGED <<scanned, short, listed, verdict, opts, opened, found, late>>

(* A member that is read.  One decoded whole is charged first (emit_bytes),  *)
(* one decoded as it is read must fit what is left and is charged afterwards *)
(* (emit_stream).  One "cut" by a decode error that hides content is scanned *)
(* as far as it goes.                                                        *)
Member(via, kind) ==
    /\ Top.pc = "members" /\ via \in {"bytes", "stream", "cut"}
    /\ opened < MaxObjects
    /\ opened' = opened + 1
    /\ scanned' = IF via = "bytes" THEN Charged(via) ELSE scanned
    /\ IF Overdrawn(via)
       THEN Become([Losing(Top, {"known"}) EXCEPT !.pc = "walked", !.term = LimitOutcome])
       ELSE stack' = Append(stack, Object(kind, via, TRUE, TRUE))
    /\ UNCHANGED <<short, listed, verdict, opts, found, late>>

NoMoreMembers ==
    /\ Top.pc = "members"
    /\ Become([Top EXCEPT !.pc = IF Top.held THEN "held" ELSE "walked"])
    /\ UNCHANGED <<scanned, short, listed, verdict, opts, opened, found, late>>

(* The set that was held, rejoined or with a gap in it. *)
Rejoin(kind, gap) ==
    /\ Top.pc = "held"
    /\ scanned' = Charged("rejoined")
    /\ LET t == [Losing(Top, When(gap, "known")) EXCEPT
                   !.tally = @ \cup (IF gap THEN {"unscannable"} ELSE {}), !.pc = "walked"]
       IN IF Overdrawn("rejoined")
          THEN Become([Losing(t, {"known"}) EXCEPT !.term = LimitOutcome])
          ELSE stack' = Append([stack EXCEPT ![Len(stack)] = t],
                               Object(kind, "rejoined", TRUE, TRUE))
    /\ UNCHANGED <<short, listed, verdict, opts, opened, found, late>>

(* What a walk that ended with `o` does to its object.  An archive is       *)
(* matched whatever stopped it short of a detection; a packed executable is *)
(* carved.                                                                  *)
AfterWalk(t, o) ==
    IF t.kind = "second" THEN Finished(t, o)
    ELSE IF t.kind = "archive" THEN
        IF o \in {"infected", "alert"} \/ ~t.core THEN Finished(t, Defer(o, t.out))
        ELSE [Left(t) EXCEPT !.out = Defer(o, t.out), !.pc = "core"]
    ELSE IF o \in Stops THEN Finished(t, o)
    ELSE IF t.kind = "packed" THEN [Left(t) EXCEPT !.out = Defer(t.out, o), !.pc = "carve"]
    ELSE Finished(t, Defer(t.out, o))

(* The end of the walk: the name held for a member stored encrypted, then  *)
(* what stopped the walk, then the tally.                                  *)
Walked(encrypted) ==
    /\ Top.pc = "walked"
    /\ encrypted => ~opts.all /\ Top.term \notin {"infected", "alert"}
    /\ found' = (found \/ encrypted)
    /\ LET o == IF encrypted THEN "infected"
                ELSE IF Top.term # "clean" THEN Top.term ELSE TallyVerdict(Top)
       IN Become(AfterWalk(Losing(Top, When(Top.held /\ Top.term # "clean", "known")), o))
    /\ UNCHANGED <<scanned, short, listed, verdict, opts, opened, late>>
-----------------------------------------------------------------------------
(***************************************************************************)
(* An object's outcome goes to the object it was found in.                 *)
(***************************************************************************)
Child == Top
Parent == stack[Len(stack) - 1]
Return(t) == stack' = Append(SubSeq(stack, 1, Len(stack) - 2), t)

(* Mutant of MemberStop: only a limit stops the walk. *)
MemberStopAtLimit(o) == IF o = "limits" THEN o ELSE "clean"

(* member_content_scan: what of a member's outcome stops the walk.  An     *)
(* ignored name does not, and an alert has one.                            *)
MemberStop(o) ==
    IF o \in Stops /\ ~(o = "alert" /\ opts.alert = "ignored") THEN o ELSE "clean"

(* The tally keeps the rest; a streamed member is charged now, and a charge *)
(* that fails replaces what the member's scan said.                         *)
MemberReturns ==
    /\ Len(stack) > 1 /\ Child.pc = "done"
    /\ Child.via \in {"bytes", "stream", "cut", "rejoined"}
    /\ LET stop == MemberStop(Child.out)
           muted == Child.out = "alert" /\ stop = "clean"
           streamed == Child.via \in {"stream", "cut"}
           term == IF streamed /\ Overdrawn(Child.via) THEN LimitOutcome ELSE stop
           kept == (IF Child.via = "cut" /\ stop = "clean" THEN {"unscannable"} ELSE {})
                     \cup ({Child.out} \cap {"unscannable", "password"})
       IN /\ scanned' = IF streamed THEN Charged(Child.via) ELSE scanned
          /\ late' = (late \/ (stop = "infected" /\ term # "infected"))
          /\ Return([Losing(Parent, When(Child.via = "cut", "known")
                                      \cup Forgotten(Child.loss, muted, "ignored")) EXCEPT
                       !.tally = @ \cup kept,
                       !.term = term,
                       !.pc = IF term # "clean" THEN "walked" ELSE @])
    /\ UNCHANGED <<short, listed, verdict, opts, opened, found>>

FoundReturns ==
    /\ Len(stack) > 1 /\ Child.pc = "done"
    /\ Child.via \in {"carried", "unpacked", "second", "image"}
    /\ LET t == Losing(Parent, Child.loss)
       IN Return(IF Child.out \in Stops
                 THEN Finished(t, Child.out)
                 ELSE [t EXCEPT !.out = Defer(@, Child.out)])
    /\ UNCHANGED <<scanned, short, listed, verdict, opts, opened, found, late>>

(* A carved archive that could not be read is taken for a magic that is    *)
(* there by chance, unless it is encrypted and its structure proves it.    *)
ArchiveReturns(proven) ==
    /\ Len(stack) > 1 /\ Child.pc = "done" /\ Child.via = "archive"
    /\ proven => Child.out = "password" /\ Parent.kind = "file"
    /\ LET guess == Child.out \in {"unscannable", "password"} /\ ~proven
           t == Losing(Parent, Forgotten(Child.loss, guess, "chance"))
       IN Return(IF Child.out \in Stops THEN Finished(t, Child.out)
                 ELSE IF proven THEN [t EXCEPT !.out = "password"] ELSE t)
    /\ UNCHANGED <<scanned, short, listed, verdict, opts, opened, found, late>>

(* unfinished: a walk that found nothing, when a check did not finish. *)
Unfinished(o) ==
    IF o # "clean" THEN o
    ELSE IF short = "capped" THEN LimitOutcome
    ELSE IF short = "plain" THEN "limits" ELSE "clean"

(* report_of_outcome, analyze_all_source: the verdict on what was scanned,  *)
(* and over max_scan_size a limit unless something was found.  An input     *)
(* read by offset whose read failed is an error, whatever was found.        *)
Report(over, unread) ==
    /\ Len(stack) = 1 /\ Top.pc = "done" /\ verdict = "none"
    /\ LET o == Unfinished(Top.out)
           v == IF o \in {"infected", "alert"} THEN "infected"
                ELSE IF ~over THEN o
                ELSE IF LimitOutcome = "alert" THEN "infected" ELSE "limits"
       IN verdict' = IF unread THEN "error" ELSE v
    /\ Become(Losing(Top, When(over \/ unread, "known")))
    /\ UNCHANGED <<scanned, short, listed, opts, opened, found, late>>

(* The report has been made. *)
Done == verdict # "none" /\ UNCHANGED vars

Next ==
    \/ \E hit, hidden \in BOOLEAN, cut \in {"no", "plain", "capped"} :
          Match(hit, cut, hidden)
    \/ \E via \in {"carried", "unpacked", "second", "image", "archive"}, kind \in Kinds :
          Find(via, kind)
    \/ ReadAgain
    \/ UnpackedTooDeep
    \/ \E capped, hidden \in BOOLEAN : Found(capped, hidden)
    \/ WalkStart
    \/ MetadataHit
    \/ \E encrypted \in BOOLEAN : NotDecoded(encrypted)
    \/ NotHeld
    \/ \E hides \in BOOLEAN : FixedPoint(hides)
    \/ Hold
    \/ \E corrupt \in BOOLEAN : WalkFails(corrupt)
    \/ \E via \in {"bytes", "stream", "cut"}, kind \in Kinds : Member(via, kind)
    \/ NoMoreMembers
    \/ \E kind \in Kinds, gap \in BOOLEAN : Rejoin(kind, gap)
    \/ \E encrypted \in BOOLEAN : Walked(encrypted)
    \/ MemberReturns
    \/ FoundReturns
    \/ \E proven \in BOOLEAN : ArchiveReturns(proven)
    \/ \E over, unread \in BOOLEAN : Report(over, unread)
    \/ Done

Spec == Init /\ [][Next]_vars
-----------------------------------------------------------------------------
(***************************************************************************)
(* Properties                                                              *)
(***************************************************************************)
\* "Not-fully-scanned is never `Clean`", of what the code knows it has not
\* examined: whatever a limit, a codec, encryption, a cap or a failed read kept
\* from being examined, at any depth and however many objects returned above it,
\* the verdict says so, in a normal scan and in the outcome that goes with
\* `--all-matches`.  A clean verdict leaves unexamined only what is in Unmarked:
\* what nothing looks for at the recursion limit or in an encoded payload, the
\* rest of a member taken for its container, what an ignored alert stood for, and
\* carved archives nobody can read.  (Encoded payloads and carving at the
\* recursion limit are a depth limit by the words of the source, and not kept.)
CleanIsExamined == verdict = "clean" => stack[1].loss \subseteq Unmarked

\* "A detection always beats a limit": a signature that matched, that is not
\* ignored, is in the verdict or the list, whatever else stopped the scan.
\* Two things take it away again: the charge of a streamed member whose scan
\* found it, and a failed read of an input that is not held in memory.
DetectionIsKept ==
    verdict # "none" /\ found /\ ~late =>
        verdict \in {"infected", "error"} \/ (opts.all /\ listed)

\* "Limits bound work; they never suppress a hit already found."
LimitsSuppressNothing ==
    verdict \notin {"none", "error"} /\ found => verdict = "infected" \/ (opts.all /\ listed)

\* "Not-fully-scanned is never `Clean`", to the letter.  The code does not keep
\* it: every cause in Unmarked reaches a clean verdict.
NotFullyScannedIsNeverClean == verdict = "clean" => stack[1].loss = {}
=============================================================================
