------------------------- MODULE ClamdSessionProofs -------------------------
(***************************************************************************)
(* That the daemon and its clients stay in step on a clamd connection, and *)
(* that OK, a list and a detection mean what they say, for any chunks, any *)
(* limits and any number of requests and files.                            *)
(*                                                                         *)
(* Each step of the daemon fixes where on the stream the client is; while  *)
(* a file is read, what is held of it and why not more is.                 *)
(***************************************************************************)
EXTENDS ClamdSession, TLAPS

Stream ==
    [remaining : Nat, done : BOOLEAN, truncated : BOOLEAN, total : Nat, over : BOOLEAN,
     kept : Nat, short : BOOLEAN, drained : Nat, failed : BOOLEAN]

FileEntry ==
    [name : Names, status : Status, whole : BOOLEAN, size : Nat, ended : BOOLEAN,
     cut : BOOLEAN, malware : BOOLEAN, seen : BOOLEAN]

Typed ==
    /\ at \in {"command", "name", "chunk", "data", "eof"}
    /\ pc \in {"command", "name", "buffer", "drain", "scan", "sets", "reply", "closed", "lost"}
    /\ session \in BOOLEAN
    /\ policy \in Policies
    /\ str \in Stream
    /\ sent \in Seq(Names)
    /\ entries \in Seq(FileEntry)

\* Nothing of an earlier request is left when a command is read, and a reply
\* is there only to be written.
Fresh ==
    /\ pc = "command" => str = NewStream /\ entries = <<>> /\ sent = <<>>
    /\ pc # "reply" => reply = NoReply

\* `drain` stopped at its cap.
Capped == str.drained >= MAX_DRAIN_BYTES

\* While a file is read, its end is the client's end of it.
Framed ==
    pc \in {"buffer", "drain", "scan"} =>
        /\ req \in Streams
        /\ ~str.done => ~str.truncated /\ at \in {"chunk", "data", "eof"}
        /\ str.truncated => at = "eof"
        /\ str.done /\ ~str.truncated =>
              IF req = "MULTI" THEN at \in {"name", "eof"} ELSE at = "command"

\* All of it is held but for a limit, a refusal or a failure, and only these
\* leave something to drain.
Held ==
    pc \in {"buffer", "drain", "scan"} =>
        /\ str.over => str.total > MaxScan
        /\ ~str.over /\ ~str.short /\ ~str.failed => str.kept = str.total /\ str.drained = 0
        /\ pc = "buffer" => ~str.failed /\ str.drained = 0 /\ (~str.over => str.total <= MaxScan)
        /\ pc = "drain" => str.done \/ str.over \/ str.short \/ str.failed
        /\ pc = "scan" => str.done \/ str.failed \/ Capped

\* The entries are of the files sent, but for the one being read.
Listed ==
    /\ pc \in {"name", "sets"} \/ (pc \in {"buffer", "drain", "scan"} /\ req = "MULTI") =>
          /\ Len(sent) = Len(entries) + (IF pc \in {"name", "sets"} THEN 0 ELSE 1)
          /\ \A i \in 1..Len(entries) : entries[i].name = sent[i]

\* An entry's own status is true of the file.
EntryTrue(e) ==
    /\ e.status = "OK" => ~e.cut /\ (policy # "OK" => e.ended /\ ~e.malware)
    /\ e.seen => e.status \in {"FOUND", "ERROR"}

\* Between the files of a request, and after them.
Placed ==
    /\ pc = "name" => req = "MULTI" /\ at \in {"name", "eof"}
    /\ pc = "sets" => (str.truncated <=> at # "command") /\ (at \in {"command", "eof"} \/ Capped)
    /\ pc = "reply" => reply = Refused \/ at \in {"command", "eof"} \/ Capped

\* The inductive invariant.
SessionInv ==
    /\ Typed
    /\ Fresh
    /\ Framed
    /\ Held
    /\ Listed
    /\ \A i \in 1..Len(entries) : EntryTrue(entries[i])
    /\ Placed
    /\ InStep
    /\ OkMeansExamined
    /\ ListIsWhole
    /\ DetectionStands
-----------------------------------------------------------------------------
(***************************************************************************)
(* Facts the steps share.                                                  *)
(***************************************************************************)
\* A stream that has not begun.
LEMMA NewStreamTyped ==
    /\ NewStream \in Stream /\ ~NewStream.done /\ ~NewStream.truncated /\ ~NewStream.over
    /\ ~NewStream.short /\ ~NewStream.failed /\ NewStream.total = 0 /\ NewStream.kept = 0
    /\ NewStream.drained = 0
BY DEF NewStream, Stream

\* Where nothing has been decided there is nothing to be wrong about.
LEMMA NoVerdict ==
    ASSUME reply' \in {NoReply, Refused}
    PROVE  OkMeansExamined' /\ ListIsWhole' /\ DetectionStands'
<1>1. reply'.kind \in {"none", "refused"} BY DEF NoReply, Refused
<1> QED BY <1>1 DEF OkMeansExamined, ListIsWhole, DetectionStands

\* The parts of a set, and which are reported, are the entries' alone.
LEMMA SameFiles ==
    ASSUME entries' = entries
    PROVE  Reported' = Reported /\ \A n : FirstOf(n)' = FirstOf(n)
<1>1. \A n : FirstOf(n)' = FirstOf(n) BY DEF FirstOf
<1>2. PartsSent' = PartsSent BY DEF PartsSent
<1>3. Fetched' = Fetched BY <1>1, <1>2 DEF Fetched
<1>4. [n \in Fetched |-> entries[FirstOf(n)].size]' = [n \in Fetched |-> entries[FirstOf(n)].size]
  BY <1>1, <1>3
<1>5. Broken' = Broken BY <1>2, <1>3, <1>4 DEF Broken
<1> QED BY <1>1, <1>3, <1>5 DEF Reported

\* A step within a file keeps the invariant if it keeps what is said of the file.
LEMMA FileStep ==
    ASSUME SessionInv, pc \in {"buffer", "drain"}, pc' \in {"buffer", "drain", "scan"},
           UNCHANGED <<sent, session, req, entries, reply, policy>>,
           str' \in Stream, at' \in {"command", "name", "chunk", "data", "eof"},
           Framed', Held'
    PROVE  SessionInv'
<1>1. Typed' BY DEF SessionInv, Typed
<1>2. Fresh' /\ reply' = NoReply BY DEF SessionInv, Fresh
<1>3. Listed' BY DEF SessionInv, Listed
<1>4. \A i \in 1..Len(entries') : EntryTrue(entries[i])' BY DEF SessionInv, EntryTrue
<1>5. Placed' /\ InStep' BY DEF Placed, InStep
<1> QED BY <1>1, <1>2, <1>3, <1>4, <1>5, NoVerdict DEF SessionInv

\* The connection ends, or nothing more is said of it.
LEMMA CloseStep ==
    ASSUME SessionInv, pc' \in {"closed", "lost"}, reply' = NoReply,
           UNCHANGED <<at, sent, session, req, str, entries, policy>>
    PROVE  SessionInv'
<1>1. Typed' BY DEF SessionInv, Typed
<1>2. Fresh' /\ Framed' /\ Held' /\ Listed' /\ Placed' /\ InStep'
  BY DEF Fresh, Framed, Held, Listed, Placed, InStep
<1>3. \A i \in 1..Len(entries') : EntryTrue(entries[i])' BY DEF SessionInv, EntryTrue
<1> QED BY <1>1, <1>2, <1>3, NoVerdict DEF SessionInv
-----------------------------------------------------------------------------
(***************************************************************************)
(* The command loop.                                                       *)
(***************************************************************************)
LEMMA CommandKeeps ==
    ASSUME SessionInv,
           \/ StartSession \/ EndSession \/ RunPlain \/ ReadStray
           \/ \E verb \in Streams : RunStream(verb)
    PROVE  SessionInv'
<1>1. pc = "command" BY DEF StartSession, EndSession, RunPlain, ReadStray, RunStream
<1>2. str = NewStream /\ entries = <<>> /\ sent = <<>> /\ reply = NoReply
  BY <1>1 DEF SessionInv, Fresh
<1>3. CASE EndSession \/ ReadStray BY <1>2, <1>3, CloseStep DEF EndSession, ReadStray
<1>4. CASE StartSession
  <2>1. /\ UNCHANGED <<at, sent, pc, req, str, entries, reply, gaveUp, policy>> /\ session' = TRUE
    BY <1>4 DEF StartSession
  <2>2. Typed' BY <2>1 DEF SessionInv, Typed
  <2>3. Fresh' /\ Framed' /\ Held' /\ Listed' /\ Placed' /\ InStep'
    BY <1>1, <2>1 DEF SessionInv, Fresh, Framed, Held, Listed, Placed, InStep
  <2>4. \A i \in 1..Len(entries') : EntryTrue(entries[i])'
    BY <2>1 DEF SessionInv, EntryTrue
  <2> QED BY <1>2, <2>1, <2>2, <2>3, <2>4, NoVerdict DEF SessionInv
<1>5. CASE RunPlain
  <2>1. /\ UNCHANGED <<at, sent, session, str, entries, reply, policy>> /\ at = "command"
        /\ pc' = "reply"
    BY <1>5 DEF RunPlain
  <2>2. Typed' BY <2>1 DEF SessionInv, Typed
  <2>3. Fresh' /\ Framed' /\ Held' /\ Listed' /\ Placed' /\ InStep'
    BY <2>1 DEF Fresh, Framed, Held, Listed, Placed, InStep
  <2>4. \A i \in 1..Len(entries') : EntryTrue(entries[i])'
    BY <2>1 DEF SessionInv, EntryTrue
  <2> QED BY <1>2, <2>1, <2>2, <2>3, <2>4, NoVerdict DEF SessionInv
<1>6. ASSUME NEW verb \in Streams, RunStream(verb) PROVE SessionInv'
  <2>1. /\ UNCHANGED <<sent, session, str, entries, reply, policy>> /\ req' = verb
        /\ at' = IF verb = "MULTI" THEN "name" ELSE "chunk"
        /\ pc' = IF verb = "MULTI" THEN "name" ELSE "buffer"
    BY <1>6 DEF RunStream
  <2>2. Typed' BY <2>1 DEF SessionInv, Typed
  <2>3. Fresh' /\ Placed' /\ InStep' BY <1>2, <2>1 DEF Fresh, Placed, InStep
  <2>4. Framed' BY <1>2, <2>1, NewStreamTyped DEF Framed
  <2>5. Held' BY <1>2, <2>1, NewStreamTyped, ConstantsAssumption DEF Held
  <2>6. Listed' BY <1>2, <2>1 DEF Listed
  <2>7. \A i \in 1..Len(entries') : EntryTrue(entries[i])'
    BY <2>1 DEF SessionInv, EntryTrue
  <2> QED BY <1>2, <2>1, <2>2, <2>3, <2>4, <2>5, <2>6, <2>7, NoVerdict DEF SessionInv
<1> QED BY <1>3, <1>4, <1>5, <1>6

\* A request that leaves something unread was given up on.
LEMMA ReplyKeeps ==
    ASSUME SessionInv, Reply
    PROVE  SessionInv'
<1>1. /\ pc = "reply" /\ pc' \in {"closed", "command"}
      /\ gaveUp' = (reply = Refused \/ str.drained >= MAX_DRAIN_BYTES)
      /\ str' = NewStream /\ entries' = <<>> /\ sent' = <<>> /\ reply' = NoReply
      /\ UNCHANGED <<at, session, req, policy>>
  BY DEF Reply
<1>2. Typed' BY <1>1, NewStreamTyped DEF SessionInv, Typed
<1>3. Fresh' /\ Framed' /\ Held' /\ Listed' /\ Placed'
  BY <1>1 DEF Fresh, Framed, Held, Listed, Placed
<1>4. InStep' BY <1>1 DEF SessionInv, Placed, Capped, InStep
<1>5. \A i \in 1..Len(entries') : EntryTrue(entries[i])' BY <1>1
<1> QED BY <1>1, <1>2, <1>3, <1>4, <1>5, NoVerdict DEF SessionInv

\* The client hangs up: wherever it was, it is at the end of its stream.
LEMMA ClientClosesKeeps ==
    ASSUME SessionInv, ClientCloses
    PROVE  SessionInv'
<1>1. /\ at \notin {"command", "eof"} /\ at' = "eof"
      /\ UNCHANGED <<sent, pc, session, req, str, entries, reply, gaveUp, policy>>
  BY DEF ClientCloses
<1>2. Typed' BY <1>1 DEF SessionInv, Typed
<1>3. Fresh' /\ Held' /\ Listed' BY <1>1 DEF SessionInv, Fresh, Held, Listed, Capped
<1>4. Framed' BY <1>1 DEF SessionInv, Framed
<1>5. Placed' BY <1>1 DEF SessionInv, Placed, Capped
<1>6. InStep' BY <1>1 DEF InStep
<1>7. \A i \in 1..Len(entries') : EntryTrue(entries[i])' BY <1>1 DEF SessionInv, EntryTrue
<1>8. OkMeansExamined' BY <1>1 DEF SessionInv, OkMeansExamined
<1>9. ListIsWhole' BY <1>1 DEF SessionInv, ListIsWhole
<1>10. DetectionStands'
  <2>1. Reported' = Reported /\ \A n : FirstOf(n)' = FirstOf(n) BY <1>1, SameFiles
  <2> QED BY <1>1, <2>1 DEF SessionInv, DetectionStands
<1> QED BY <1>2, <1>3, <1>4, <1>5, <1>6, <1>7, <1>8, <1>9, <1>10 DEF SessionInv
-----------------------------------------------------------------------------
(***************************************************************************)
(* The chunks of a file.                                                   *)
(***************************************************************************)
\* What is known of a file that is being read.
LEMMA ReadingKnown ==
    ASSUME SessionInv, Buffering \/ Draining
    PROVE  /\ pc \in {"buffer", "drain"} /\ str \in Stream /\ req \in Streams
           /\ ~str.done /\ ~str.truncated
           /\ str.over => str.total > MaxScan
           /\ ~str.over /\ ~str.short /\ ~str.failed => str.kept = str.total /\ str.drained = 0
           /\ pc = "buffer" => /\ ~str.failed /\ ~str.over /\ ~str.short
                               /\ str.drained = 0 /\ str.total <= MaxScan
           /\ pc = "drain" => str.over \/ str.short \/ str.failed
<1>1. pc \in {"buffer", "drain"} /\ ~str.done BY DEF Buffering, Draining
<1>2. pc = "buffer" => ~str.over /\ ~str.short BY DEF Buffering, Draining
<1> QED BY <1>1, <1>2 DEF SessionInv, Typed, Framed, Held

\* A chunk's length, or the file's end, is read where the client sent it; the
\* end of input is noticed.
LEMMA ChunkKeeps ==
    ASSUME SessionInv, StreamCut \/ \E k \in 0..MaxChunk : NextChunk(k)
    PROVE  SessionInv'
<1>1. Buffering \/ Draining BY DEF StreamCut, NextChunk
<1>2. pc' = pc /\ UNCHANGED <<sent, session, req, entries, reply, policy>>
  BY DEF StreamCut, NextChunk
<1>3. CASE StreamCut
  <2> DEFINE t == [str EXCEPT !.done = TRUE, !.truncated = TRUE]
  <2>1. str' = t /\ at = "eof" /\ at' = "eof" BY <1>3 DEF StreamCut
  <2>2. t \in Stream BY <1>1, ReadingKnown DEF Stream
  <2>3. /\ t.done /\ t.truncated /\ t.over = str.over /\ t.short = str.short
        /\ t.failed = str.failed /\ t.kept = str.kept /\ t.total = str.total
        /\ t.drained = str.drained
    BY <1>1, ReadingKnown DEF Stream
  <2> HIDE DEF t
  <2>4. Framed' BY <1>1, <1>2, <2>1, <2>3, ReadingKnown DEF Framed
  <2>5. Held' BY <1>1, <1>2, <2>1, <2>3, ReadingKnown DEF Held
  <2> QED BY <1>1, <1>2, <2>1, <2>2, <2>4, <2>5, ReadingKnown, FileStep
<1>4. ASSUME NEW k \in 0..MaxChunk, NextChunk(k) PROVE SessionInv'
  <2> DEFINE z == k = 0
             t == [str EXCEPT !.remaining = k, !.done = z]
  <2>1. str' = t BY <1>4 DEF NextChunk
  <2>2. at' = IF z THEN IF req = "MULTI" THEN "name" ELSE "command" ELSE "data"
    <3>1. k > 0 <=> ~z BY ConstantsAssumption
    <3> QED BY <1>4, <3>1 DEF NextChunk
  <2>7. k \in Nat /\ z \in BOOLEAN BY ConstantsAssumption
  <2> HIDE DEF z
  <2>8. t \in Stream BY <1>1, <2>7, ReadingKnown DEF Stream
  <2>3. /\ t.done = z /\ ~t.truncated /\ t.over = str.over /\ t.short = str.short
        /\ t.failed = str.failed /\ t.kept = str.kept /\ t.total = str.total
        /\ t.drained = str.drained
    BY <1>1, ReadingKnown DEF Stream
  <2> HIDE DEF t
  <2>5. Framed' BY <1>1, <1>2, <2>7, <2>1, <2>2, <2>3, ReadingKnown DEF Framed
  <2>6. Held' BY <1>1, <1>2, <2>1, <2>3, ReadingKnown DEF Held
  <2> QED BY <1>1, <1>2, <2>1, <2>2, <2>8, <2>5, <2>6, ReadingKnown, FileStep
<1> QED BY <1>3, <1>4

\* A block is read: kept, refused or drained.
LEMMA DataKeeps ==
    ASSUME SessionInv, NEW n \in 1..MaxChunk, BufferData(n) \/ BufferShort(n) \/ DrainData(n)
    PROVE  SessionInv'
<1>1. Buffering \/ Draining BY DEF BufferData, BufferShort, DrainData
<1>2. /\ pc' = pc /\ UNCHANGED <<sent, session, req, entries, reply, policy>>
      /\ n \in 1..str.remaining /\ at' \in {"chunk", "data"}
  BY DEF BufferData, BufferShort, DrainData, AtAfter
<1>3. MaxScan \in Nat /\ n \in Nat /\ str.remaining - n \in Nat /\ n > 0
  BY <1>1, <1>2, ReadingKnown, ConstantsAssumption DEF Stream
<1>4. /\ str.total \in Nat /\ str.kept \in Nat /\ str.drained \in Nat /\ str.over \in BOOLEAN
      /\ str.short \in BOOLEAN /\ str.failed \in BOOLEAN
  BY <1>1, ReadingKnown DEF Stream
<1> DEFINE u == Took(n)
<1>5. u \in Stream
  <2> DEFINE left == str.remaining - n
             sum == str.total + n
  <2>1. left \in Nat /\ sum \in Nat BY <1>3, <1>4
  <2>2. u = [str EXCEPT !.remaining = left, !.total = sum]
    BY <1>1, ReadingKnown DEF Took, Stream
  <2> HIDE DEF left, sum, u
  <2> QED BY <1>1, <2>1, <2>2, ReadingKnown DEF Stream
<1>6. /\ u.done = str.done /\ u.truncated = str.truncated /\ u.total = str.total + n
       /\ u.failed = str.failed /\ u.over = str.over /\ u.short = str.short
       /\ u.kept = str.kept /\ u.drained = str.drained
  BY <1>1, ReadingKnown DEF Took, Stream
<1>7. ASSUME NEW t \in Stream, str' = t, ~t.done, ~t.truncated, t.total = str.total + n,
             t.failed = str.failed, t.over => t.total > MaxScan,
             ~t.over /\ ~t.short /\ ~t.failed => t.kept = t.total /\ t.drained = 0,
             pc = "buffer" => t.drained = 0 /\ (~t.over => t.total <= MaxScan),
             pc = "drain" => t.over \/ t.short \/ t.failed
      PROVE  SessionInv'
  <2>1. Framed' BY <1>1, <1>2, <1>7, ReadingKnown DEF Framed
  <2>2. Held' BY <1>1, <1>2, <1>7, ReadingKnown DEF Held
  <2> QED BY <1>1, <1>2, <1>7, <2>1, <2>2, ReadingKnown, FileStep
<1>8. CASE BufferData(n)
  <2> DEFINE over == str.total + n > MaxScan
             more == HandedOver(n)
             t == [u EXCEPT !.kept = @ + more, !.over = over]
  <2>1. str' = t /\ pc = "buffer" BY <1>8 DEF BufferData, Buffering
  <2>2. more \in Nat /\ (~over => more = n)
    BY <1>1, <1>3, <1>4, <2>1, ReadingKnown DEF HandedOver
  <2>3. over \in BOOLEAN OBVIOUS
  <2>4. (over => str.total + n > MaxScan) /\ (~over => str.total + n <= MaxScan)
    BY <1>3, <1>4
  <2> HIDE DEF over, more, u
  <2>5. t \in Stream
    <3> DEFINE sum == u.kept + more
    <3>1. sum \in Nat BY <1>4, <1>6, <2>2
    <3>2. t = [u EXCEPT !.kept = sum, !.over = over] OBVIOUS
    <3> HIDE DEF sum, t
    <3> QED BY <1>5, <2>3, <3>1, <3>2 DEF Stream
  <2>6. /\ t.done = str.done /\ t.truncated = str.truncated /\ t.total = str.total + n
        /\ t.failed = str.failed /\ t.over = over /\ t.short = str.short
        /\ t.kept = str.kept + more /\ t.drained = str.drained
    BY <1>5, <1>6 DEF Stream
  <2> HIDE DEF t
  <2> QED BY <1>1, <1>3, <1>4, <1>7, <2>1, <2>2, <2>4, <2>5, <2>6, ReadingKnown
<1>9. CASE BufferShort(n)
  <2> DEFINE over == str.total + n > MaxScan
  <2>1. PICK k \in {str.kept} \cup (IF str.kept = Threshold THEN {0} ELSE {}) :
             str' = [Took(n) EXCEPT !.kept = k, !.short = TRUE, !.over = over]
    BY <1>9 DEF BufferShort
  <2> DEFINE t == [u EXCEPT !.kept = k, !.short = TRUE, !.over = over]
  <2>2. pc = "buffer" BY <1>9 DEF BufferShort, Buffering
  <2>3. k \in Nat /\ over \in BOOLEAN BY <1>4
  <2>4. (over => str.total + n > MaxScan) /\ (~over => str.total + n <= MaxScan)
    BY <1>3, <1>4
  <2>5. str' = t BY <2>1
  <2> HIDE DEF over, u
  <2>6. t \in Stream BY <1>5, <2>3 DEF Stream
  <2>7. /\ t.done = str.done /\ t.truncated = str.truncated /\ t.total = str.total + n
        /\ t.failed = str.failed /\ t.over = over /\ t.short /\ t.drained = str.drained
    BY <1>5, <1>6 DEF Stream
  <2> HIDE DEF t
  <2> QED BY <1>1, <1>3, <1>4, <1>7, <2>2, <2>4, <2>5, <2>6, <2>7, ReadingKnown
<1>10. CASE DrainData(n)
  <2> DEFINE t == [u EXCEPT !.drained = @ + n]
  <2>1. str' = t /\ pc = "drain" BY <1>10 DEF DrainData, Draining
  <2> HIDE DEF u
  <2>2. t \in Stream BY <1>3, <1>4, <1>5, <1>6 DEF Stream
  <2>3. /\ t.done = str.done /\ t.truncated = str.truncated /\ t.total = str.total + n
        /\ t.failed = str.failed /\ t.over = str.over /\ t.short = str.short
    BY <1>5, <1>6 DEF Stream
  <2> HIDE DEF t
  <2> QED BY <1>1, <1>3, <1>4, <1>7, <2>1, <2>2, <2>3, ReadingKnown
<1> QED BY <1>8, <1>9, <1>10

\* Reading gives way to draining, draining to the scan, and failures to neither.
LEMMA StageKeeps ==
    ASSUME SessionInv, BufferFails \/ Buffered \/ DrainFails \/ Drained
    PROVE  SessionInv'
<1>1. /\ pc \in {"buffer", "drain"} /\ UNCHANGED <<at, sent, session, req, entries, reply, policy>>
  BY DEF BufferFails, Buffered, DrainFails, Drained, Buffering, Draining
<1>2. str \in Stream /\ reply = NoReply /\ at \in {"command", "name", "chunk", "data", "eof"}
  BY <1>1 DEF SessionInv, Typed, Fresh
<1>3. CASE BufferFails
  <2>1. CASE req = "INSTREAM"
    <3>1. pc' = "closed" /\ str' = str BY <1>3, <2>1 DEF BufferFails
    <3> QED BY <1>1, <1>2, <3>1, CloseStep
  <2>2. CASE req # "INSTREAM"
    <3> DEFINE t == [str EXCEPT !.failed = TRUE]
    <3>1. pc' = "drain" /\ str' = t /\ pc = "buffer" BY <1>3, <2>2 DEF BufferFails, Buffering
    <3>2. t \in Stream BY <1>2 DEF Stream
    <3>3. /\ t.done = str.done /\ t.truncated = str.truncated /\ t.over = str.over
          /\ t.total = str.total /\ t.failed
      BY <1>2 DEF Stream
    <3> HIDE DEF t
    <3>4. Framed' BY <1>1, <3>1, <3>3 DEF SessionInv, Framed
    <3>5. Held' BY <1>1, <3>1, <3>3 DEF SessionInv, Held
    <3> QED BY <1>1, <1>2, <3>1, <3>2, <3>4, <3>5, FileStep
  <2> QED BY <2>1, <2>2
<1>4. CASE Buffered
  <2>1. /\ pc' = "drain" /\ str' = str /\ pc = "buffer" /\ (str.done \/ str.over \/ str.short)
    BY <1>4 DEF Buffered, Buffering
  <2>2. Framed' BY <1>1, <2>1 DEF SessionInv, Framed
  <2>3. Held' BY <1>1, <2>1 DEF SessionInv, Held
  <2> QED BY <1>1, <1>2, <2>1, <2>2, <2>3, FileStep
<1>5. CASE (DrainFails /\ str.failed) \/ Drained
  <2>1. /\ pc' = "scan" /\ str' = str /\ pc = "drain"
        /\ str.failed \/ str.done \/ ~(str.drained < MAX_DRAIN_BYTES)
    BY <1>5 DEF DrainFails, Drained, Draining
  <2>2. str.drained \in Nat /\ MAX_DRAIN_BYTES \in Nat
    BY <1>2, ConstantsAssumption DEF Stream
  <2>3. Framed' BY <1>1, <2>1 DEF SessionInv, Framed
  <2>4. Held' BY <1>1, <2>1, <2>2 DEF SessionInv, Held, Capped
  <2> QED BY <1>1, <1>2, <2>1, <2>3, <2>4, FileStep
<1>6. CASE DrainFails /\ ~str.failed
  <2>1. pc' = "closed" /\ str' = str BY <1>6 DEF DrainFails
  <2> QED BY <1>1, <1>2, <2>1, CloseStep
<1> QED BY <1>3, <1>4, <1>5, <1>6
-----------------------------------------------------------------------------
(***************************************************************************)
(* Verdicts.                                                               *)
(***************************************************************************)
\* The smaller of two numbers.
LEMMA MinOfTwo ==
    ASSUME NEW a \in Nat, NEW b \in Nat
    PROVE  Min({a, b}) = IF a <= b THEN a ELSE b
<1> DEFINE m == IF a <= b THEN a ELSE b
<1>1. m \in {a, b} /\ \A y \in {a, b} : m =< y OBVIOUS
<1>2. \A x \in {a, b} : (\A y \in {a, b} : x =< y) => x = m OBVIOUS
<1>3. Min({a, b}) \in {a, b} /\ \A y \in {a, b} : Min({a, b}) =< y
  BY <1>1 DEF Min
<1> QED BY <1>2, <1>3

\* What may be answered of a file that was read is true of it.
LEMMA AnswersTrue ==
    ASSUME SessionInv, pc = "scan", ~str.failed, NEW bad \in Nat,
           NEW s \in Answers(bad) \cup {"ERROR"}
    PROVE  /\ s \in Status /\ Malware(bad) \in BOOLEAN /\ Infected(bad) \in BOOLEAN
           /\ s = "OK" => /\ ~str.truncated
                          /\ policy # "OK" => str.done /\ ~Malware(bad)
           /\ Infected(bad) => s \in {"FOUND", "ERROR"}
<1>1. /\ str \in Stream /\ policy \in Policies
      /\ str.over => str.total > MaxScan
      /\ ~str.over /\ ~str.short => str.kept = str.total /\ str.drained = 0
      /\ str.done \/ str.drained >= MAX_DRAIN_BYTES
  BY DEF SessionInv, Typed, Held, Capped
<1>2. /\ str.kept \in Nat /\ str.total \in Nat /\ MaxScan \in Nat
      /\ MAX_DRAIN_BYTES \in Nat /\ MAX_DRAIN_BYTES > 0
  BY <1>1, ConstantsAssumption DEF Stream
<1>3. Min({str.kept, MaxScan}) = IF str.kept <= MaxScan THEN str.kept ELSE MaxScan
  BY <1>2, MinOfTwo
<1>4. ScanHeld(bad) \subseteq {"OK", "FOUND", "PARTIAL"} BY DEF ScanHeld
<1>5. s \in Status BY <1>1, <1>4 DEF Answers, StatusOf, Status, Policies
<1>6. Malware(bad) \in BOOLEAN /\ Infected(bad) \in BOOLEAN BY DEF Malware, Infected
<1>7. ASSUME s = "OK"
      PROVE  ~str.truncated /\ (policy # "OK" => str.done /\ ~Malware(bad))
  <2>1. ~str.truncated BY <1>7 DEF Answers
  <2>2. ASSUME policy # "OK" PROVE str.done /\ ~Malware(bad)
    <3>1. "OK" \in ScanHeld(bad)
      <4>1. PICK v \in ScanHeld(bad) : StatusOf(v) = "OK" BY <1>7, <2>1 DEF Answers
      <4>2. v = "OK" BY <2>2, <4>1 DEF StatusOf
      <4> QED BY <4>1, <4>2
    <3>2. ~Infected(bad) /\ ~str.short /\ ~(str.total > MaxScan) BY <3>1 DEF ScanHeld
    <3>3. str.kept = str.total /\ str.drained = 0 /\ str.total <= MaxScan BY <1>1, <1>2, <3>2
    <3>4. str.done BY <1>1, <1>2, <3>3
    <3>5. ~Malware(bad) BY <1>2, <1>3, <3>2, <3>3 DEF Malware, Infected
    <3> QED BY <3>4, <3>5
  <2> QED BY <2>1, <2>2
<1>8. ASSUME Infected(bad) PROVE s \in {"FOUND", "ERROR"}
  <2>1. ScanHeld(bad) = {"FOUND"} BY <1>8 DEF ScanHeld
  <2> QED BY <2>1 DEF Answers, StatusOf
<1> QED BY <1>5, <1>6, <1>7, <1>8

\* The reply to a stream of one file.
LEMMA AnswerStreamKeeps ==
    ASSUME SessionInv, NEW bad \in Nat, AnswerStream(bad)
    PROVE  SessionInv'
<1>1. /\ pc = "scan" /\ req \in {"INSTREAM", "EXINSTREAM"} /\ ~str.failed
      /\ UNCHANGED <<at, sent, session, req, str, entries, policy>>
  BY DEF AnswerStream
<1>2. CASE reply' = NoReply
  <2>1. pc' = "closed" BY <1>2 DEF AnswerStream, NoReply
  <2> QED BY <1>1, <1>2, <2>1, CloseStep
<1>3. ASSUME NEW s \in Answers(bad) \cup {"ERROR"},
             reply' = [kind |-> "line", status |-> s, malware |-> Malware(bad),
                       seen |-> Infected(bad)]
      PROVE  SessionInv'
  <2>1. /\ reply'.kind = "line" /\ reply'.status = s /\ reply'.malware = Malware(bad)
        /\ reply'.seen = Infected(bad)
    BY <1>3
  <2>2. pc' = "reply" BY <2>1 DEF AnswerStream
  <2>3. /\ s = "OK" => /\ ~str.truncated
                       /\ policy # "OK" => str.done /\ ~Malware(bad)
        /\ Infected(bad) => s \in {"FOUND", "ERROR"}
    BY <1>1, AnswersTrue
  <2>4. /\ str.done /\ ~str.truncated => at = "command"
        /\ at \in {"command", "eof"} \/ Capped
    BY <1>1 DEF SessionInv, Framed, Held
  <2>5. Typed' BY <1>1, <2>2 DEF SessionInv, Typed
  <2>6. Fresh' /\ Framed' /\ Held' /\ Listed' /\ InStep'
    BY <2>2 DEF Fresh, Framed, Held, Listed, InStep
  <2>7. Placed' BY <1>1, <2>2, <2>4 DEF Placed, Capped
  <2>8. \A i \in 1..Len(entries') : EntryTrue(entries[i])' BY <1>1 DEF SessionInv, EntryTrue
  <2>9. OkMeansExamined' BY <1>1, <2>1, <2>3, <2>4 DEF OkMeansExamined
  <2>10. ListIsWhole' BY <2>1 DEF ListIsWhole
  <2>11. DetectionStands' BY <2>1, <2>3 DEF DetectionStands
  <2> QED BY <2>5, <2>6, <2>7, <2>8, <2>9, <2>10, <2>11 DEF SessionInv
<1> QED BY <1>2, <1>3 DEF AnswerStream

\* A request that is refused is answered with an error.
LEMMA RefusalKeeps ==
    ASSUME SessionInv, AnswerFailed \/ RefuseName
    PROVE  SessionInv'
<1>1. /\ pc' = "reply" /\ reply' = Refused
      /\ UNCHANGED <<at, sent, session, req, str, entries, policy>>
  BY DEF AnswerFailed, RefuseName
<1>2. Typed' BY <1>1 DEF SessionInv, Typed
<1>3. Fresh' /\ Framed' /\ Held' /\ Listed' /\ Placed' /\ InStep'
  BY <1>1 DEF Fresh, Framed, Held, Listed, Placed, InStep
<1>4. \A i \in 1..Len(entries') : EntryTrue(entries[i])' BY <1>1 DEF SessionInv, EntryTrue
<1> QED BY <1>1, <1>2, <1>3, <1>4, NoVerdict DEF SessionInv
-----------------------------------------------------------------------------
(***************************************************************************)
(* The files of a request.                                                 *)
(***************************************************************************)
\* A name is read, or the end of the request.
LEMMA NameKeeps ==
    ASSUME SessionInv, ReadEnd \/ NameCut \/ \E n \in Names : ReadName(n)
    PROVE  SessionInv'
<1>1. /\ pc = "name" /\ UNCHANGED <<session, req, entries, reply, policy>>
  BY DEF ReadEnd, NameCut, ReadName
<1>2. /\ req = "MULTI" /\ reply = NoReply /\ sent \in Seq(Names) /\ entries \in Seq(FileEntry)
      /\ Len(sent) = Len(entries) /\ \A i \in 1..Len(entries) : entries[i].name = sent[i]
  BY <1>1 DEF SessionInv, Placed, Fresh, Typed, Listed
<1>3. \A i \in 1..Len(entries') : EntryTrue(entries[i])' BY <1>1 DEF SessionInv, EntryTrue
<1>4. CASE ReadEnd \/ NameCut
  <2>1. /\ pc' = "sets" /\ sent' = sent
        /\ \/ at' = "command" /\ str' = NewStream
           \/ at' = "eof" /\ str' = [NewStream EXCEPT !.truncated = TRUE]
    BY <1>4 DEF ReadEnd, NameCut
  <2>2. str' \in Stream /\ (str'.truncated <=> at' # "command")
    BY <2>1, NewStreamTyped DEF Stream
  <2>3. Typed' BY <1>1, <2>1, <2>2 DEF SessionInv, Typed
  <2>4. Fresh' /\ Framed' /\ Held' /\ InStep'
    BY <1>1, <1>2, <2>1 DEF Fresh, Framed, Held, InStep
  <2>5. Placed' BY <2>1, <2>2 DEF Placed
  <2>6. Listed' BY <1>1, <1>2, <2>1 DEF Listed
  <2> QED BY <1>1, <1>2, <1>3, <2>3, <2>4, <2>5, <2>6, NoVerdict DEF SessionInv
<1>5. ASSUME NEW n \in Names, ReadName(n) PROVE SessionInv'
  <2>1. pc' = "buffer" /\ at' = "chunk" /\ sent' = Append(sent, n) /\ str' = NewStream
    BY <1>5 DEF ReadName
  <2>2. Typed' BY <1>1, <1>2, <2>1, NewStreamTyped DEF SessionInv, Typed
  <2>3. Fresh' /\ Placed' /\ InStep' BY <1>1, <1>2, <2>1 DEF Fresh, Placed, InStep
  <2>4. Framed' BY <1>1, <1>2, <2>1, NewStreamTyped DEF Framed, Streams
  <2>5. Held' BY <2>1, NewStreamTyped, ConstantsAssumption DEF Held
  <2>6. Listed' BY <1>1, <1>2, <2>1 DEF Listed
  <2> QED BY <1>1, <1>2, <1>3, <2>2, <2>3, <2>4, <2>5, <2>6, NoVerdict DEF SessionInv
<1> QED BY <1>4, <1>5

\* A file's entry is true of it, and one that did not end ends the request.
LEMMA AnswerFileKeeps ==
    ASSUME SessionInv, NEW bad \in Nat, AnswerFile(bad)
    PROVE  SessionInv'
<1>1. /\ pc = "scan" /\ req = "MULTI" /\ ~str.failed
      /\ UNCHANGED <<at, sent, session, req, policy>>
  BY DEF AnswerFile
<1>2. PICK s \in Answers(bad) \cup {"ERROR"} : entries' = Append(entries, Entry(s, bad))
  BY DEF AnswerFile
<1> DEFINE e == Entry(s, bad)
<1>3. /\ str \in Stream /\ sent \in Seq(Names) /\ entries \in Seq(FileEntry) /\ reply = NoReply
      /\ Len(sent) = Len(entries) + 1 /\ \A i \in 1..Len(entries) : entries[i].name = sent[i]
      /\ at \in {"name", "chunk", "data", "eof"}
      /\ str.truncated => at = "eof"
      /\ ~str.done => Capped
      /\ str.done /\ ~str.truncated => at \in {"name", "eof"}
  BY <1>1 DEF SessionInv, Typed, Fresh, Listed, Framed, Held
<1>4. /\ s \in Status /\ Malware(bad) \in BOOLEAN /\ Infected(bad) \in BOOLEAN
      /\ s = "OK" => ~str.truncated /\ (policy # "OK" => str.done /\ ~Malware(bad))
      /\ Infected(bad) => s \in {"FOUND", "ERROR"}
  BY <1>1, AnswersTrue
<1>5. /\ e.name = Last(sent) /\ e.status = s /\ e.ended = str.done /\ e.cut = str.truncated
      /\ e.malware = Malware(bad) /\ e.seen = Infected(bad)
  BY DEF Entry
<1>6. e \in FileEntry /\ e.name = sent[Len(entries) + 1]
  <2>1. Last(sent) = sent[Len(entries) + 1] /\ sent[Len(entries) + 1] \in Names
    BY <1>3 DEF Last
  <2> DEFINE whole == ~str.short /\ str.kept = str.total
             size == IF whole THEN str.kept ELSE 0
  <2>2. /\ whole \in BOOLEAN /\ size \in Nat /\ str.done \in BOOLEAN /\ str.truncated \in BOOLEAN
    BY <1>3 DEF Stream
  <2>3. e = [name |-> Last(sent), status |-> s, whole |-> whole, size |-> size,
             ended |-> str.done, cut |-> str.truncated, malware |-> Malware(bad),
             seen |-> Infected(bad)]
    BY DEF Entry
  <2> HIDE DEF whole, size, e
  <2> QED BY <1>4, <2>1, <2>2, <2>3 DEF FileEntry
<1>7. entries' = Append(entries, e) BY <1>2
<1> HIDE DEF e
<1>8. \A i \in 1..Len(entries') : EntryTrue(entries[i])'
  <2>1. \A i \in 1..Len(entries) : EntryTrue(entries[i]) BY DEF SessionInv
  <2>2. ASSUME NEW i \in 1..Len(entries') PROVE EntryTrue(entries[i])'
    <3>1. CASE i = Len(entries) + 1
      <4>1. entries'[i] = e BY <1>3, <1>6, <1>7, <3>1
      <4> QED BY <1>1, <1>4, <1>5, <4>1 DEF EntryTrue
    <3>2. CASE i # Len(entries) + 1
      <4>1. i \in 1..Len(entries) /\ entries'[i] = entries[i] BY <1>3, <1>6, <1>7, <3>2
      <4> QED BY <1>1, <2>1, <4>1 DEF EntryTrue
    <3> QED BY <3>1, <3>2
  <2> QED BY <2>2
<1>9. /\ entries' \in Seq(FileEntry) /\ Len(sent) = Len(entries')
       /\ \A i \in 1..Len(entries') : entries'[i].name = sent[i]
  BY <1>3, <1>6, <1>7
<1>10. CASE ~str.done \/ str.truncated
  <2> DEFINE t == [NewStream EXCEPT !.truncated = TRUE, !.drained = str.drained]
  <2>1. pc' = "sets" /\ reply' = reply /\ str' = t BY <1>10 DEF AnswerFile
  <2>2. t \in Stream /\ t.truncated /\ t.drained = str.drained
    BY <1>3, NewStreamTyped DEF Stream
  <2> HIDE DEF t
  <2>3. Typed' BY <1>1, <1>9, <2>1, <2>2 DEF SessionInv, Typed
  <2>4. Fresh' /\ Framed' /\ Held' /\ InStep' BY <1>3, <2>1 DEF Fresh, Framed, Held, InStep
  <2>5. Placed' BY <1>1, <1>3, <1>10, <2>1, <2>2 DEF Placed, Capped
  <2>6. Listed' BY <1>1, <1>3, <1>9, <2>1 DEF Listed
  <2> QED BY <1>3, <1>8, <2>1, <2>3, <2>4, <2>5, <2>6, NoVerdict DEF SessionInv
<1>11. CASE ~(~str.done \/ str.truncated)
  <2>1. /\ str' = NewStream
        /\ \/ pc' = "reply" /\ reply' = Refused
           \/ pc' = "name" /\ reply' = reply
    BY <1>11 DEF AnswerFile
  <2>2. Typed' BY <1>1, <1>9, <2>1, NewStreamTyped DEF SessionInv, Typed
  <2>3. Fresh' /\ Framed' /\ Held' /\ InStep' BY <1>3, <2>1 DEF Fresh, Framed, Held, InStep
  <2>4. Placed' BY <1>1, <1>3, <1>11, <2>1 DEF Placed
  <2>5. Listed' BY <1>1, <1>3, <1>9, <2>1 DEF Listed
  <2> QED BY <1>3, <1>8, <2>1, <2>2, <2>3, <2>4, <2>5, NoVerdict DEF SessionInv
<1> QED BY <1>10, <1>11

\* The verdict of a set replaces no status by OK, and no detection.
LEMMA MergedTrue ==
    ASSUME SessionInv, NEW i \in DOMAIN entries, NEW v \in {"OK", "FOUND", "PARTIAL"}
    PROVE  /\ Merged(i, v) = "OK" => entries[i].status = "OK"
           /\ entries[i].status = "FOUND" => Merged(i, v) = "FOUND"
           /\ /\ SetVerdict(v) = "FOUND" /\ entries[i].name \in Reported
              /\ i = FirstOf(entries[i].name)
              => Merged(i, v) = "FOUND"
<1>1. SetVerdict(v) \in {"OK", "FOUND", "PARTIAL"} BY DEF SetVerdict
<1>2. SetVerdict(v) = "FOUND" => StatusOf(SetVerdict(v)) = "FOUND" BY DEF StatusOf
<1> QED BY <1>1, <1>2 DEF Merged

\* The list of a request.
LEMMA AnswerMultiKeeps ==
    ASSUME SessionInv, NEW v \in {"OK", "FOUND", "PARTIAL"}, AnswerMulti(v)
    PROVE  SessionInv'
<1> DEFINE files == [i \in DOMAIN entries |-> Merged(i, v)]
<1>1. /\ pc = "sets" /\ pc' = "reply"
      /\ UNCHANGED <<at, sent, session, req, str, entries, policy>>
      /\ reply' = [kind |-> "list", truncated |-> str.truncated, archive |-> SetVerdict(v),
                   files |-> files]
  BY DEF AnswerMulti
<1>2. /\ sent \in Seq(Names) /\ entries \in Seq(FileEntry) /\ Len(sent) = Len(entries)
      /\ \A i \in 1..Len(entries) : entries[i].name = sent[i] /\ EntryTrue(entries[i])
      /\ DOMAIN entries = 1..Len(entries)
  BY <1>1 DEF SessionInv, Typed, Listed
<1>3. \A i \in DOMAIN entries : files[i] = Merged(i, v) OBVIOUS
<1> HIDE DEF files
<1>4. /\ reply'.kind = "list" /\ reply'.truncated = str.truncated
      /\ reply'.archive = SetVerdict(v) /\ reply'.files = files
  BY <1>1
<1>5. Typed' BY <1>1 DEF SessionInv, Typed
<1>6. Fresh' /\ Framed' /\ Held' /\ Listed' /\ InStep'
  BY <1>1 DEF Fresh, Framed, Held, Listed, InStep
<1>7. Placed' BY <1>1 DEF SessionInv, Placed, Capped
<1>8. \A i \in 1..Len(entries') : EntryTrue(entries[i])' BY <1>1 DEF SessionInv, EntryTrue
<1>9. OkMeansExamined'
  <2>1. ASSUME NEW i \in DOMAIN entries, files[i] = "OK"
        PROVE  ~entries[i].cut /\ (policy # "OK" => entries[i].ended /\ ~entries[i].malware)
    BY <1>2, <1>3, <2>1, MergedTrue DEF EntryTrue
  <2> QED BY <1>1, <1>4, <2>1 DEF OkMeansExamined
<1>10. ListIsWhole'
  <2>1. [i \in DOMAIN entries |-> entries[i].name] = sent BY <1>2
  <2>2. str.truncated <=> at # "command" BY <1>1 DEF SessionInv, Placed
  <2> QED BY <1>1, <1>4, <2>1, <2>2 DEF ListIsWhole
<1>11. DetectionStands'
  <2>1. ASSUME NEW i \in DOMAIN entries
        PROVE  /\ entries[i].seen => files[i] = "FOUND" \/ entries[i].status = "ERROR"
               /\ /\ SetVerdict(v) = "FOUND" /\ entries[i].name \in Reported
                  /\ i = FirstOf(entries[i].name)
                  => files[i] = "FOUND"
    BY <1>2, <1>3, MergedTrue DEF EntryTrue
  <2>2. Reported' = Reported /\ \A n : FirstOf(n)' = FirstOf(n) BY <1>1, SameFiles
  <2> QED BY <1>1, <1>4, <2>1, <2>2 DEF DetectionStands
<1> QED BY <1>5, <1>6, <1>7, <1>8, <1>9, <1>10, <1>11 DEF SessionInv
-----------------------------------------------------------------------------
\* A connection starts with the invariant.
LEMMA SessionInit == Init => SessionInv
<1> SUFFICES ASSUME Init PROVE SessionInv OBVIOUS
<1>1. /\ at = "command" /\ pc = "command" /\ session = FALSE /\ sent = <<>> /\ entries = <<>>
      /\ str = NewStream /\ reply = NoReply /\ policy \in Policies
  BY DEF Init
<1>2. Typed
  <2>1. session \in BOOLEAN BY <1>1, Zenon
  <2>2. str \in Stream BY <1>1, NewStreamTyped
  <2>3. sent \in Seq(Names) BY <1>1
  <2>4. entries \in Seq(FileEntry) BY <1>1
  <2>5. /\ at \in {"command", "name", "chunk", "data", "eof"}
        /\ pc \in {"command", "name", "buffer", "drain", "scan", "sets", "reply", "closed", "lost"}
        /\ policy \in Policies
    BY <1>1
  <2> QED BY <2>1, <2>2, <2>3, <2>4, <2>5, Zenon DEF Typed
<1>3. Fresh /\ Framed /\ Held /\ Listed /\ Placed /\ InStep
  BY <1>1 DEF Fresh, Framed, Held, Listed, Placed, InStep
<1>4. reply.kind = "none" BY <1>1 DEF NoReply
<1>5. OkMeansExamined /\ ListIsWhole /\ DetectionStands
  BY <1>4 DEF OkMeansExamined, ListIsWhole, DetectionStands
<1>6. \A i \in 1..Len(entries) : EntryTrue(entries[i]) BY <1>1
<1> QED BY <1>2, <1>3, <1>5, <1>6 DEF SessionInv

\* Every step of the connection keeps the invariant.
LEMMA SessionStep == SessionInv /\ [Next]_vars => SessionInv'
<1> SUFFICES ASSUME SessionInv, [Next]_vars PROVE SessionInv' OBVIOUS
<1>1. CASE \/ StartSession \/ EndSession \/ RunPlain \/ ReadStray
           \/ \E verb \in Streams : RunStream(verb)
  BY <1>1, CommandKeeps
<1>2. CASE Reply BY <1>2, ReplyKeeps
<1>3. CASE ClientCloses BY <1>3, ClientClosesKeeps
<1>4. CASE StreamCut \/ \E k \in 0..MaxChunk : NextChunk(k) BY <1>4, ChunkKeeps
<1>5. ASSUME NEW n \in 1..MaxChunk, BufferData(n) \/ BufferShort(n) \/ DrainData(n)
      PROVE  SessionInv'
  BY <1>5, DataKeeps
<1>6. CASE BufferFails \/ Buffered \/ DrainFails \/ Drained BY <1>6, StageKeeps
<1>7. ASSUME NEW bad \in 0..str.total, AnswerStream(bad) \/ AnswerFile(bad) PROVE SessionInv'
  <2>1. bad \in Nat BY DEF SessionInv, Typed, Stream
  <2> QED BY <1>7, <2>1, AnswerStreamKeeps, AnswerFileKeeps
<1>8. CASE AnswerFailed \/ RefuseName BY <1>8, RefusalKeeps
<1>9. CASE ReadEnd \/ NameCut \/ \E n \in Names : ReadName(n) BY <1>9, NameKeeps
<1>10. ASSUME NEW v \in {"OK", "FOUND", "PARTIAL"}, AnswerMulti(v) PROVE SessionInv'
  BY <1>10, AnswerMultiKeeps
<1>11. CASE UNCHANGED vars
  <2>1. UNCHANGED <<at, sent, pc, session, req, str, entries, reply, gaveUp, policy>>
    BY <1>11 DEF vars
  <2>2. Typed' BY <2>1 DEF SessionInv, Typed
  <2>3. Fresh' /\ Framed' /\ Held' /\ Listed' /\ Placed' /\ InStep'
    BY <2>1 DEF SessionInv, Fresh, Framed, Held, Listed, Placed, InStep, Capped
  <2>4. \A i \in 1..Len(entries') : EntryTrue(entries[i])' BY <2>1 DEF SessionInv, EntryTrue
  <2>5. OkMeansExamined' /\ ListIsWhole' BY <2>1 DEF SessionInv, OkMeansExamined, ListIsWhole
  <2>6. DetectionStands'
    <3>1. Reported' = Reported /\ \A n : FirstOf(n)' = FirstOf(n) BY <2>1, SameFiles
    <3> QED BY <2>1, <3>1 DEF SessionInv, DetectionStands
  <2> QED BY <2>2, <2>3, <2>4, <2>5, <2>6 DEF SessionInv
<1> QED
  BY <1>1, <1>2, <1>3, <1>4, <1>5, <1>6, <1>7, <1>8, <1>9, <1>10, <1>11 DEF Next

\* The invariant of every connection.
LEMMA SessionInvariant == Spec => []SessionInv
<1> QED BY SessionInit, SessionStep, PTL DEF Spec

\* `handle_conn` reads as a command only what the client sent as one, unless the
\* request before it was given up on, whatever the chunks, the limits and the
\* place where a stream is cut.
THEOREM CommandsStayInStep == Spec => []InStep
<1>1. SessionInv => InStep BY DEF SessionInv
<1> QED BY <1>1, SessionInvariant, PTL

\* OK from INSTREAM, EXINSTREAM or in a list of EXINSTREAM MULTI is said only of a
\* file that arrived whole and was looked at to its last byte.
THEOREM OkIsEarned == Spec => []OkMeansExamined
<1>1. SessionInv => OkMeansExamined BY DEF SessionInv
<1> QED BY <1>1, SessionInvariant, PTL

\* The list of EXINSTREAM MULTI has an entry for each file sent, in their order,
\* and is marked truncated exactly when the client did not end the request.
THEOREM ListsAreWhole == Spec => []ListIsWhole
<1>1. SessionInv => ListIsWhole BY DEF SessionInv
<1> QED BY <1>1, SessionInvariant, PTL

\* A detection in what was kept is answered, and no verdict of a volume set
\* (analyze_volume_sets) takes it away, for any number of files and parts.
THEOREM DetectionsStand == Spec => []DetectionStands
<1>1. SessionInv => DetectionStands BY DEF SessionInv
<1> QED BY <1>1, SessionInvariant, PTL
=============================================================================
