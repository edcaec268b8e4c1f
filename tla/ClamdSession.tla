---------------------------- MODULE ClamdSession ----------------------------
(***************************************************************************)
(* One client connection of the clamd listener: the command loop           *)
(* (`handle_conn`), and the three verbs whose payload follows the command  *)
(* on the same socket: INSTREAM, EXINSTREAM and EXINSTREAM MULTI.          *)
(*                                                                         *)
(* The socket is one stream of bytes and carries no record boundaries, so  *)
(* the daemon's idea of what comes next and the client's must agree.  `at` *)
(* is what the client's next unread bytes are to the client; `pc` is what  *)
(* the daemon is about to read or do.  The client may hang up anywhere, so *)
(* the bytes are chosen as they are read.                                  *)
(*                                                                         *)
(* A file's content is the number `bad` of bytes that have to be looked at *)
(* to see malware in it (0: there is none), chosen when the file is first  *)
(* looked at.  What the spill budgets grant is a choice here; they are the *)
(* subject of SpillBudget.                                                 *)
(***************************************************************************)
EXTENDS Naturals, Sequences, FiniteSets, FiniteSetsExt, SequencesExt

CONSTANTS
    MaxChunk,       \* longest chunk a client sends
    MaxScan,        \* max_scan_size, the --max-input-bytes of a stream
    Threshold,      \* bytes kept in RAM before the stream spills
    MAX_DRAIN_BYTES,
    NParts,         \* names 1..NParts are the volumes of one byte-split set
    MAX_STREAM_FILES,
    MAX_STREAM_REQUEST_RAM,
    MAX_STREAM_REQUEST_SPILL,
    DeepMax         \* deep_analysis_max, most bytes that are rejoined

ASSUME ConstantsAssumption ==
    /\ {MaxChunk, MaxScan, Threshold, MAX_DRAIN_BYTES, NParts,
        MAX_STREAM_FILES, MAX_STREAM_REQUEST_RAM, MAX_STREAM_REQUEST_SPILL,
        DeepMax} \subseteq Nat
    /\ MaxChunk > 0 /\ MAX_DRAIN_BYTES > 0

VARIABLES
    at,         \* the client's side: what its next unread bytes are
    sent,       \* the client's side: the names it has sent in this request
    pc,         \* the daemon's side: what it does next
    session,    \* inside SESSION or IDSESSION
    req,        \* the verb being served
    str,        \* the Instream and what buffer_to_seekable holds of it
    entries,    \* the files of an EXINSTREAM MULTI request
    held,       \* bytes that request holds, in RAM and spilled
    reply,      \* the reply being written
    gaveUp,     \* the last request was refused, or its drain stopped at the cap
    policy      \* --partial-as: what a partial verdict is reported as

vars == <<at, sent, pc, session, req, str, entries, held, reply, gaveUp, policy>>

Streams == {"INSTREAM", "EXINSTREAM", "MULTI"}
Names == 0 .. NParts                     \* 0 is no volume of a set
Status == {"OK", "FOUND", "PARTIAL", "ERROR"}
Policies == {"OK", "FOUND", "PARTIAL", "ERROR"}

(* Instream::new, and nothing held of the file yet. *)
NewStream ==
    [remaining |-> 0, done |-> FALSE, truncated |-> FALSE, total |-> 0,
     over |-> FALSE, kept |-> 0, short |-> FALSE, drained |-> 0,
     failed |-> FALSE]

NoBytes == [ram |-> 0, spill |-> 0]
NoReply == [kind |-> "none"]
Refused == [kind |-> "refused"]          \* json_error, and no verdict

TypeOK ==
    /\ at \in {"command", "name", "chunk", "data", "eof"}
    /\ pc \in {"command", "name", "buffer", "drain", "scan", "sets", "reply",
               "closed", "lost"}
    /\ session \in BOOLEAN /\ gaveUp \in BOOLEAN
    /\ req \in Streams \cup {"none", "plain"}
    /\ policy \in Policies
    /\ sent \in Seq(Names) /\ Len(sent) <= MAX_STREAM_FILES
    /\ Len(entries) <= Len(sent)
    /\ reply.kind \in {"none", "refused", "line", "list"}

Init ==
    /\ at = "command" /\ pc = "command" /\ req = "none"
    /\ session = FALSE
    /\ sent = <<>> /\ entries = <<>>
    /\ str = NewStream /\ held = NoBytes
    /\ reply = NoReply /\ gaveUp = FALSE
    /\ policy \in Policies

-----------------------------------------------------------------------------
(* The command loop.                                                       *)

(* The first command of the connection is SESSION or IDSESSION. *)
StartSession ==
    /\ pc = "command" /\ at = "command" /\ ~session /\ req = "none"
    /\ session' = TRUE
    /\ UNCHANGED <<at, sent, pc, req, str, entries, held, reply, gaveUp, policy>>

(* END, end of input, or a line that is too long or not UTF-8. *)
EndSession ==
    /\ pc = "command" /\ at \in {"command", "eof"}
    /\ pc' = "closed"
    /\ UNCHANGED <<at, sent, session, req, str, entries, held, reply, gaveUp, policy>>

(* A command that reads nothing more from the stream. *)
RunPlain ==
    /\ pc = "command" /\ at = "command"
    /\ req' = "plain" /\ gaveUp' = FALSE
    /\ pc' = "reply"
    /\ UNCHANGED <<at, sent, session, str, entries, held, reply, policy>>

(* A verb whose payload follows. *)
RunStream(verb) ==
    /\ pc = "command" /\ at = "command"
    /\ req' = verb /\ gaveUp' = FALSE
    /\ at' = IF verb = "MULTI" THEN "name" ELSE "chunk"
    /\ pc' = IF verb = "MULTI" THEN "name" ELSE "buffer"
    /\ UNCHANGED <<sent, session, str, entries, held, reply, policy>>

(* What is left of an abandoned request is read as a command: it may be     *)
(* anything, and nothing more is said of this connection.                   *)
ReadStray ==
    /\ pc = "command" /\ at \notin {"command", "eof"}
    /\ pc' = "lost"
    /\ UNCHANGED <<at, sent, session, req, str, entries, held, reply, gaveUp, policy>>

(* write_reply, and the next turn of the loop or the end of the connection. *)
(* What the request held is dropped; whether it was given up on stays.      *)
Reply ==
    /\ pc = "reply"
    /\ pc' \in {"closed"} \cup (IF session THEN {"command"} ELSE {})
    /\ gaveUp' = (reply = Refused \/ str.drained >= MAX_DRAIN_BYTES)
    /\ str' = NewStream /\ entries' = <<>> /\ sent' = <<>>
    /\ held' = NoBytes /\ reply' = NoReply
    /\ UNCHANGED <<at, session, req, policy>>

(* The client hangs up, or is cut off, inside a request. *)
ClientCloses ==
    /\ at \notin {"command", "eof"}
    /\ at' = "eof"
    /\ UNCHANGED <<sent, pc, session, req, str, entries, held, reply, gaveUp, policy>>

-----------------------------------------------------------------------------
(* Instream: the chunks of one file.                                       *)

(* `read` goes on: more is wanted and nothing stops it. *)
Buffering == pc = "buffer" /\ ~str.done /\ ~str.over /\ ~str.short

(* `drain` goes on: its cap is tested before every read. *)
Draining == pc = "drain" /\ ~str.done /\ str.drained < MAX_DRAIN_BYTES

(* next_chunk: a length, zero being the end of the file. *)
NextChunk(k) ==
    /\ (Buffering \/ Draining) /\ at = "chunk" /\ str.remaining = 0
    /\ str' = [str EXCEPT !.remaining = k, !.done = (k = 0)]
    /\ at' = IF k > 0 THEN "data" ELSE IF req = "MULTI" THEN "name" ELSE "command"
    /\ UNCHANGED <<sent, pc, session, req, entries, held, reply, gaveUp, policy>>

(* A plausible bug: end of input is taken for the terminator. *)
StreamCutQuietly ==
    /\ (Buffering \/ Draining) /\ at = "eof"
    /\ str' = [str EXCEPT !.done = TRUE]
    /\ UNCHANGED <<at, sent, pc, session, req, entries, held, reply, gaveUp, policy>>

(* next_chunk, read and drain at end of input. *)
StreamCut ==
    /\ (Buffering \/ Draining) /\ at = "eof"
    /\ str' = [str EXCEPT !.done = TRUE, !.truncated = TRUE]
    /\ UNCHANGED <<at, sent, pc, session, req, entries, held, reply, gaveUp, policy>>

(* What the reader is left with once `n` more bytes are taken. *)
Took(n) == [str EXCEPT !.remaining = @ - n, !.total = @ + n]
AtAfter(n) == IF str.remaining = n THEN "chunk" ELSE "data"

(* Past the limit, `read` hands over one byte more than it and no further. *)
HandedOver(n) ==
    IF str.total + n > MaxScan THEN (MaxScan + 1) - str.total ELSE n

(* One read of buffer_to_seekable: up to the threshold into RAM, the rest   *)
(* into a spill file.                                                       *)
BufferData(n) ==
    /\ Buffering /\ at = "data" /\ n \in 1 .. str.remaining
    /\ str.kept < Threshold => str.kept + n <= Threshold
    /\ str' = [Took(n) EXCEPT !.kept = @ + HandedOver(n),
                              !.over = str.total + n > MaxScan]
    /\ at' = AtAfter(n)
    /\ UNCHANGED <<sent, pc, session, req, entries, held, reply, gaveUp, policy>>

(* One read that the spill budgets refuse: the block is read and not kept,  *)
(* nor is the head when it is the head that finds no room.                  *)
BufferShort(n) ==
    /\ Buffering /\ at = "data" /\ n \in 1 .. str.remaining
    /\ str.kept >= Threshold
    /\ \E k \in {str.kept} \cup (IF str.kept = Threshold THEN {0} ELSE {}) :
         str' = [Took(n) EXCEPT !.kept = k, !.short = TRUE,
                                !.over = str.total + n > MaxScan]
    /\ at' = AtAfter(n)
    /\ UNCHANGED <<sent, pc, session, req, entries, held, reply, gaveUp, policy>>

(* A plausible bug: the tail of the stream is not read. *)
BufferedNoDrain ==
    /\ pc = "buffer" /\ ~Buffering
    /\ pc' = "scan"
    /\ UNCHANGED <<at, sent, session, req, str, entries, held, reply, gaveUp, policy>>

(* The socket or the spill file fails: INSTREAM gives the connection up,    *)
(* the EXINSTREAM verbs drain and answer an error.                          *)
BufferFails ==
    /\ Buffering
    /\ IF req = "INSTREAM"
         THEN /\ pc' = "closed"
              /\ UNCHANGED str
         ELSE /\ pc' = "drain"
              /\ str' = [str EXCEPT !.failed = TRUE]
    /\ UNCHANGED <<at, sent, session, req, entries, held, reply, gaveUp, policy>>

Buffered ==
    /\ pc = "buffer" /\ ~Buffering
    /\ pc' = "drain"
    /\ UNCHANGED <<at, sent, session, req, str, entries, held, reply, gaveUp, policy>>

(* One read of `drain`. *)
DrainData(n) ==
    /\ Draining /\ at = "data" /\ n \in 1 .. str.remaining
    /\ str' = [Took(n) EXCEPT !.drained = @ + n]
    /\ at' = AtAfter(n)
    /\ UNCHANGED <<sent, pc, session, req, entries, held, reply, gaveUp, policy>>

(* A drain that fails ends the connection, but for the one that follows an  *)
(* error, whose outcome nobody looks at.                                    *)
DrainFails ==
    /\ Draining
    /\ pc' = IF str.failed THEN "scan" ELSE "closed"
    /\ UNCHANGED <<at, sent, session, req, str, entries, held, reply, gaveUp, policy>>

Drained ==
    /\ pc = "drain" /\ ~Draining
    /\ pc' = "scan"
    /\ UNCHANGED <<at, sent, session, req, str, entries, held, reply, gaveUp, policy>>

-----------------------------------------------------------------------------
(* Verdicts.                                                               *)

(* verdict_line and verdict_fields: the policy applies to a partial verdict. *)
StatusOf(v) == IF v = "PARTIAL" THEN policy ELSE v

Malware(bad) == bad > 0 /\ bad <= str.total
Infected(bad) == bad > 0 /\ bad <= Min({str.kept, MaxScan})

(* scan_held: what the held bytes may be found to be.  The engine has its   *)
(* own reasons for a partial verdict; past a limit there is always one.     *)
ScanHeld(bad) ==
    IF Infected(bad) THEN {"FOUND"}
    ELSE IF str.short \/ str.total > MaxScan THEN {"PARTIAL"}
    ELSE {"OK", "PARTIAL"}

(* A stream that was cut has no verdict, whatever its bytes are. *)
Answers(bad) ==
    IF str.truncated THEN {"ERROR"} ELSE {StatusOf(v) : v \in ScanHeld(bad)}

(* instream and exinstream: the reply.  A scan that fails is an error       *)
(* answered by EXINSTREAM, and the end of the connection for INSTREAM.      *)
AnswerStream(bad) ==
    /\ pc = "scan" /\ req \in {"INSTREAM", "EXINSTREAM"} /\ ~str.failed
    /\ \/ \E s \in Answers(bad) \cup (IF req = "EXINSTREAM" THEN {"ERROR"} ELSE {}) :
            reply' = [kind |-> "line", status |-> s, malware |-> Malware(bad),
                      seen |-> Infected(bad)]
       \/ req = "INSTREAM" /\ ~str.truncated /\ reply' = NoReply
    /\ pc' = IF reply'.kind = "none" THEN "closed" ELSE "reply"
    /\ UNCHANGED <<at, sent, session, req, str, entries, held, gaveUp, policy>>

(* "stream read error": what is left of a MULTI request stays unread. *)
AnswerFailed ==
    /\ pc = "scan" /\ str.failed
    /\ reply' = Refused
    /\ pc' = "reply"
    /\ UNCHANGED <<at, sent, session, req, str, entries, held, gaveUp, policy>>

-----------------------------------------------------------------------------
(* exinstream_multi: the files of one request.                             *)

(* A name, and the file's stream begins. *)
ReadName(n) ==
    /\ pc = "name" /\ at = "name" /\ Len(entries) < MAX_STREAM_FILES
    /\ at' = "chunk" /\ sent' = Append(sent, n)
    /\ str' = NewStream
    /\ pc' = "buffer"
    /\ UNCHANGED <<session, req, entries, held, reply, gaveUp, policy>>

(* A name length of zero ends the request. *)
ReadEnd ==
    /\ pc = "name" /\ at = "name"
    /\ at' = "command"
    /\ pc' = "sets" /\ str' = NewStream
    /\ UNCHANGED <<sent, session, req, entries, held, reply, gaveUp, policy>>

(* "filename too long" (at any file) and "too many files in one request". *)
RefuseName ==
    /\ pc = "name" /\ at = "name"
    /\ reply' = Refused
    /\ pc' = "reply"
    /\ UNCHANGED <<at, sent, session, req, str, entries, held, gaveUp, policy>>

(* A plausible bug: end of input ends the request. *)
NameCutQuietly ==
    /\ pc = "name" /\ at = "eof"
    /\ pc' = "sets" /\ str' = NewStream
    /\ UNCHANGED <<at, sent, session, req, entries, held, reply, gaveUp, policy>>

(* The request ends before its terminator. *)
NameCut ==
    /\ pc = "name" /\ at = "eof"
    /\ pc' = "sets" /\ str' = [NewStream EXCEPT !.truncated = TRUE]
    /\ UNCHANGED <<at, sent, session, req, entries, held, reply, gaveUp, policy>>

(* The file's entry.  What is held of it is kept for its set only when that *)
(* is all of it; the last four fields are what really became of it.         *)
Entry(s, bad) ==
    LET whole == ~str.short /\ str.kept = str.total
    IN [name |-> Last(sent), status |-> s,
        whole |-> whole, size |-> IF whole THEN str.kept ELSE 0,
        ended |-> str.done, cut |-> str.truncated,
        malware |-> Malware(bad), seen |-> Infected(bad)]

HeldWith == IF str.kept <= Threshold THEN [held EXCEPT !.ram = @ + str.kept]
                                     ELSE [held EXCEPT !.spill = @ + str.kept]

(* A file whose drain did not reach its end leaves the next name where the  *)
(* loop would not look for it; a request past its room is refused whole.    *)
AnswerFile(bad) ==
    /\ pc = "scan" /\ req = "MULTI" /\ ~str.failed
    /\ \E s \in Answers(bad) \cup {"ERROR"} : entries' = Append(entries, Entry(s, bad))
    /\ held' = HeldWith
    /\ IF ~str.done \/ str.truncated
         THEN /\ pc' = "sets" /\ reply' = reply
              /\ str' = [NewStream EXCEPT !.truncated = TRUE, !.drained = str.drained]
         ELSE /\ str' = NewStream
              /\ IF \/ HeldWith.ram > MAX_STREAM_REQUEST_RAM
                    \/ HeldWith.spill > MAX_STREAM_REQUEST_SPILL
                   THEN pc' = "reply" /\ reply' = Refused
                   ELSE pc' = "name" /\ reply' = reply
    /\ UNCHANGED <<at, sent, session, req, gaveUp, policy>>

-----------------------------------------------------------------------------
(* analyze_volume_sets over the files of a request.                        *)

FirstOf(n) == Min({i \in DOMAIN entries : entries[i].name = n})
PartsSent == {entries[i].name : i \in DOMAIN entries} \ {0}

(* The parts `held_bytes` hands over, the first of each name. *)
Fetched ==
    {n \in PartsSent : LET e == entries[FirstOf(n)] IN e.whole /\ e.size <= DeepMax}

TotalOf(size) == MapThenSumSet(LAMBDA n : size[n], DOMAIN size)

(* A part was not read, came twice, or was past the collector's room. *)
Broken ==
    \/ Fetched # PartsSent
    \/ \E i, j \in DOMAIN entries :
         i # j /\ entries[i].name = entries[j].name /\ entries[i].name # 0
    \/ TotalOf([n \in Fetched |-> entries[FirstOf(n)].size]) > DeepMax

(* The parts that are reported with the archive's verdict, and that verdict *)
(* when the archive, once joined, is found to be `v`.                       *)
SetVerdict(v) ==
    IF Broken \/ Fetched # 1 .. Cardinality(Fetched) THEN "PARTIAL" ELSE v

Reported == IF Broken \/ Cardinality(Fetched) >= 2 THEN Fetched ELSE {}

(* A plausible bug: a detection in the archive does not replace the PARTIAL *)
(* of its part.                                                             *)
MergedOkOnly(i, v) ==
    IF /\ entries[i].name \in Reported /\ i = FirstOf(entries[i].name)
       /\ entries[i].status = "OK"
      THEN StatusOf(SetVerdict(v)) ELSE entries[i].status

(* The archive's verdict replaces a part's OK, and a detection replaces     *)
(* anything but a detection.                                                *)
Merged(i, v) ==
    LET own == entries[i].status
        set == SetVerdict(v)
    IN IF /\ entries[i].name \in Reported /\ i = FirstOf(entries[i].name)
          /\ own = "OK" \/ (set = "FOUND" /\ own # "FOUND")
         THEN StatusOf(set) ELSE own

AnswerMulti(v) ==
    /\ pc = "sets"
    /\ reply' = [kind |-> "list", truncated |-> str.truncated, archive |-> SetVerdict(v),
                 files |-> [i \in DOMAIN entries |-> Merged(i, v)]]
    /\ pc' = "reply"
    /\ UNCHANGED <<at, sent, session, req, str, entries, held, gaveUp, policy>>

-----------------------------------------------------------------------------
Next ==
    \/ StartSession \/ EndSession \/ RunPlain \/ ReadStray \/ Reply \/ ClientCloses
    \/ \E verb \in Streams : RunStream(verb)
    \/ \E k \in 0 .. MaxChunk : NextChunk(k)
    \/ \E n \in 1 .. MaxChunk : BufferData(n) \/ BufferShort(n) \/ DrainData(n)
    \/ StreamCut \/ BufferFails \/ Buffered \/ DrainFails \/ Drained
    \/ \E bad \in 0 .. str.total : AnswerStream(bad) \/ AnswerFile(bad)
    \/ AnswerFailed
    \/ \E n \in Names : ReadName(n)
    \/ ReadEnd \/ RefuseName \/ NameCut
    \/ \E v \in {"OK", "FOUND", "PARTIAL"} : AnswerMulti(v)

Spec == Init /\ [][Next]_vars

-----------------------------------------------------------------------------
(* Properties.                                                             *)

(* The daemon reads as a command only what the client sent as one.  Two     *)
(* things break the step, and both are the code's own choice: a request     *)
(* that was answered with an error and abandoned, and a drain that stopped  *)
(* at MAX_DRAIN_BYTES.                                                      *)
InStep ==
    pc = "command" /\ at \notin {"command", "eof"} => gaveUp

(* OK is said only of a file that arrived to its terminator and was looked  *)
(* at to its last byte, alone or in a list.  --partial-as ok waives the     *)
(* looking, and not even that policy passes a stream that was cut.          *)
OkMeansExamined ==
    /\ reply.kind = "line" =>
         (reply.status = "OK" =>
            /\ ~str.truncated
            /\ policy # "OK" => at = "command" /\ ~reply.malware)
    /\ reply.kind = "list" =>
         \A i \in DOMAIN entries :
            reply.files[i] = "OK" =>
               /\ ~entries[i].cut
               /\ policy # "OK" => entries[i].ended /\ ~entries[i].malware

(* A list that is not marked truncated has an entry for every file of a     *)
(* request that the client ended; one that is marked was not ended.         *)
ListIsWhole ==
    reply.kind = "list" =>
        /\ reply.truncated <=> at # "command"
        /\ [i \in DOMAIN entries |-> entries[i].name] = sent

(* A detection beats a limit, and stands: malware within what was kept and  *)
(* may be scanned is FOUND, unless there is an error to report instead, no  *)
(* verdict of an archive takes a part's own FOUND away, and the parts of an *)
(* archive found infected are FOUND.                                        *)
DetectionStands ==
    /\ reply.kind = "line" => (reply.seen => reply.status \in {"FOUND", "ERROR"})
    /\ reply.kind = "list" =>
         \A i \in DOMAIN entries :
            /\ entries[i].seen => reply.files[i] = "FOUND" \/ entries[i].status = "ERROR"
            /\ /\ reply.archive = "FOUND" /\ entries[i].name \in Reported
               /\ i = FirstOf(entries[i].name)
               => reply.files[i] = "FOUND"

(* "A part that cannot be read, or that the collector will not hold, takes  *)
(* its whole set with it" (analyze_volume_sets): the parts of a set of      *)
(* which one was not read are not all OK.                                   *)
SetIsReported ==
    reply.kind = "list" /\ policy # "OK" /\ Cardinality(PartsSent) >= 2 =>
        (Fetched # PartsSent =>
            \E i \in DOMAIN entries :
               entries[i].name # 0 /\ reply.files[i] # "OK")

=============================================================================
