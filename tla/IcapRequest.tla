----------------------------- MODULE IcapRequest -----------------------------
(***************************************************************************)
(* The requests of one ICAP connection: `serve_connection`'s loop,         *)
(* `handle_request`, `modify` and the chunked body it reads, in two parts  *)
(* when the client sends a preview.                                        *)
(*                                                                         *)
(* As in ClamdSession, `at` is what the client's next unread bytes are to  *)
(* the client and `step` what the server does.  After a preview that is    *)
(* not the whole object the client waits (`at` = "wait") for a 100 or for  *)
(* the answer.  An object shows malware once `bad` of its bytes are looked *)
(* at (0: never); a look at part of it may find that part undecodable.     *)
(***************************************************************************)
EXTENDS Naturals, FiniteSets, FiniteSetsExt

CONSTANTS
    MaxChunk,       \* longest chunk a client sends
    MaxObject,      \* longest object a client sends
    Limit,          \* max_scan_size, the --max-input-bytes of an object
    DrainLimit,     \* max_drain_bytes
    Threshold       \* bytes a Body keeps in RAM before it spills

ASSUME RequestAssumption ==
    /\ {MaxChunk, MaxObject, Limit, DrainLimit, Threshold} \subseteq Nat
    /\ MaxChunk > 0 /\ Limit > 0 /\ Threshold > 0

VARIABLES
    at,         \* the client's side: what its next unread bytes are
    step,       \* the server's side: what it does next
    rq,         \* the request's head
    stage,      \* the part of the body being read: "preview", "rest", "all"
    chunk,      \* bytes of the current chunk still to keep and to discard
    bd,         \* the Body and the BodyOutcome
    bad,        \* where the object shows malware
    asked,      \* a 100 Continue went out for this request
    answer,     \* the final answer to this request
    policy      \* --partial-as

requestVars == <<at, step, rq, stage, chunk, bd, bad, asked, answer, policy>>

Heads ==
    [method : {"MOD"}, body : BOOLEAN, preview : BOOLEAN, allow204 : BOOLEAN,
     close : BOOLEAN]
    \cup
    [method : {"OPTIONS"}, body : BOOLEAN, preview : {FALSE}, allow204 : {FALSE},
     close : BOOLEAN]

NoChunk == [keep |-> 0, discard |-> 0]
NoBody ==
    [kept |-> 0, total |-> 0, drained |-> 0, over |-> FALSE, rejected |-> FALSE,
     abandoned |-> FALSE, end |-> "none"]
NoAnswer == [kind |-> "none", close |-> FALSE, why |-> "none"]

RequestTypeOK ==
    /\ at \in {"head", "chunk", "data", "wait", "eof"}
    /\ step \in {"head", "chunk", "data", "preview", "scan", "answer", "closed"}
    /\ rq \in Heads /\ stage \in {"preview", "rest", "all"}
    /\ chunk \in [keep : 0 .. MaxChunk, discard : 0 .. MaxChunk]
    /\ bd.kept \in 0 .. bd.total /\ bd.total \in 0 .. MaxObject /\ bad \in 0 .. MaxObject
    /\ asked \in BOOLEAN
    /\ answer.kind \in {"none", "block", "204", "echo", "options", "error"}
    /\ policy \in {"OK", "FOUND", "PARTIAL"}

RequestInit ==
    /\ at = "head" /\ step = "head"
    /\ rq \in {h \in Heads : h.method = "OPTIONS" /\ ~h.body /\ ~h.close}
    /\ stage = "all" /\ chunk = NoChunk /\ bd = NoBody /\ bad = 0
    /\ asked = FALSE /\ answer = NoAnswer
    /\ policy \in {"OK", "FOUND", "PARTIAL"}

-----------------------------------------------------------------------------
(* The head.                                                               *)

(* A REQMOD or RESPMOD, its Encapsulated and Preview headers understood and *)
(* its encapsulated HTTP headers read.                                      *)
ReadModify(h, b) ==
    /\ step = "head" /\ at = "head" /\ h.method = "MOD"
    /\ rq' = h /\ bad' = b
    /\ bd' = NoBody /\ asked' = FALSE /\ answer' = NoAnswer
    /\ stage' = IF h.preview THEN "preview" ELSE "all"
    /\ at' = IF h.body THEN "chunk" ELSE "head"
    /\ step' = IF h.body THEN "chunk" ELSE "scan"
    /\ UNCHANGED <<chunk, policy>>

(* OPTIONS is answered at once; a body after it is not read. *)
ReadOptions(h) ==
    /\ step = "head" /\ at = "head" /\ h.method = "OPTIONS"
    /\ rq' = h /\ bad' = 0
    /\ bd' = NoBody /\ asked' = FALSE
    /\ at' = IF h.body THEN "chunk" ELSE "head"
    /\ answer' = [kind |-> "options", close |-> h.close, why |-> "none"]
    /\ step' = "answer"
    /\ UNCHANGED <<stage, chunk, policy>>

(* A head that does not parse, a service that is not served, a method that  *)
(* is not known: whatever follows is not read, and the connection closes.   *)
RefuseHead ==
    /\ step = "head" /\ at = "head"
    /\ asked' = FALSE
    /\ answer' = [kind |-> "error", close |-> TRUE, why |-> "head"]
    /\ step' = "answer" /\ at' \in {"head", "chunk"}
    /\ UNCHANGED <<rq, stage, chunk, bd, bad, policy>>

(* The end of input, the last keep-alive request, or an I/O error. *)
EndConnection ==
    /\ step = "head" /\ at \in {"head", "eof"}
    /\ step' = "closed"
    /\ UNCHANGED <<at, rq, stage, chunk, bd, bad, asked, answer, policy>>

-----------------------------------------------------------------------------
(* read_chunked_body.                                                      *)

(* What a chunk of `k` bytes does to the outcome before a byte of it is     *)
(* read: it is split at the limit, and what is past it is charged.          *)
Keep(k) == IF bd.rejected THEN 0 ELSE Min({Limit - bd.kept, k})

Opened(k) ==
    [bd EXCEPT !.total = @ + k, !.drained = @ + (k - Keep(k)),
               !.over = @ \/ Keep(k) < k,
               !.abandoned = Keep(k) < k /\ bd.drained + (k - Keep(k)) > DrainLimit]

(* A plausible bug: `0; ieof` is taken for a plain last chunk. *)
AfterBodyAnyEnd(b) ==
    IF stage = "preview" /\ ~b.over /\ ~b.rejected THEN "preview" ELSE "scan"

(* What follows the body: the preview's scan, or the scan. *)
AfterBody(b) ==
    IF stage = "preview" /\ b.end = "eof" /\ ~b.over /\ ~b.rejected
      THEN "preview" ELSE "scan"

ChunkLine(k) ==
    /\ step = "chunk" /\ at = "chunk" /\ k > 0 /\ bd.total + k <= MaxObject
    /\ at' = "data"
    /\ bd' = IF Opened(k).abandoned THEN [Opened(k) EXCEPT !.end = "eof"] ELSE Opened(k)
    /\ IF bd'.abandoned THEN step' = AfterBody(bd') /\ chunk' = NoChunk
                        ELSE /\ step' = "data"
                             /\ chunk' = [keep |-> Keep(k), discard |-> k - Keep(k)]
    /\ UNCHANGED <<rq, stage, bad, asked, answer, policy>>

(* The last chunk and its trailer: `0`, or `0; ieof` when the preview is    *)
(* the whole object.                                                        *)
LastChunk(end) ==
    /\ step = "chunk" /\ at = "chunk"
    /\ end = "ieof" => stage = "preview"
    /\ bd' = [bd EXCEPT !.end = end]
    /\ at' = IF stage = "preview" /\ end = "eof" THEN "wait" ELSE "head"
    /\ step' = AfterBody(bd')
    /\ UNCHANGED <<rq, stage, chunk, bad, asked, answer, policy>>

(* One read that is kept. *)
KeepData(n) ==
    /\ step = "data" /\ at = "data" /\ n \in 1 .. chunk.keep
    /\ chunk' = [chunk EXCEPT !.keep = @ - n]
    /\ bd' = [bd EXCEPT !.kept = @ + n]
    /\ UNCHANGED <<at, step, rq, stage, bad, asked, answer, policy>>

(* One read that the spill budgets refuse.  Nothing more is kept, reading   *)
(* goes on, and the unread part of the chunk is charged to the drain.       *)
KeepRefused(n) ==
    /\ step = "data" /\ at = "data" /\ n \in 1 .. chunk.keep
    /\ bd.kept + n > Threshold
    /\ LET unread == chunk.keep - n
           left == unread > 0 /\ bd.drained + unread > DrainLimit
       IN /\ bd' = [bd EXCEPT !.kept = Max({@, Threshold}), !.rejected = TRUE,
                              !.over = TRUE, !.drained = @ + unread,
                              !.abandoned = left,
                              !.end = IF left THEN "eof" ELSE @]
          /\ IF left THEN step' = "scan" /\ chunk' = NoChunk
                     ELSE /\ step' = "data"
                          /\ chunk' = [keep |-> 0, discard |-> chunk.discard + unread]
    /\ UNCHANGED <<at, rq, stage, bad, asked, answer, policy>>

(* The discarded part of the chunk, and the line end that closes it. *)
EndChunk ==
    /\ step = "data" /\ at = "data" /\ chunk.keep = 0
    /\ chunk' = NoChunk
    /\ at' = "chunk"
    /\ step' = "chunk"
    /\ UNCHANGED <<rq, stage, bd, bad, asked, answer, policy>>

(* Framing that is not valid, the body's end before its last chunk          *)
(* included: 400, and the connection closes.                                *)
Malformed ==
    /\ step \in {"chunk", "data"}
    /\ answer' = [kind |-> "error", close |-> TRUE, why |-> "body"]
    /\ step' = "answer"
    /\ UNCHANGED <<at, rq, stage, chunk, bd, bad, asked, policy>>

(* The transport or the temp filesystem fails: no answer. *)
ReadFails ==
    /\ step \in {"chunk", "data"}
    /\ step' = "closed"
    /\ UNCHANGED <<at, rq, stage, chunk, bd, bad, asked, answer, policy>>

-----------------------------------------------------------------------------
(* Verdicts.                                                               *)

(* decide and apply_found_policy. *)
Decide(v) == IF v = "PARTIAL" /\ policy = "FOUND" THEN "FOUND" ELSE v

(* What a scan of the first `n` bytes may say, with `limits` when the       *)
(* object is known to go on past them, or to an error inside the scanner.   *)
Verdicts(n, limits) ==
    IF bad \in 1 .. n THEN {"FOUND", "ERROR"}
    ELSE {"PARTIAL", "ERROR"} \cup (IF limits THEN {} ELSE {"OK"})

(* The answer to a block, with its reason. *)
Block(why, close) == [kind |-> "block", close |-> close, why |-> why]

(* The preview is scanned from the head in RAM.  A detection is final, and  *)
(* anything else asks for the rest.                                         *)
ScanPreview ==
    /\ step = "preview"
    /\ \E v \in IF bd.kept = 0 THEN {"OK"} ELSE Verdicts(Min({bd.kept, Threshold}), FALSE) :
         IF Decide(v) = "FOUND"
           THEN /\ answer' = Block(v, rq.close)
                /\ step' = "answer"
                /\ UNCHANGED <<at, stage, bd, asked>>
           ELSE /\ asked' = TRUE
                /\ at' = IF at = "wait" THEN "chunk" ELSE at
                /\ stage' = "rest" /\ step' = "chunk"
                /\ bd' = [bd EXCEPT !.drained = 0]
                /\ UNCHANGED answer
    /\ UNCHANGED <<rq, chunk, bad, policy>>

(* scan: nothing to scan is clean; a body past the limit or the budgets is  *)
(* partial at best.                                                         *)
Decisions ==
    IF bd.total = 0 THEN {"OK"}
    ELSE Verdicts(Min({bd.kept, Limit}), bd.rejected \/ bd.total > Limit)

(* A plausible bug: a 204 does not close a connection whose body was        *)
(* abandoned.                                                               *)
AnswerToKeepsOpen(v) ==
    LET d == Decide(v)
        passing == d = "PARTIAL" /\ policy = "OK" /\ (~bd.over \/ rq.allow204)
    IN IF d # "OK" /\ ~passing THEN Block(v, bd.abandoned \/ rq.close)
       ELSE [kind |-> IF rq.allow204 THEN "204" ELSE "echo", close |-> rq.close,
             why |-> v]

(* A plausible bug: the policy passes an object whose tail is gone. *)
AnswerToPassesCut(v) ==
    LET d == Decide(v)
    IN IF d # "OK" /\ ~(d = "PARTIAL" /\ policy = "OK")
         THEN Block(v, bd.abandoned \/ rq.close)
       ELSE [kind |-> IF rq.allow204 THEN "204" ELSE "echo",
             close |-> bd.abandoned \/ rq.close, why |-> v]

(* What `modify` answers to a decision.  A policy of `ok` passes an object  *)
(* that was not fully examined, unless its tail is gone and the client      *)
(* wants the message back.                                                  *)
AnswerTo(v) ==
    LET d == Decide(v)
        passing == d = "PARTIAL" /\ policy = "OK" /\ (~bd.over \/ rq.allow204)
    IN IF d # "OK" /\ ~passing THEN Block(v, bd.abandoned \/ rq.close)
       ELSE IF rq.allow204 THEN [kind |-> "204", close |-> bd.abandoned \/ rq.close,
                                 why |-> v]
       ELSE [kind |-> "echo", close |-> rq.close, why |-> v]

Scan ==
    /\ step = "scan"
    /\ \E v \in Decisions : answer' = AnswerTo(v)
    /\ step' = "answer"
    /\ UNCHANGED <<at, rq, stage, chunk, bd, bad, asked, policy>>

(* Response::write_to.  A client that waited after its preview sends        *)
(* nothing more of it once it has the answer.                               *)
Answer ==
    /\ step = "answer"
    /\ step' \in {"closed"} \cup (IF answer.close THEN {} ELSE {"head"})
    /\ at' = IF at = "wait" THEN "head" ELSE at
    /\ UNCHANGED <<rq, stage, chunk, bd, bad, asked, answer, policy>>

(* The client hangs up inside a request. *)
ClientHangsUp ==
    /\ at \in {"chunk", "data", "wait"}
    /\ at' = "eof"
    /\ UNCHANGED <<step, rq, stage, chunk, bd, bad, asked, answer, policy>>

-----------------------------------------------------------------------------
RequestNext ==
    \/ \E h \in Heads, b \in 0 .. MaxObject : ReadModify(h, b)
    \/ \E h \in Heads : ReadOptions(h)
    \/ RefuseHead \/ EndConnection
    \/ \E k \in 1 .. MaxChunk : ChunkLine(k)
    \/ \E end \in {"eof", "ieof"} : LastChunk(end)
    \/ \E n \in 1 .. MaxChunk : KeepData(n) \/ KeepRefused(n)
    \/ EndChunk \/ Malformed \/ ReadFails
    \/ ScanPreview \/ Scan \/ Answer \/ ClientHangsUp

RequestSpec == RequestInit /\ [][RequestNext]_requestVars

-----------------------------------------------------------------------------
(* Properties.                                                             *)

(* A connection that is kept is at the client's next request, so no byte of *)
(* a body is read as a head.  The one exception is an OPTIONS request with  *)
(* a body, which the code does not read.                                    *)
AtRequestBoundary ==
    step = "head" =>
        at \in {"head", "eof"} \/ (rq.method = "OPTIONS" /\ rq.body)

(* 100 Continue goes only to a client that waits for it: the server then    *)
(* reads the rest of the same body, and never the next request.             *)
ContinueIsAwaited ==
    [][asked' /\ ~asked => at \in {"wait", "eof"} /\ at' \in {"chunk", "eof"}]_requestVars

(* An object that passes arrived whole, was kept whole and shows no         *)
(* malware.  --partial-as ok passes one that could not be examined, but     *)
(* never one the scanner failed on, never one with malware in what was      *)
(* looked at; and a message handed back is never cut short.                 *)
PassedIsExamined ==
    /\ answer.kind \in {"204", "echo"} =>
         \/ /\ bd.kept = bd.total /\ ~(bad \in 1 .. bd.total)
            /\ rq.body => bd.end = "ieof" \/ stage # "preview"
         \/ policy = "OK" /\ answer.why = "PARTIAL" /\ ~(bad \in 1 .. Min({bd.kept, Limit}))
    /\ answer.kind = "echo" => bd.kept = bd.total /\ ~bd.abandoned

(* "Nor is a partial verdict acted on here" (modify, on the preview): an    *)
(* object is blocked on its preview only for a detection in it.             *)
PreviewBlockIsDetection ==
    answer.kind = "block" /\ stage = "preview" /\ bd.end = "eof" /\ ~bd.over =>
        answer.why # "PARTIAL"

=============================================================================
