------------------------------ MODULE HttpConn ------------------------------
(***************************************************************************)
(* One connection of the HTTP server: the request parser, the response     *)
(* writer and the keep-alive and 100-continue logic of                     *)
(* httpserver/HttpReqImpl.cpp, driven by the event loop of                 *)
(* ConnHandler::processEvent, against a well-formed client and any handler *)
(* that keeps to the contract of httprequest.h.                            *)
(*                                                                         *)
(* The input is a queue of tokens: "line" (request line), "hdrs" (the      *)
(* other header lines and the blank one), and a body of "byte" units,      *)
(* framed by "chunk" (a chunk header, one unit long) and "end" (the last   *)
(* chunk) when it is chunked; "raw" after a protocol switch. The output is *)
(* a sequence of records: "cont" (100 Continue), "head" (a final response  *)
(* header with its framing), "data" and "end" (the last chunk).            *)
(*                                                                         *)
(* Left out: what headers, pages and bodies say, the limits on header and  *)
(* body size (their exceptions are handler exceptions), and a network that *)
(* refuses writes. External: the buffered stream and the TCP server of     *)
(* LightSpeed; a read that would block first writes out what is buffered,  *)
(* on which send100continue relies, and so does closing the connection.    *)
(***************************************************************************)
EXTENDS Integers, Sequences, FiniteSets

CONSTANTS
    Kinds,      \* the requests the client can make, see KindType
    NReq,       \* bound: requests per connection
    MaxOps,     \* bound: API calls and non-final returns per request
    Moves,      \* what handlers do, see MoveType
    Pipelined,  \* does the client send before the last response is complete?
    EofReads    \* what the external blockRead does at the end of the input

MoveType == {"read", "canRead", "write", "length", "plain", "connclose",
             "cont", "switch", "errorPage", "closeOutput", "throw",
             "retContinue", "retWrite", "retSleep", "retOK", "retNotModified"}

KindType == [minor : {0, 1, 2}, head : BOOLEAN, body : {"none", "len", "chunked"},
             expect : {"no", "100", "other"}, close : BOOLEAN,
             target : {"handler", "none", "redirect"}]

ASSUME HttpConnAssumption ==
    /\ Kinds \subseteq KindType /\ Kinds # {}
    /\ NReq \in Nat \ {0} /\ MaxOps \in Nat
    /\ Moves \subseteq MoveType
    /\ Pipelined \in BOOLEAN
    /\ EofReads \subseteq {"zero", "throw"} /\ EofReads # {}

VARIABLES
    \* the client
    kinds,      \* the requests it has begun, a sequence of Kinds
    pos,        \* tokens of the newest request sent so far
    closed,     \* has it closed its sending side?
    \* the wires
    in, out,
    flushed,    \* number of out records that left the output buffer
    \* the server
    h,          \* the fields of HttpReqImpl, see Fields
    pc, cmd,    \* where the connection's thread is; how it is parked
    ret,        \* where finishChunk returns to
    \* history
    cur,        \* index of the request being processed
    ops,        \* handler steps spent on it
    misframed,  \* requests after which something else than a request was read
    threw       \* exceptions of handlers: of which request, behind how much
                \* output, and whether its header was among it

clientVars == <<kinds, pos, closed>>
histVars   == <<cur, ops, misframed, threw>>
vars == <<kinds, pos, closed, in, out, flushed, h, pc, cmd, ret, cur, ops,
          misframed, threw>>

All == -1   \* naturalNull of remainPostData after a protocol switch

Fields == [method : BOOLEAN, handler : BOOLEAN, sent : BOOLEAN,
           chunked : BOOLEAN, buff : BOOLEAN, close : BOOLEAN,
           needCont : BOOLEAN, head : BOOLEAN, chunkedPost : BOOLEAN,
           remain : {All, 0, 1, 2}, inClosed : BOOLEAN, outClosed : BOOLEAN,
           switched : BOOLEAN, ev : {"request", "data", "write", "wakeup", "eos"},
           again : BOOLEAN]

Failures == [req : 0..NReq, at : Nat, sent : BOOLEAN]

Places == {"parked", "loop", "header", "lines", "badversion", "handler", "reading",
           "probing", "drain", "removed"}

TypeOK ==
    /\ kinds \in Seq(Kinds) /\ Len(kinds) <= NReq
    /\ pos \in Nat /\ closed \in BOOLEAN
    /\ \A i \in DOMAIN in : in[i] \in [req : 1..NReq,
                                       what : {"line", "hdrs", "byte", "chunk", "end", "raw"}]
    /\ \A i \in DOMAIN out : out[i] \in [req : 0..NReq,
                                         what : {"cont", "head", "data", "end"},
                                         framing : {"none", "chunked", "length", "eof", "switch"},
                                         close : BOOLEAN]
    /\ flushed \in 0..Len(out)
    /\ h \in Fields
    /\ pc \in Places
    /\ cmd \in {"read", "write", "sleep"}
    /\ ret \in {"handler", "finish", "remove"}
    /\ cur \in 0..NReq /\ ops \in 0..MaxOps
    /\ misframed \subseteq 0..NReq /\ threw \subseteq Failures

(* The constructor leaves these fields uninitialized. *)
Init ==
    /\ kinds = <<>> /\ pos = 0 /\ closed = FALSE
    /\ in = <<>> /\ out = <<>> /\ flushed = 0
    /\ \E c, n, e, p, i, o \in BOOLEAN : \E r \in {0, 1} :
         h = [method |-> FALSE, handler |-> FALSE, sent |-> FALSE,
              chunked |-> FALSE, buff |-> FALSE, close |-> c, needCont |-> n,
              head |-> e, chunkedPost |-> p, remain |-> r, inClosed |-> i,
              outClosed |-> o, switched |-> FALSE, ev |-> "request",
              again |-> FALSE]
    /\ pc = "parked" /\ cmd = "read" /\ ret = "finish"
    /\ cur = 0 /\ ops = 0 /\ misframed = {} /\ threw = {}

-----------------------------------------------------------------------------
(* The client. *)

Script(k) ==
    <<"line", "hdrs">> \o (CASE k.body = "none"    -> <<>>
                             [] k.body = "len"     -> <<"byte", "byte">>
                             [] k.body = "chunked" -> <<"chunk", "byte", "chunk", "byte", "end">>)

Written(r, w) == \E i \in DOMAIN out : out[i].req = r /\ out[i].what = w
Seen(r, w) == \E i \in 1..flushed : out[i].req = r /\ out[i].what = w
SeenHead(r, P(_)) == \E i \in 1..flushed : out[i].req = r /\ out[i].what = "head" /\ P(out[i])
SeenComplete(r) ==
    SeenHead(r, LAMBDA m : m.framing = "length" \/ (m.framing = "chunked" /\ Seen(r, "end")))

Newest == Len(kinds)

(* Waiting for permission to send the body of an expecting request. *)
AwaitsContinue ==
    /\ Newest > 0 /\ kinds[Newest].expect = "100" /\ kinds[Newest].body # "none"
    /\ pos = 2 /\ ~Seen(Newest, "cont")

(* A final response instead of 100 Continue: the body is not sent. *)
AllSent == pos = Len(Script(kinds[Newest])) \/ (AwaitsContinue /\ Seen(Newest, "head"))

MayBegin ==
    /\ Newest < NReq
    /\ Newest > 0 => /\ AllSent
                     /\ Pipelined \/ SeenComplete(Newest)
                     /\ ~SeenHead(Newest, LAMBDA m : m.close \/ m.framing = "switch")

Send(r, w) == in' = Append(in, [req |-> r, what |-> w])

ClientBegins ==
    /\ ~closed /\ MayBegin
    /\ \E k \in Kinds : kinds' = Append(kinds, k)
    /\ pos' = 1 /\ Send(Newest + 1, "line")
    /\ UNCHANGED <<closed, out, flushed, h, pc, cmd, ret, histVars>>

ClientContinues ==
    /\ ~closed /\ Newest > 0 /\ pos < Len(Script(kinds[Newest]))
    /\ ~AwaitsContinue
    /\ pos' = pos + 1 /\ Send(Newest, Script(kinds[Newest])[pos + 1])
    /\ UNCHANGED <<kinds, closed, out, flushed, h, pc, cmd, ret, histVars>>

(* After a protocol switch the client may send one unit of the new one. *)
ClientSendsRaw ==
    /\ ~closed /\ Newest > 0 /\ pos = Len(Script(kinds[Newest]))
    /\ SeenHead(Newest, LAMBDA m : m.framing = "switch")
    /\ pos' = pos + 1 /\ Send(Newest, "raw")
    /\ UNCHANGED <<kinds, closed, out, flushed, h, pc, cmd, ret, histVars>>

ClientCloses ==
    /\ ~closed /\ closed' = TRUE
    /\ UNCHANGED <<kinds, pos, in, out, flushed, h, pc, cmd, ret, histVars>>

-----------------------------------------------------------------------------
(* The response writer. *)

(* The request that a record belongs to; 0: written between requests. *)
Who == IF h.method THEN cur ELSE 0
Rec(w) == [req |-> Who, what |-> w, framing |-> "none", close |-> FALSE]
Data(g) == IF g.head THEN <<>> ELSE <<Rec("data")>>

(* sendHeaders: v tells what the handler has put into the header.          *)
(* A final header sent while the client still awaits 100 Continue refuses  *)
(* the body (mutant: the server goes on expecting it).                     *)
RefuseForgets(g) == [g EXCEPT !.needCont = FALSE]
Refuse(g) ==
    IF g.needCont
    THEN [g EXCEPT !.needCont = FALSE, !.remain = 0, !.chunkedPost = FALSE] ELSE g

(* Mutant: Content-Length does not turn chunking off. *)
HeadSentChunked(g, v) ==
    IF v = "cont" THEN Refuse(g) ELSE [Refuse(g) EXCEPT !.sent = TRUE]

HeadSent(g, v) ==
    LET c == [Refuse(g) EXCEPT !.chunked = @ /\ ~g.close /\ v \notin {"length", "switch"}]
    IN  CASE v = "cont"   -> c
          [] v = "switch" -> [c EXCEPT !.sent = TRUE, !.switched = TRUE, !.remain = All]
          [] OTHER        -> [c EXCEPT !.sent = TRUE]

HeadRec(g, v) ==
    IF v = "cont" THEN Rec("cont")
    ELSE [req |-> Who, what |-> "head",
          framing |-> IF v \in {"length", "switch"} THEN v
                      ELSE IF g.chunked /\ ~g.close THEN "chunked" ELSE "eof",
          close |-> v = "connclose" \/ (g.close /\ v # "switch")]

(* errorPage: the field values afterwards, and what is written. *)
PageCode == {"page", "empty"}   \* "empty": 204 and 304
ErrorPage(g, code) ==
    IF code = "empty" /\ ~g.sent THEN HeadSent(g, "length")
    ELSE IF g.sent THEN [g EXCEPT !.close = TRUE]
    ELSE HeadSent([g EXCEPT !.close = TRUE], "plain")
ErrorPageOut(g, code) ==
    IF g.sent THEN <<>>
    ELSE IF code = "empty" THEN <<HeadRec(g, "length")>>
    ELSE <<HeadRec([g EXCEPT !.close = TRUE], "plain")>> \o Data(g)

UseHTTP11(g, use) == [g EXCEPT !.chunked = use, !.close = ~use]

Continue == <<Rec("cont")>>

(* clear(), at the end of every request. *)
Clear(g) ==
    [g EXCEPT !.method = FALSE, !.handler = FALSE, !.sent = FALSE,
              !.head = FALSE, !.chunked = FALSE, !.remain = 0,
              !.chunkedPost = FALSE, !.switched = FALSE]

-----------------------------------------------------------------------------
(* Where a step of the connection's thread can end up. *)

Park(c) == pc' = "parked" /\ cmd' = c /\ UNCHANGED ret
Goto(p) == pc' = p /\ UNCHANGED <<cmd, ret>>
Drain(r) == pc' = "drain" /\ ret' = r /\ UNCHANGED cmd

Emit(recs) == out' = out \o recs /\ UNCHANGED flushed
EmitFlush(recs) == out' = out \o recs /\ flushed' = Len(out')

(* cmdRemove: the stream is destroyed, which writes out its buffer. *)
Remove(recs) == Goto("removed") /\ EmitFlush(recs)

(* errorPageKA: the error page, then finish(), then cmdRemove. finishChunk *)
(* is skipped when the output counts as closed.                            *)
ErrorPageKA(g, code) ==
    IF g.outClosed
    THEN /\ h' = Clear(ErrorPage(g, code))
         /\ Remove(ErrorPageOut(g, code))
    ELSE /\ h' = ErrorPage(g, code)
         /\ Emit(ErrorPageOut(g, code))
         /\ Drain("remove")

(* finish() of a response whose header is out, after writing recs. *)
Finish(g, recs) ==
    IF g.outClosed
    THEN /\ h' = Clear(g)
         /\ IF g.close THEN Remove(recs) ELSE Emit(recs) /\ Goto("loop")
    ELSE h' = g /\ Emit(recs) /\ Drain("finish")

(* An exception reaches onData: an error page if it is still possible, and *)
(* the connection is removed with nothing finished.                        *)
Throw(g) ==
    /\ h' = ErrorPage(UseHTTP11(g, FALSE), "page")
    /\ Remove(ErrorPageOut(UseHTTP11(g, FALSE), "page"))
    /\ threw' = threw \cup {[req |-> cur, at |-> Len(out), sent |-> g.sent]}

Activate(g, event) ==
    /\ h' = [g EXCEPT !.ev = event, !.again = FALSE]
    /\ Goto("handler")

-----------------------------------------------------------------------------
(* The event loop: the TCP server reports an event of a parked connection, *)
(* processEvent calls onData and calls it again as long as the command is  *)
(* cmdWaitRead and input is buffered.                                      *)

DataEvent == IF h.handler THEN Activate(h, "data") ELSE Goto("header") /\ h' = [h EXCEPT !.ev = "request"]

DataReady ==
    /\ pc = "parked" /\ cmd = "read" /\ (in # <<>> \/ closed)
    /\ DataEvent
    /\ UNCHANGED <<clientVars, in, out, flushed, histVars>>

LoopAgain ==
    /\ pc = "loop" /\ in # <<>>
    /\ DataEvent
    /\ UNCHANGED <<clientVars, in, out, flushed, histVars>>

LoopEnds ==
    /\ pc = "loop" /\ in = <<>>
    /\ Park("read") /\ EmitFlush(<<>>)
    /\ UNCHANGED <<clientVars, in, h, histVars>>

WriteReady ==
    /\ pc = "parked" /\ cmd = "write"
    /\ Activate(h, "write")
    /\ UNCHANGED <<clientVars, in, out, flushed, histVars>>

(* wakeUp() was called, before or after the request went to sleep. *)
WakeUp ==
    /\ pc = "parked" /\ cmd = "sleep"
    /\ Activate(h, "wakeup")
    /\ UNCHANGED <<clientVars, in, out, flushed, histVars>>

(* onTimeout *)
Timeout ==
    /\ pc = "parked" /\ cmd \in {"read", "write"}
    /\ Remove(<<>>)
    /\ UNCHANGED <<clientVars, in, h, histVars>>

-----------------------------------------------------------------------------
(* readHeader: at "header" the buffer is filled, at "lines" one line after *)
(* the other is taken from it until there is none.                         *)

RequestLine ==
    /\ pc = "header" /\ in # <<>> /\ ~h.method /\ Head(in).what = "line"
    /\ cur' = Head(in).req /\ in' = Tail(in)
    /\ LET k == kinds[Head(in).req]
           g == [h EXCEPT !.method = TRUE]
       IN  IF k.minor = 2 THEN h' = g /\ Goto("badversion")
           ELSE h' = UseHTTP11(g, k.minor = 1) /\ Goto("lines")
    /\ UNCHANGED <<clientVars, out, flushed, ops, misframed, threw>>

BadVersion ==
    /\ pc = "badversion"
    /\ ErrorPageKA(h, "page")
    /\ UNCHANGED <<clientVars, in, histVars>>

(* finishReadHeader *)
HeaderComplete ==
    /\ pc \in {"header", "lines"} /\ in # <<>> /\ h.method /\ Head(in).what = "hdrs"
    /\ in' = Tail(in) /\ ops' = 0
    /\ LET k == kinds[cur]
           g == [h EXCEPT !.outClosed = FALSE, !.inClosed = FALSE,
                          !.head = k.head,
                          !.close = (k.minor = 0 \/ k.close),
                          !.remain = IF k.body = "len" THEN 2 ELSE 0,
                          !.chunkedPost = (k.body = "chunked"),
                          !.needCont = IF k.expect = "other" THEN @ ELSE k.expect = "100"]
       IN  IF k.expect = "other" \/ k.target = "none" THEN ErrorPageKA(g, "page")
           ELSE IF k.target = "redirect" THEN Finish(HeadSent(g, "length"), <<HeadRec(g, "length")>>)
           ELSE /\ h' = [g EXCEPT !.handler = TRUE, !.ev = "request", !.again = FALSE]
                /\ Emit(<<>>) /\ Goto("handler")
    /\ UNCHANGED <<clientVars, cur, misframed, threw>>

(* Anything else where a request line should be (a unit of a body counts   *)
(* as a line): there is no version in it, the page is written and the      *)
(* connection removed.                                                     *)
GarbageLine ==
    /\ pc = "header" /\ in # <<>> /\ ~h.method /\ Head(in).what # "line"
    /\ misframed' = misframed \cup {cur}
    /\ in' = Tail(in)
    /\ h' = ErrorPage(h, "page") /\ Remove(ErrorPageOut(h, "page"))
    /\ UNCHANGED <<clientVars, cur, ops, threw>>

HeaderIncomplete ==
    /\ pc = "lines" /\ in = <<>>
    /\ Goto("loop")
    /\ UNCHANGED <<clientVars, in, out, flushed, h, histVars>>

(* fetch() returns 0 at the end of the input, too: "Header is too large". *)
HeaderEof ==
    /\ pc = "header" /\ in = <<>>
    /\ h' = ErrorPage(h, "page") /\ Remove(ErrorPageOut(h, "page"))
    /\ UNCHANGED <<clientVars, in, histVars>>

-----------------------------------------------------------------------------
(* What a handler does, one API call at a time. *)

Move(m) == pc = "handler" /\ m \in Moves /\ ops < MaxOps /\ ops' = ops + 1
LastMove(m) == pc = "handler" /\ m \in Moves /\ UNCHANGED ops
HandlerOnly == UNCHANGED <<clientVars, in, cur, misframed, threw>>

(* read(): 100 Continue first, if the client awaits it. *)
(* Mutant: it is sent again by every read().                               *)
HandlerReadsAgain ==
    /\ Move("read")
    /\ Emit(IF h.needCont THEN Continue ELSE <<>>)
    /\ Goto("reading")
    /\ UNCHANGED h /\ HandlerOnly

HandlerReads ==
    /\ Move("read")
    /\ h' = [h EXCEPT !.needCont = FALSE]
    /\ Emit(IF h.needCont THEN Continue ELSE <<>>)
    /\ Goto("reading")
    /\ HandlerOnly

(* canRead(), and with it dataReady() and, for a chunked body,             *)
(* getPostBodySize(): all of them may have to read a chunk header.         *)
HandlerProbes ==
    /\ Move("canRead")
    /\ Goto("probing")
    /\ UNCHANGED <<out, flushed, h>> /\ HandlerOnly

(* status(), header() and sendHeaders(). *)
HandlerSendsHead ==
    /\ \E v \in {"plain", "length", "connclose", "cont", "switch"} :
         /\ Move(v) /\ ~h.sent
         /\ h' = HeadSent(h, v) /\ Emit(<<HeadRec(h, v)>>)
    /\ Goto("handler")
    /\ HandlerOnly

(* write(): a chunk is collected until the chunk buffer overflows. *)
HandlerWrites ==
    /\ Move("write") /\ ~h.outClosed
    /\ LET g == IF h.sent THEN h ELSE HeadSent(h, "plain")
           first == IF h.sent THEN <<>> ELSE <<HeadRec(h, "plain")>>
       IN  IF h.head THEN h' = g /\ Emit(first)
           ELSE IF ~g.chunked THEN h' = g /\ Emit(first \o <<Rec("data")>>)
           ELSE \/ h' = [g EXCEPT !.buff = TRUE] /\ Emit(first)
                \/ h' = [g EXCEPT !.buff = FALSE] /\ Emit(first \o <<Rec("data")>>)
    /\ Goto("handler")
    /\ HandlerOnly

(* errorPage(): the handler returns right after it. *)
HandlerErrorPage ==
    /\ LastMove("errorPage")
    /\ \E code \in PageCode : Finish(ErrorPage(h, code), ErrorPageOut(h, code))
    /\ HandlerOnly

(* closeOutput(), once the header is out. *)
HandlerClosesOutput ==
    /\ Move("closeOutput") /\ h.sent /\ ~h.outClosed
    /\ EmitFlush(<<>>) /\ Drain("handler")
    /\ UNCHANGED h /\ HandlerOnly

HandlerThrows ==
    /\ LastMove("throw")
    /\ Throw(h)
    /\ UNCHANGED <<clientVars, in, cur, misframed>>

(* processHandlerResponse *)

Available(g) ==
    IF g.chunkedPost THEN ~g.inClosed ELSE g.switched \/ g.remain # 0

Final(code) ==
    IF h.sent THEN Finish(h, <<>>) ELSE ErrorPageKA(h, code)

ReturnsFinal ==
    /\ \/ LastMove("retOK") /\ Final("page")
       \/ LastMove("retNotModified") /\ Final("empty")
    /\ HandlerOnly

(* stContinue, after the end of the input: the handler is called again,    *)
(* and stContinue from that call counts as an internal error.              *)
(* Mutant: stContinue does not send 100 Continue.                          *)
ReturnsContinueSilently ==
    /\ Move("retContinue")
    /\ IF h.again THEN Final("page")
       ELSE IF Available(h) THEN UNCHANGED h /\ Emit(<<>>) /\ Goto("loop")
       ELSE h' = [h EXCEPT !.again = TRUE] /\ Emit(<<>>) /\ Goto("handler")
    /\ HandlerOnly

ReturnsContinue ==
    /\ Move("retContinue")
    /\ LET g == IF h.sent THEN h ELSE [h EXCEPT !.needCont = FALSE]
           recs == IF ~h.sent /\ h.needCont THEN Continue ELSE <<>>
       IN  IF h.again THEN Final("page")
           ELSE IF Available(g) THEN h' = g /\ Emit(recs) /\ Goto("loop")
           ELSE /\ h' = [g EXCEPT !.again = TRUE, !.ev = IF h.sent THEN "eos" ELSE @]
                /\ Emit(recs) /\ Goto("handler")
    /\ HandlerOnly

ReturnsWaitForWrite ==
    /\ Move("retWrite")
    /\ IF h.sent THEN UNCHANGED h /\ Emit(<<>>)
       ELSE h' = HeadSent(h, "plain") /\ Emit(<<HeadRec(h, "plain")>>)
    /\ Park("write")
    /\ HandlerOnly

ReturnsSleep ==
    /\ Move("retSleep")
    /\ Park("sleep")
    /\ UNCHANGED <<out, flushed, h>> /\ HandlerOnly

-----------------------------------------------------------------------------
(* Inside read() and canRead(), and the loop of finishChunk. *)

ReadOnly == UNCHANGED <<clientVars, cur, ops, misframed, threw>>
BodyLeft == h.remain # 0

(* finishChunk reads and drops the rest of the body, or of the chunk. *)
Draining == pc = "drain" /\ ~h.needCont /\ ~h.close /\ BodyLeft

(* The thread needs a token of the input. *)
Needs ==
    \/ pc = "reading" /\ ~h.inClosed /\ (h.switched \/ BodyLeft \/ h.chunkedPost)
    \/ pc = "probing" /\ ~h.inClosed /\ ~h.switched /\ ~BodyLeft /\ h.chunkedPost
    \/ Draining /\ ~h.inClosed

NeedsChunk == pc # "drain" /\ ~h.switched /\ ~BodyLeft

(* Nothing to read, or (probing) something is known to be there. *)
ReadReturns ==
    /\ pc \in {"reading", "probing"} /\ ~Needs
    /\ h' = [h EXCEPT !.inClosed = @ \/ ~(h.switched \/ BodyLeft)]
    /\ Goto("handler")
    /\ UNCHANGED <<in, out, flushed>> /\ ReadOnly

ReadUnit ==
    /\ Needs /\ ~NeedsChunk /\ in # <<>>
    /\ in' = Tail(in)
    /\ h' = [h EXCEPT !.remain = IF h.switched THEN @ ELSE @ - 1]
    /\ Goto(IF pc = "drain" THEN "drain" ELSE "handler")
    /\ UNCHANGED <<out, flushed>> /\ ReadOnly

(* openPostChunk *)
OpenPostChunk ==
    /\ Needs /\ NeedsChunk /\ in # <<>>
    /\ in' = Tail(in)
    /\ IF Head(in).what = "chunk"
       THEN h' = [h EXCEPT !.remain = 1] /\ Goto(pc)
       ELSE h' = [h EXCEPT !.chunkedPost = FALSE, !.inClosed = TRUE] /\ Goto("handler")
    /\ UNCHANGED <<out, flushed>> /\ ReadOnly

(* The stream writes out its buffer before it blocks on a read. *)
ReadBlocks ==
    /\ Needs /\ in = <<>> /\ ~closed /\ flushed < Len(out)
    /\ EmitFlush(<<>>) /\ Goto(pc)
    /\ UNCHANGED <<in, h>> /\ ReadOnly

(* A read that times out, fails at the end of the input, or finds no chunk *)
(* header there.                                                           *)
(* Mutant: a blocked read has no timeout.                                  *)
ReadThrowsAtEnd ==
    /\ Needs /\ in = <<>> /\ closed
    /\ Throw(h)
    /\ UNCHANGED <<clientVars, in, cur, ops, misframed>>

ReadThrows ==
    /\ Needs /\ in = <<>>
    /\ closed => ("throw" \in EofReads \/ NeedsChunk)
    /\ Throw(h)
    /\ UNCHANGED <<clientVars, in, cur, ops, misframed>>

(* A read that returns 0 at the end of the input. The loop of finishChunk  *)
(* goes on: nothing is subtracted from remainPostData.                     *)
ReadZero ==
    /\ \/ /\ pc \in {"reading", "drain"} /\ in = <<>> /\ closed
          /\ Needs /\ ~NeedsChunk /\ "zero" \in EofReads
       \/ Draining /\ h.inClosed
    /\ h' = [h EXCEPT !.inClosed = @ \/ h.switched]
    /\ Goto(IF pc = "drain" THEN "drain" ELSE "handler")
    /\ UNCHANGED <<in, out, flushed>> /\ ReadOnly

(* The end of finishChunk, and what its caller does next.                 *)
ChunkFinished ==
    /\ pc = "drain" /\ ~Draining
    /\ LET g == [h EXCEPT !.buff = FALSE]
           last == IF ~h.chunked THEN <<>>
                   ELSE (IF h.buff THEN <<Rec("data")>> ELSE <<>>) \o <<Rec("end")>>
       IN  CASE ret = "handler" -> /\ h' = [g EXCEPT !.outClosed = TRUE]
                                   /\ EmitFlush(last) /\ Goto("handler")
             [] ret = "finish" /\ ~h.close -> /\ h' = Clear(g)
                                              /\ EmitFlush(last) /\ Goto("loop")
             [] OTHER -> h' = Clear(g) /\ Remove(last)
    /\ UNCHANGED in /\ ReadOnly

-----------------------------------------------------------------------------
ClientNext == ClientBegins \/ ClientContinues \/ ClientSendsRaw \/ ClientCloses

EventLoop == DataReady \/ LoopAgain \/ LoopEnds \/ WriteReady \/ WakeUp

Header == RequestLine \/ BadVersion \/ HeaderComplete \/ GarbageLine
          \/ HeaderIncomplete \/ HeaderEof

Handler == HandlerReads \/ HandlerProbes \/ HandlerSendsHead \/ HandlerWrites
           \/ HandlerErrorPage \/ HandlerClosesOutput \/ HandlerThrows
           \/ ReturnsFinal \/ ReturnsContinue \/ ReturnsWaitForWrite \/ ReturnsSleep

Body == ReadReturns \/ ReadUnit \/ OpenPostChunk \/ ReadBlocks \/ ReadZero
        \/ ChunkFinished

ServerNext == EventLoop \/ Header \/ Handler \/ Body

Next == ClientNext \/ ServerNext \/ Timeout \/ ReadThrows

Spec == Init /\ [][Next]_vars

(* The server's threads run, handlers return (MaxOps), a sleeping request  *)
(* is woken, and a thread that waits for the network does so until the     *)
(* timeout at most. At the end of the input a read returns zero or throws  *)
(* (EofReads), as it likes: it may return zero for ever.                   *)
Fairness == WF_vars(ServerNext \/ ReadThrows) /\ WF_vars(Timeout)
FairSpec == Spec /\ Fairness

-----------------------------------------------------------------------------
(* Properties. *)

Heads == {i \in DOMAIN out : out[i].what = "head"}

(* Pipelined or not, every request gets at most one final response, in the *)
(* order of the requests, with 100 Continue only ahead of it and at most   *)
(* once; a page written between requests is the last thing on the wire,    *)
(* and a response that announces the end of the connection is the last     *)
(* one: no further request is taken.                                       *)
ResponsesInOrder ==
    /\ \A i, j \in Heads : i < j => out[i].req < out[j].req \/ out[j].req = 0
    /\ \A i, j \in DOMAIN out :
         /\ i < j /\ out[i].req = 0 => out[j].req = 0
         /\ i < j /\ out[j].what = "cont" => out[i].req # out[j].req
    /\ \A i \in DOMAIN out : out[i].req = 0 => pc = "removed"
    /\ \A i \in Heads : out[i].close /\ out[i].req # 0 => cur = out[i].req

(* Requests whose responses have no body: HEAD, but for the page about a   *)
(* version that the server does not know, written before the method counts.*)
Bare == {r \in DOMAIN kinds : kinds[r].head /\ kinds[r].minor # 2}

(* Known defect: the end of the connection delimits the response, and it   *)
(* ends the same way when the handler fails, so that what is cut off       *)
(* passes for complete (onData closes without a reset, HttpReqImpl.cpp:542,*)
(* while httprequest.h:280 promises the 500 only for headers not sent).    *)
HeadOf(f, P(_)) == \E i \in Heads : out[i].req = f.req /\ P(out[i].framing)
TruncationHidden(f) == f.sent /\ HeadOf(f, LAMBDA framing : framing = "eof")
FailureShown(f) ==
    \/ h.outClosed
    \/ /\ ~Written(f.req, "end")
       /\ IF f.sent THEN Len(out) = f.at /\ HeadOf(f, LAMBDA framing : framing # "eof")
          ELSE HeadOf(f, LAMBDA framing : TRUE)

(* What is written after a header agrees with the framing it announced: a  *)
(* chunked body ends with one last chunk, other bodies have none, and the  *)
(* next response begins only after the last chunk, and never after a body  *)
(* that the end of the connection delimits. HEAD gets no data, though it   *)
(* does get the last chunk, and the page about a broken header. And the    *)
(* client can tell a handler that failed from one that completed its       *)
(* output: it gets an error page, no last chunk, or less than the length   *)
(* says, since nothing is written behind what the handler wrote.           *)
OutputFramed ==
    /\ \A i \in DOMAIN out : out[i].what \in {"data", "end"} =>
         \E j \in Heads :
            /\ j < i /\ out[j].req = out[i].req
            /\ out[i].what = "end" => out[j].framing = "chunked"
            /\ \A l \in j + 1 .. i - 1 : out[l].what = "data"
    /\ \A i, j \in Heads : i < j =>
         /\ out[i].framing # "eof"
         /\ out[i].framing = "chunked"
              => \E l \in i + 1 .. j - 1 : out[l].what = "end"
    /\ \A i \in DOMAIN out :
         out[i].what = "data" =>
           out[i].req = 0 \/ out[i].req \notin Bare \/ pc = "removed"
    /\ \A f \in threw : TruncationHidden(f) \/ FailureShown(f)

(* The parser starts every request at the beginning of a request, unless   *)
(* the request before had a chunked body that its handler did not read to  *)
(* the end: finishChunk drops the rest of the current chunk only.          *)
NextRequestFramed == \A r \in misframed : r # 0 /\ kinds[r].body = "chunked"

(* While a request is handled, the rest of the body that the server        *)
(* believes in is the rest that the client has still to send or the server *)
(* to read; when 100 Continue was refused, neither believes in any.        *)
Unread(r) ==
    Cardinality({i \in DOMAIN in : in[i].req = r})
      + (IF r = Newest THEN Len(Script(kinds[r])) - pos ELSE 0)

BodyInSync ==
    h.handler /\ ~h.switched =>
      IF kinds[cur].expect = "100" /\ h.sent /\ ~Written(cur, "cont")
      THEN h.remain = 0 /\ ~h.chunkedPost
      ELSE IF kinds[cur].body = "chunked"
           THEN IF h.chunkedPost THEN Unread(cur) % 2 # h.remain
                ELSE Unread(cur) = 0
           ELSE Unread(cur) = h.remain

(* The server never waits for a body that the client holds back until it   *)
(* sees 100 Continue, but where a handler probes a chunked body that it    *)
(* has not begun to read: canRead() opens the first chunk and, unlike      *)
(* read() and peek(), sends no 100 Continue first.                         *)
NoContinueDeadlock ==
    ~ /\ AwaitsContinue /\ ~Seen(Newest, "head") /\ pc # "probing"
      /\ cur = Newest /\ in = <<>>
      /\ \/ pc = "parked" /\ cmd = "read"
         \/ Needs /\ flushed = Len(out)

(* A connection that waits for its next request has delivered everything   *)
(* it owes: no complete response is left in a buffer.                      *)
IdleMeansDelivered ==
    pc = "parked" /\ ~h.method =>
      \A r \in 1..cur : SeenComplete(r) \/ \E i \in Heads : out[i].req = r /\ kinds[r].head

(* All of it together: the types, the beginning of each request, the rest  *)
(* of its body, and the buffers of an idle connection.                     *)
Consistent == TypeOK /\ NextRequestFramed /\ BodyInSync /\ IdleMeansDelivered

(* Known defect: the loop of finishChunk that drops unread input counts    *)
(* down remainPostData, and ignores that a read returns zero. So it does   *)
(* not end once the input counts as closed, which after a protocol switch  *)
(* leaves remainPostData as it is, nor in a body that is shorter than its  *)
(* Content-Length, if blockRead returns zero there (HttpReqImpl.cpp:496).  *)
FinishSpins ==
    Draining /\ (h.inClosed \/ (in = <<>> /\ closed /\ "zero" \in EofReads))

(* Every request is answered, unless its connection is given up, or the    *)
(* rest of what it has not read is dropped for ever.                       *)
Answered ==
    \A r \in 1..NReq :
      (cur = r /\ h.method) ~> (Seen(r, "head") \/ pc = "removed" \/ FinishSpins)
=============================================================================
