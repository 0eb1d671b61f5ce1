----------------------------- MODULE RequestBody -----------------------------
(***************************************************************************)
(* How HttpRequest frames the body of a request (httpclient/               *)
(* httpStream.cpp). A request is a record that its operations turn into    *)
(* another; its bytes are numbered as the caller hands them over, and wire *)
(* holds the pieces sent after the head.                                   *)
(***************************************************************************)
EXTENDS Naturals, Sequences, SequencesExt

CONSTANTS MinSize, MaxSize  \* chunkMinSize, chunkMaxSize

HeadOpen == [framing |-> "open", n |-> 0]

(* setContentLength(unknownLength) and (calculateLength). *)
Unknown(r) == [r EXCEPT !.how = IF r.needBody /\ r.canChunked THEN "chunked" ELSE "buffered"]
Calculate(r) == [r EXCEPT !.how = "buffered"]
Declare(r, n) == [r EXCEPT !.how = "limited", !.left = n]

(* initRequest() reads canChunked before it sets it.                       *)
NewRequest(needBody, http11, garbage) ==
    [Unknown([how |-> "buffered", needBody |-> needBody, canChunked |-> garbage, inBody |-> FALSE,
              left |-> 0, chunk |-> <<>>, closed |-> FALSE, head |-> HeadOpen, wire |-> <<>>,
              taken |-> 0, died |-> FALSE])
     EXCEPT !.canChunked = http11]

(* A header of the user's that frames the body.                            *)
SetFraming(r) == [r EXCEPT !.how = "user"]

(* The head of a buffered request is left open.                            *)
BeginBody(r) ==
    [r EXCEPT !.inBody = TRUE,
              !.head = CASE r.how = "limited" -> [framing |-> "length", n |-> r.left]
                         [] r.how = "buffered" -> HeadOpen
                         [] OTHER -> [framing |-> r.how, n |-> 0]]
Begun(r) == IF r.inBody THEN r ELSE BeginBody(r)

WriteChunk(r, data) == [r EXCEPT !.wire = Append(@, data)]
(* Mutant: what is sent is kept as well.                                   *)
FlushChunkKept(r) == IF r.chunk = <<>> THEN r ELSE WriteChunk(r, r.chunk)

FlushChunk(r) == IF r.chunk = <<>> THEN r ELSE [WriteChunk(r, r.chunk) EXCEPT !.chunk = <<>>]

Bytes(r, n) == [i \in 1..n |-> r.taken + i]
Taken(r, n) == [r EXCEPT !.taken = @ + n]

(* A piece shorter than MinSize is collected, and so is whatever comes     *)
(* after it until there are MaxSize bytes.                                 *)
Collected(r, data) ==
    LET s == [r EXCEPT !.chunk = @ \o data]
    IN  IF Len(s.chunk) >= MaxSize THEN FlushChunk(s) ELSE s

WriteChunked(r, data) ==
    IF Len(data) >= MinSize /\ (r.chunk = <<>> \/ Len(r.chunk) >= MinSize)
    THEN WriteChunk(FlushChunk(r), data)
    ELSE Collected(r, data)

WriteLimited(r, n) ==
    [Taken(WriteChunk(r, Bytes(r, n)), n) EXCEPT !.left = @ - n, !.closed = @ \/ n = r.left]

Write(request, n) ==
    LET r == Begun(request)
        m == IF n > r.left THEN r.left ELSE n
    IN  CASE r.how = "limited" -> IF m = 0 THEN r ELSE WriteLimited(r, m)
          [] r.how = "chunked" -> Taken(WriteChunked(r, Bytes(r, n)), n)
          [] r.how = "buffered" -> Taken([r EXCEPT !.chunk = @ \o Bytes(r, n)], n)
          [] r.how = "user" -> Taken(WriteChunk(r, Bytes(r, n)), n)

Flush(r) == IF r.inBody /\ ~r.closed /\ r.how = "chunked" THEN FlushChunk(r) ELSE r

(* What a declared length lacks is not forgiven: throw with nothing to     *)
(* throw ends the program.                                                 *)
CloseOutput(request) ==
    LET r == [Begun(request) EXCEPT !.closed = TRUE]
    IN  CASE r.how = "limited" -> [r EXCEPT !.died = r.left # 0]
          [] r.how = "chunked" -> WriteChunk(FlushChunk(r), <<>>)
          [] r.how = "user" -> r
          [] r.how = "buffered" ->
                IF r.needBody
                THEN [WriteChunk(r, r.chunk) EXCEPT !.head = [framing |-> "length", n |-> Len(r.chunk)]]
                ELSE [r EXCEPT !.head = [framing |-> "none", n |-> 0]]

Do(r, op) == IF op = <<"flush">> THEN Flush(r) ELSE Write(r, op[2])
Sent(r, ops) == CloseOutput(FoldLeft(Do, r, ops))

-----------------------------------------------------------------------------
(* What a server makes of it.                                              *)
AllOf(r) == [i \in 1..r.taken |-> i]
Received(r) ==
    CASE r.head.framing = "chunked" ->
            FlattenSeq(SubSeq(r.wire, 1, SelectInSeq(r.wire, LAMBDA chunk : chunk = <<>>)))
      [] r.head.framing = "length" -> SubSeq(FlattenSeq(r.wire), 1, r.head.n)
      [] r.head.framing = "user" -> FlattenSeq(r.wire)
      [] r.head.framing = "none" -> <<>>

NothingBehind(r) ==
    CASE r.head.framing = "chunked" -> SelectInSeq(r.wire, LAMBDA chunk : chunk = <<>>) = Len(r.wire)
      [] r.head.framing = "length" -> Len(FlattenSeq(r.wire)) = r.head.n
      [] OTHER -> TRUE

(* Known defects. "Use the constant unknownLength to declare that length   *)
(* is not known yet", and the request is sent in chunks or buffered        *)
(* (httpStream.h:60-67): for methods other than POST and PUT closeOutput() *)
(* drops what was collected (httpStream.cpp:149). And an empty piece is    *)
(* sent as the chunk that ends the body where MinSize is zero (68).        *)
BodyDropped(r) == r.how = "buffered" /\ ~r.needBody
EmptyChunkEnds(r, ops) == r.how = "chunked" /\ MinSize = 0 /\ \E i \in DOMAIN ops : ops[i] = <<"write", 0>>

(* A server receives the bytes that write() has taken, in their order, and *)
(* finds nothing behind them, however they are cut into pieces and         *)
(* flushed: unless they fall short of the length that was declared, which  *)
(* ends the program.                                                       *)
Framed(request, ops) ==
    LET r == Sent(request, ops) IN
    ~r.died /\ ~BodyDropped(r) /\ ~EmptyChunkEnds(r, ops) => Received(r) = AllOf(r) /\ NothingBehind(r)
=============================================================================
