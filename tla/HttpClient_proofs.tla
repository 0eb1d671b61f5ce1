-------------------------- MODULE HttpClient_proofs --------------------------
(***************************************************************************)
(* Theorems about HttpClient, for any sites, requests and faults; those    *)
(* about what a user gets need one who is Careful.                         *)
(***************************************************************************)
EXTENDS HttpClient, SequenceTheorems, TLAPS

(* The types of the objects.                                               *)
Sends == {"send", "sendBody", "sendNoWait", "beginBody"}
Modes == HeaderModes \cup {"continue", "chunk", "limited", "unlimited", "eof"}
Statuses == {"none", "200", "417", "403"}
Heads == [kind : {"head"}, n : Nat, status : Statuses, framing : Framings, ka : BOOLEAN]
Pieces == [kind : {"crlf", "100", "chunk", "last", "data"}]
Tokens == Heads \cup Pieces
Urls == [site : Sites, tls : BOOLEAN]
RequestObjects == [n : Requests, expect : BOOLEAN, closed : BOOLEAN]
ResponseObjects == [mode : Modes, n : Nat, status : Statuses, ka : BOOLEAN]
Stages == {"idle", "head", "full", "refused"}
Connections == [site : Sites, tls : BOOLEAN, in : Seq(Tokens), peer : {"up", "shut", "reset"},
                stage : Stages, n : Nat, expect : BOOLEAN, chunked : BOOLEAN]
Errors == [kind : {"net", "io", "status"},
           at : {"connect", "skip", "wait100", "head100", "skip417", "finish", "load", "receive"}]
Counts == [fresh : Nat, reused : Nat, stream : Nat]
PostOptions == Options \cup {"avoid417", "force417"}
Places == {"idle", "create", "skip", "head", "wait100", "head100", "skip417", "finish",
           "load", "raise", "fail", "closed"}

(* The types of the variables; the counts of attempts are not yet bounded. *)
Typed ==
    /\ opened \in 0..MaxRequests /\ use \in Uses /\ op \in Calls /\ pso \in PostOptions /\ pc \in Places
    /\ url = Nil \/ url \in Urls
    /\ expectHdr \in BOOLEAN /\ currentTls \in BOOLEAN /\ connectionReused \in BOOLEAN
    /\ request = Nil \/ request \in RequestObjects
    /\ response = Nil \/ response \in ResponseObjects
    /\ conn = Nil \/ conn \in Connections
    /\ lastError = Nil \/ lastError \in Errors
    /\ served \in [Requests -> Counts]
    /\ faults \in 0..MaxFaults

(* The places at which a response is read. *)
Awaiting == {"wait100", "head100", "skip417", "finish", "load"}

(* Which calls come to which places, and what may be thrown there. *)
Control ==
    /\ use # "new" => opened > 0 /\ url # Nil
    /\ op \in {"send", "sendBody", "sendNoWait"} => pso = "avoid"
    /\ pc \in {"create", "head"} => op \in Sends
    /\ pc \in {"wait100", "head100", "skip417"} => op = "beginBody"
    /\ pc = "skip" => op \in Sends \cup {"close"}
    /\ pc = "finish" => op \in {"send", "sendBody", "sendNoWait", "finish", "flush"}
    /\ pc = "load" => op \in {"send", "sendBody", "finish", "receive"}
    /\ pc = "fail" => op = "receive"
    /\ pc = "closed" => op = "close"
    /\ pc # "idle" => \/ op \in Sends /\ use = "opened"
                      \/ op = "finish" /\ use \in {"opened", "body"}
                      \/ op = "flush" /\ use = "opened"
                      \/ op = "receive" /\ use = "sent"
                      \/ op = "close" /\ use # "new"
    /\ pc = "raise" =>
         /\ lastError # Nil /\ lastError.kind \in {"net", "io"} /\ lastError.at # "receive"
         /\ InSendRequest => op \in Sends
         /\ lastError.at = "finish" => lastError.kind = "net" /\ op \in {"send", "sendBody", "sendNoWait", "finish", "flush"}
         /\ lastError.at = "load" => op \in {"send", "sendBody", "finish", "receive"}

(* Which of the objects exist at each place. *)
Objects ==
    /\ request # Nil => response # Nil /\ request.n <= opened
    /\ response # Nil => conn # Nil
    /\ pc \in {"skip", "head"} => conn # Nil
    /\ pc = "skip" => response # Nil
    /\ pc \in Awaiting => request # Nil
    /\ pc \in {"wait100", "head100", "skip417"} => request.n = opened
    /\ use = "body" => request # Nil /\ request.n = opened
    /\ use = "done" => request = Nil /\ response # Nil
    /\ pc = "skip" /\ op # "close" => request = Nil
    /\ op \in {"send", "sendBody", "sendNoWait"} /\ pc \in {"create", "head"} => request = Nil
    /\ op \in {"send", "sendBody", "sendNoWait"} /\ pc = "raise" /\ lastError.at \notin {"finish", "load"} => request = Nil

(* How often a request may have reached a server: not at all before one is *)
(* asked for, on a kept connection at most before a fresh one is made, and *)
(* never by the way that closeOutput() is about to take.                   *)
Zero == [fresh |-> 0, reused |-> 0, stream |-> 0]
Attempts ==
    /\ \A n \in Requests : n > opened => served[n] = Zero
    /\ use = "opened" /\ (pc = "idle" \/ op = "beginBody") => served[opened] = Zero
    /\ use = "body" /\ ~request.closed => served[opened] = Zero
    /\ pc # "idle" /\ op \in Sends => served[opened].stream = 0
    /\ pc \in {"create", "skip", "head"} /\ op \in Sends => served[opened].fresh = 0
    /\ pc = "create" /\ request = Nil /\ response # Nil => served[opened].reused = 0
    /\ pc = "skip" /\ op \in Sends => served[opened].reused = 0
    /\ pc = "head" /\ connectionReused => served[opened].reused = 0
    /\ connectionReused /\ opened > 0 => served[opened].fresh = 0
    /\ request # Nil /\ ~request.closed =>
         /\ served[request.n].stream = 0 /\ served[request.n].fresh = 0
         /\ connectionReused => served[request.n].reused = 0
         /\ served[request.n].reused # 0 =>
              conn.peer # "up" \/ pc = "head" \/ (pc = "finish" /\ op \in {"send", "sendBody", "sendNoWait"})

(* An Expect is in the headers of an open request only if it was asked for *)
(* since open(), and what an earlier request has left is not of this one.  *)
Expects ==
    /\ pc \in {"wait100", "head100", "skip417"} => AskedFor
    /\ expectHdr => AskedFor \/ ExpectKept
    /\ request # Nil /\ request.expect /\ request.n = opened => AskedFor \/ ExpectKept
    /\ pc = "idle" /\ use = "opened" => ~expectHdr /\ (request # Nil => request.n # opened)

(* What may stand in a stream. *)
Headless(s) == \A i \in 1..Len(s) : s[i].kind # "head"
Plain(s) == \A i \in 1..Len(s) : s[i].kind \notin {"head", "100"}
Ordered(s) == \A i, j \in 1..Len(s) : i < j /\ s[i].kind = "head" => s[j].kind \notin {"head", "100"}
HeadsOf(s, n) == \A i \in 1..Len(s) : s[i].kind = "head" => s[i].n = n
EndsIn(s) == \E i \in 1..Len(s) : s[i].kind = "crlf"

(* The kept connection is one to currentDomain, a skip aims at its site,   *)
(* and a Careful user's request is awaited on a connection that fits it.   *)
Fit == conn.site = url.site /\ (conn.tls = url.tls \/ StaleTls)
Fits ==
    /\ conn # Nil => conn.site = currentDomain /\ (conn.tls => currentTls) /\ (EndsIn(conn.in) => conn.chunked)
    /\ pc = "skip" /\ op # "close" => url.site = currentDomain /\ url.tls = currentTls
    /\ pc = "head" => Fit
    /\ pc = "head100" /\ response.mode = "status" /\ conn.in = <<>> /\ conn.peer = "up" => conn.chunked
    /\ Careful =>
         /\ use \in {"new", "opened"} /\ pc = "idle" => request = Nil
         /\ request # Nil => request.n = opened
         /\ request # Nil /\ (pc \in Awaiting \/ (pc = "idle" /\ use \in {"body", "sent"}) \/ (pc = "raise" /\ op = "sendNoWait"))
              => Fit

(* What is on a connection belongs to the request under way: at most one   *)
(* final head, then pieces of its body; and no head without a request.     *)
Past == response.mode \notin {"status", "continue"}
Own ==
    /\ conn # Nil =>
         /\ Ordered(conn.in)
         /\ request = Nil \/ pc = "head" => conn.stage \notin {"head", "full"} /\ Plain(conn.in)
         /\ conn.stage \in {"head", "full"} => ~Past /\ Headless(conn.in) /\ conn.n = request.n
         /\ conn.stage = "full" => request.closed
         /\ response # Nil /\ Past => Plain(conn.in)
         /\ request # Nil => HeadsOf(conn.in, request.n)
         /\ request # Nil /\ ~request.closed /\ conn.stage # "refused" /\ conn.peer = "up" => Headless(conn.in)
    /\ request # Nil /\ Past => response.n = request.n
    /\ (pc \in {"wait100", "finish"} \/ (pc = "idle" /\ use = "body")) /\ ~request.closed => ~Past
    /\ pc = "idle" /\ use = "done" => Past /\ response.n = opened

-----------------------------------------------------------------------------
(* Objects, and what steps do to the streams.                              *)
LEMMA NilDistinct ==
    /\ Nil \notin RequestObjects /\ Nil \notin ResponseObjects /\ Nil \notin Connections /\ Nil \notin Urls
    /\ Nil \notin Errors
BY DEF Nil, RequestObjects, ResponseObjects, Connections, Urls, Errors

(* What a read does to the stream: its first piece is gone. *)
LEMMA TailFacts ==
    ASSUME NEW s \in Seq(Tokens), s # <<>>
    PROVE  /\ Tail(s) \in Seq(Tokens) /\ Head(s) \in Tokens /\ Head(s) = s[1]
           /\ Len(Tail(s)) = Len(s) - 1
           /\ \A i \in 1..Len(Tail(s)) : Tail(s)[i] = s[i + 1]
OBVIOUS

LEMMA TailKeeps ==
    ASSUME NEW s \in Seq(Tokens), s # <<>>
    PROVE  /\ Tail(s) \in Seq(Tokens) /\ Head(s) \in Tokens
           /\ Headless(s) => Headless(Tail(s)) /\ Head(s).kind # "head"
           /\ Plain(s) => Plain(Tail(s)) /\ Head(s).kind \notin {"head", "100"}
           /\ Ordered(s) => Ordered(Tail(s)) /\ (Head(s).kind = "head" => Plain(Tail(s)))
           /\ \A n : HeadsOf(s, n) => HeadsOf(Tail(s), n) /\ (Head(s).kind = "head" => Head(s).n = n)
           /\ EndsIn(Tail(s)) => EndsIn(s)
           /\ Head(s).kind = "crlf" => EndsIn(s)
<1>1. Len(s) \in Nat /\ Len(s) > 0
  OBVIOUS
<1>2. \A i \in 1..Len(Tail(s)) : i + 1 \in 1..Len(s) /\ Tail(s)[i] = s[i + 1] /\ i + 1 # 1
  BY <1>1, TailFacts
<1>3. 1 \in 1..Len(s) /\ Head(s) = s[1]
  BY <1>1, TailFacts
<1>4. Headless(s) => Headless(Tail(s)) /\ Head(s).kind # "head"
  BY <1>2, <1>3 DEF Headless
<1>5. Ordered(s) => Ordered(Tail(s)) /\ (Head(s).kind = "head" => Plain(Tail(s)))
  <2> SUFFICES ASSUME Ordered(s) PROVE Ordered(Tail(s)) /\ (Head(s).kind = "head" => Plain(Tail(s)))
    OBVIOUS
  <2>1. Ordered(Tail(s))
    BY <1>1, <1>2 DEF Ordered
  <2>2. ASSUME Head(s).kind = "head", NEW i \in 1..Len(Tail(s)) PROVE Tail(s)[i].kind \notin {"head", "100"}
    <3>1. 1 < i + 1
      OBVIOUS
    <3> QED
      BY <3>1, <2>2, <1>2, <1>3 DEF Ordered
  <2> QED
    BY <2>1, <2>2 DEF Plain
<1>6. \A n : HeadsOf(s, n) => HeadsOf(Tail(s), n) /\ (Head(s).kind = "head" => Head(s).n = n)
  BY <1>2, <1>3 DEF HeadsOf
<1>7. EndsIn(Tail(s)) => EndsIn(s)
  BY <1>2 DEF EndsIn
<1>8. Head(s).kind = "crlf" => EndsIn(s)
  BY <1>3 DEF EndsIn
<1>9. Plain(s) => Plain(Tail(s)) /\ Head(s).kind \notin {"head", "100"}
  BY <1>2, <1>3 DEF Plain
<1> QED
  BY <1>4, <1>5, <1>6, <1>7, <1>8, <1>9, TailFacts

(* What a lost connection leaves of it. *)
LEMMA CutKeeps ==
    ASSUME NEW s \in Seq(Tokens), NEW k \in 0..Len(s)
    PROVE  LET c == SubSeq(s, 1, k) IN
           /\ c \in Seq(Tokens)
           /\ Headless(s) => Headless(c)
           /\ Plain(s) => Plain(c)
           /\ Ordered(s) => Ordered(c)
           /\ \A n : HeadsOf(s, n) => HeadsOf(c, n)
           /\ EndsIn(c) => EndsIn(s)
<1> DEFINE c == SubSeq(s, 1, k)
<1>1. c \in Seq(Tokens) /\ Len(c) = k /\ \A i \in 1..k : c[i] = s[i] /\ i \in 1..Len(s)
  OBVIOUS
<1> HIDE DEF c
<1>2. Headless(s) => Headless(c)
  BY <1>1 DEF Headless
<1>3. (Plain(s) => Plain(c)) /\ (Ordered(s) => Ordered(c))
  BY <1>1 DEF Plain, Ordered
<1>4. \A n : HeadsOf(s, n) => HeadsOf(c, n)
  BY <1>1 DEF HeadsOf
<1>5. EndsIn(c) => EndsIn(s)
  BY <1>1 DEF EndsIn
<1> QED
  BY <1>1, <1>2, <1>3, <1>4, <1>5 DEF c

(* What a server adds: an interim 100, or an answer, which begins with the *)
(* only head in it.                                                        *)
LEMMA ContinueKeeps ==
    ASSUME NEW s \in Seq(Tokens), NEW t, t = Append(s, Piece("100"))
    PROVE  /\ t \in Seq(Tokens)
           /\ Headless(s) => Headless(t)
           /\ Headless(s) => Ordered(t)
           /\ \A n : HeadsOf(s, n) => HeadsOf(t, n)
           /\ EndsIn(t) => EndsIn(s)
<1> DEFINE p == Piece("100")  
<1>1. p \in Tokens /\ p.kind # "head" /\ p.kind # "crlf"
  BY DEF Tokens, Pieces, Piece
<1>2. /\ t \in Seq(Tokens) /\ Len(t) = Len(s) + 1 /\ Len(s) \in Nat
      /\ \A i \in 1..Len(t) : (i \in 1..Len(s) /\ t[i] = s[i]) \/ t[i] = p
  BY <1>1 DEF p
<1> HIDE DEF p
<1>3. \A i \in 1..Len(s) : i \in 1..Len(t)
  BY <1>2
<1>4. Headless(s) => Headless(t)
  BY <1>1, <1>2 DEF Headless
<1>5. Headless(s) => Ordered(t)
  BY <1>1, <1>2 DEF Headless, Ordered
<1>6. \A n : HeadsOf(s, n) => HeadsOf(t, n)
  BY <1>1, <1>2 DEF HeadsOf
<1>7. EndsIn(t) => EndsIn(s)
  BY <1>1, <1>2 DEF EndsIn
<1> QED
  BY <1>2, <1>4, <1>5, <1>6, <1>7 DEF p

(* An element in front of a sequence. *)
LEMMA Consed ==
    ASSUME NEW h \in Tokens, NEW r \in Seq(Tokens)
    PROVE  /\ <<h>> \o r \in Seq(Tokens) /\ Len(<<h>> \o r) = Len(r) + 1 /\ Len(r) \in Nat
           /\ (<<h>> \o r)[1] = h
           /\ \A i \in 1..Len(r) + 1 : i # 1 => i - 1 \in 1..Len(r) /\ (<<h>> \o r)[i] = r[i - 1]
OBVIOUS

(* An answer is a head and pieces of a body. *)
LEMMA AnswerShape ==
    ASSUME conn \in Connections, NEW status \in Statuses, NEW framing \in Framings, NEW ka \in BOOLEAN,
           NEW a, a = Answer(status, framing, ka)
    PROVE  /\ a \in Seq(Tokens) /\ Len(a) >= 1 /\ a[1].n = conn.n
           /\ \A i \in 1..Len(a) :
                /\ a[i].kind = "head" => i = 1
                /\ a[i].kind = "crlf" => framing = "chunked"
                /\ a[i].kind # "100"
<1> DEFINE h == [kind |-> "head", n |-> conn.n, status |-> status, framing |-> framing, ka |-> ka]
<1>1. /\ h \in Tokens /\ h.kind = "head" /\ h.n = conn.n
  BY DEF Tokens, Heads, Connections
<1>2. /\ Piece("chunk") \in Tokens /\ Piece("chunk").kind = "chunk"
      /\ Piece("data") \in Tokens /\ Piece("data").kind = "data"
      /\ Piece("last") \in Tokens /\ Piece("last").kind = "last"
      /\ Piece("crlf") \in Tokens /\ Piece("crlf").kind = "crlf"
  BY DEF Tokens, Pieces, Piece
<1> DEFINE r == CASE framing = "none" -> <<>>
                  [] framing = "chunked" -> <<Piece("chunk"), Piece("data"), Piece("last"), Piece("crlf")>>
                  [] OTHER -> <<Piece("data")>>
<1>3. a = <<h>> \o r
  BY DEF Answer
<1>4. r \in Seq(Tokens) /\ \A i \in 1..Len(r) : r[i].kind \notin {"head", "100"} /\ (r[i].kind = "crlf" => framing = "chunked")
  <2>1. CASE framing = "none"
    BY <2>1
  <2>2. CASE framing = "chunked"
    BY <2>2, <1>2
  <2>3. CASE framing \notin {"none", "chunked"}
    <3>1. r = <<Piece("data")>>
      BY <2>3
    <3> QED
      BY <3>1, <1>2
  <2> QED
    BY <2>1, <2>2, <2>3
<1> HIDE DEF h, r
<1>5. /\ a \in Seq(Tokens) /\ Len(a) = Len(r) + 1 /\ Len(r) \in Nat /\ a[1] = h
      /\ \A i \in 1..Len(a) : i # 1 => i - 1 \in 1..Len(r) /\ a[i] = r[i - 1]
  BY <1>1, <1>3, <1>4, Consed
<1>6. \A i \in 1..Len(a) :
        /\ a[i].kind = "head" => i = 1
        /\ a[i].kind = "crlf" => framing = "chunked"
        /\ a[i].kind # "100"
  BY <1>1, <1>4, <1>5
<1>7. Len(a) >= 1 /\ a[1].n = conn.n
  BY <1>1, <1>5
<1> QED
  BY <1>5, <1>6, <1>7

(* An answer is added to a stream that has no head. *)
LEMMA AnswerKeeps ==
    ASSUME NEW s \in Seq(Tokens), NEW a \in Seq(Tokens), NEW n,
           Headless(s), Len(a) >= 1, a[1].n = n, \A i \in 1..Len(a) : a[i].kind = "head" => i = 1,
           \A i \in 1..Len(a) : a[i].kind # "100"
    PROVE  /\ s \o a \in Seq(Tokens)
           /\ Ordered(s \o a) /\ HeadsOf(s \o a, n)
<1> DEFINE t == s \o a
<1>1. /\ t \in Seq(Tokens) /\ Len(t) = Len(s) + Len(a) /\ Len(s) \in Nat /\ Len(a) \in Nat
      /\ \A i \in 1..Len(s) : t[i] = s[i]
      /\ \A i \in 1..Len(t) : i \notin 1..Len(s) => i - Len(s) \in 1..Len(a) /\ t[i] = a[i - Len(s)]
  OBVIOUS
<1> HIDE DEF t
<1>2. \A i \in 1..Len(t) : t[i].kind = "head" => i = Len(s) + 1 /\ t[i] = a[1]
  <2> TAKE i \in 1..Len(t)
  <2>1. i \in 1..Len(s) => t[i].kind # "head"
    BY <1>1 DEF Headless
  <2>2. i \notin 1..Len(s) /\ t[i].kind = "head" => i - Len(s) = 1 /\ t[i] = a[1]
    BY <1>1
  <2> QED
    BY <2>1, <2>2, <1>1
<1>3. Ordered(t) /\ HeadsOf(t, n)
  <2>1. HeadsOf(t, n)
    BY <1>2 DEF HeadsOf
  <2>2. ASSUME NEW i \in 1..Len(t), NEW j \in 1..Len(t), i < j, t[i].kind = "head"
        PROVE  t[j].kind \notin {"head", "100"}
    <3>1. i = Len(s) + 1 /\ j \notin 1..Len(s)
      BY <2>2, <1>1, <1>2
    <3>2. t[j] = a[j - Len(s)] /\ j - Len(s) \in 1..Len(a)
      BY <3>1, <1>1
    <3> QED
      BY <3>1, <3>2, <2>2, <1>2
  <2> QED
    BY <2>1, <2>2 DEF Ordered
<1> QED
  BY <1>1, <1>3 DEF t

(* What parsing a piece makes of the response. *)
LEMMA ParsedTyped ==
    ASSUME NEW r \in ResponseObjects, NEW t \in Tokens, Parsable(r.mode, t.kind)
    PROVE  /\ Parsed(r, t) \in ResponseObjects
           /\ t.kind # "head" => Parsed(r, t).n = r.n
           /\ t.kind = "head" => Parsed(r, t).n = t.n /\ Parsed(r, t).mode \notin {"status", "continue"}
           /\ t.kind \notin {"head", "100"} /\ r.mode \notin {"status", "continue"} => Parsed(r, t).mode \notin {"status", "continue"}
           /\ t.kind # "head" /\ r.mode \in {"status", "continue"} => Parsed(r, t).mode \in {"status", "continue"}
           /\ Parsed(r, t).mode = "status" => t.kind = "crlf"
<1>1. t \in Heads \/ t \in Pieces
  BY DEF Tokens
<1>2. t \in Heads => t.kind = "head" /\ t.framing \in Framings /\ t.n \in Nat /\ t.status \in Statuses /\ t.ka \in BOOLEAN
  BY DEF Heads
<1>3. t \in Pieces => t.kind \in {"crlf", "100", "chunk", "last", "data"}
  BY DEF Pieces
<1>4. CASE t.kind = "head"
  <2>1. Parsed(r, t) = [mode |-> BodyMode(t.framing), n |-> t.n, status |-> t.status, ka |-> t.ka]
    BY <1>4 DEF Parsed
  <2>2. BodyMode(t.framing) \in {"limited", "chunkheader", "unlimited", "eof"}
    BY <1>1, <1>2, <1>3, <1>4 DEF BodyMode, Framings
  <2> QED
    BY <2>1, <2>2, <1>1, <1>2, <1>3, <1>4 DEF ResponseObjects, Modes, HeaderModes
<1>5. CASE t.kind = "crlf"
  <2>1. Parsed(r, t) = r
    BY <1>5 DEF Parsed
  <2> QED
    BY <2>1, <1>5
<1>6. CASE t.kind = "100"
  <2>1. Parsed(r, t) = [r EXCEPT !.mode = "continue", !.ka = TRUE]
    BY <1>6 DEF Parsed
  <2> QED
    BY <2>1, <1>6 DEF ResponseObjects, Modes, HeaderModes, Parsable
<1>7. CASE t.kind = "chunk"
  <2>1. Parsed(r, t) = [r EXCEPT !.mode = "chunk"]
    BY <1>7 DEF Parsed
  <2> QED
    BY <2>1, <1>7 DEF ResponseObjects, Modes, HeaderModes, Parsable
<1>8. CASE t.kind = "last"
  <2>1. Parsed(r, t) = [r EXCEPT !.mode = "eof"]
    BY <1>8 DEF Parsed
  <2> QED
    BY <2>1, <1>8 DEF ResponseObjects, Modes, HeaderModes, Parsable
<1>9. CASE t.kind = "data"
  <2>1. PICK m : m = CASE r.mode = "chunk" -> "chunkheader" [] r.mode = "limited" -> "eof" [] OTHER -> r.mode
    OBVIOUS
  <2>2. Parsed(r, t) = [r EXCEPT !.mode = m]
    BY <2>1, <1>9 DEF Parsed
  <2>3. r.mode \in Modes
    BY DEF ResponseObjects
  <2>4. m \in Modes /\ (r.mode \in {"status", "continue"} <=> m \in {"status", "continue"}) /\ (m = "status" => r.mode = "status")
    BY <2>1, <2>3 DEF Modes, HeaderModes
  <2>5. r.mode # "status"
    BY <1>9 DEF Parsable
  <2> QED
    BY <2>2, <2>4, <2>5, <1>9 DEF ResponseObjects
<1> QED
  BY <1>1, <1>2, <1>3, <1>4, <1>5, <1>6, <1>7, <1>8, <1>9

(* What a read of the client changes. *)
LEMMA ReadEffect ==
    ASSUME conn \in Connections, response \in ResponseObjects, Read
    PROVE  /\ response' \in ResponseObjects /\ conn' \in Connections
           /\ conn'.site = conn.site /\ conn'.tls = conn.tls /\ conn'.peer = conn.peer /\ conn'.stage = conn.stage
           /\ conn'.n = conn.n /\ conn'.expect = conn.expect /\ conn'.chunked = conn.chunked
           /\ Headless(conn.in) => Headless(conn'.in)
           /\ Plain(conn.in) => Plain(conn'.in)
           /\ Ordered(conn.in) => Ordered(conn'.in)
           /\ \A n : HeadsOf(conn.in, n) => HeadsOf(conn'.in, n)
           /\ EndsIn(conn'.in) => EndsIn(conn.in)
           /\ Past /\ Plain(conn.in) => Past' /\ response'.n = response.n
           /\ ~Past /\ Past' => ~Headless(conn.in)
           /\ ~Past /\ Past' /\ Ordered(conn.in) => Plain(conn'.in)
           /\ ~Past /\ Past' => \A n : HeadsOf(conn.in, n) => response'.n = n
           /\ response'.mode = "status" => EndsIn(conn.in)
<1>1. CASE /\ conn.in # <<>>
           /\ Parsable(response.mode, Head(conn.in).kind)
           /\ response' = Parsed(response, Head(conn.in))
           /\ conn' = [conn EXCEPT !.in = Tail(@)]
  <2> DEFINE s == conn.in  t == Head(s)
  <2>1. s \in Seq(Tokens) /\ s # <<>>
    BY <1>1 DEF Connections
  <2>2. /\ conn' \in Connections /\ conn'.in = Tail(s)
        /\ conn'.site = conn.site /\ conn'.tls = conn.tls /\ conn'.peer = conn.peer /\ conn'.stage = conn.stage
        /\ conn'.n = conn.n /\ conn'.expect = conn.expect /\ conn'.chunked = conn.chunked
    <3>1. Tail(s) \in Seq(Tokens)
      BY <2>1, TailKeeps
    <3>2. conn' = [conn EXCEPT !.in = Tail(s)]
      BY <1>1
    <3> HIDE DEF s
    <3>3. PICK q : q = Tail(s)
      OBVIOUS
    <3> QED
      BY <3>1, <3>2, <3>3 DEF Connections
  <2>3. response' = Parsed(response, t) /\ Parsable(response.mode, t.kind)
    BY <1>1
  <2> HIDE DEF s
  <2>4. t \in Tokens
    BY <2>1, TailKeeps
  <2> HIDE DEF t
  <2>5. /\ response' \in ResponseObjects
        /\ t.kind # "head" => response'.n = response.n
        /\ t.kind = "head" => response'.n = t.n /\ Past'
        /\ t.kind \notin {"head", "100"} /\ Past => Past'
        /\ t.kind # "head" /\ ~Past => ~Past'
        /\ response'.mode = "status" => t.kind = "crlf"
    BY <2>3, <2>4, ParsedTyped DEF Past
  <2>6. /\ Headless(s) => Headless(Tail(s)) /\ t.kind # "head"
        /\ Plain(s) => Plain(Tail(s)) /\ t.kind \notin {"head", "100"}
        /\ Ordered(s) => Ordered(Tail(s)) /\ (t.kind = "head" => Plain(Tail(s)))
        /\ \A n : HeadsOf(s, n) => HeadsOf(Tail(s), n) /\ (t.kind = "head" => t.n = n)
        /\ EndsIn(Tail(s)) => EndsIn(s)
        /\ t.kind = "crlf" => EndsIn(s)
    BY <2>1, TailKeeps DEF t
  <2>7. \A n : HeadsOf(s, n) => HeadsOf(Tail(s), n) /\ (~Past /\ Past' => response'.n = n)
    BY <2>5, <2>6
  <2>8. s = conn.in
    BY DEF s
  <2> QED
    BY <2>2, <2>5, <2>6, <2>7, <2>8
<1>2. CASE /\ response.mode = "unlimited"
           /\ response' = [response EXCEPT !.mode = "eof"]
           /\ UNCHANGED conn
  <2>1. response' \in ResponseObjects /\ response'.n = response.n /\ Past /\ Past' /\ response'.mode # "status"
    BY <1>2 DEF ResponseObjects, Past, Modes
  <2> QED
    BY <2>1, <1>2
<1> QED
  BY <1>1, <1>2 DEF Read

(* The end of chunks in what came before. *)
LEMMA ConcatEnds ==
    ASSUME NEW s \in Seq(Tokens), NEW a \in Seq(Tokens), \A i \in 1..Len(a) : a[i].kind # "crlf", EndsIn(s \o a)
    PROVE  EndsIn(s)
<1>1. /\ Len(s \o a) = Len(s) + Len(a) /\ Len(s) \in Nat /\ Len(a) \in Nat
      /\ \A i \in 1..Len(s) : (s \o a)[i] = s[i]
      /\ \A i \in 1..Len(s \o a) : i \notin 1..Len(s) => i - Len(s) \in 1..Len(a) /\ (s \o a)[i] = a[i - Len(s)]
  OBVIOUS
<1> QED
  BY <1>1 DEF EndsIn

(* What a step of a server or of the network changes. *)
LEMMA WorldEffect ==
    ASSUME conn = Nil \/ conn \in Connections, World
    PROVE  /\ conn \in Connections /\ conn' \in Connections /\ conn.peer = "up"
           /\ conn'.site = conn.site /\ conn'.tls = conn.tls /\ conn'.n = conn.n
           /\ UNCHANGED <<opened, url, use, pc, op, pso, expectHdr, request, response, currentDomain, currentTls,
                          connectionReused, served, lastError>>
           /\ EndsIn(conn'.in) => EndsIn(conn.in) \/ conn'.chunked
           /\ conn.chunked => conn'.chunked
           /\ conn'.in = <<>> => conn'.peer # "up"
           /\ \/ /\ conn'.stage = conn.stage /\ conn'.peer # "up"
                 /\ Headless(conn.in) => Headless(conn'.in)
                 /\ Plain(conn.in) => Plain(conn'.in)
                 /\ Ordered(conn.in) => Ordered(conn'.in)
                 /\ \A n : HeadsOf(conn.in, n) => HeadsOf(conn'.in, n)
              \/ /\ conn'.stage = conn.stage /\ conn.stage \in {"head", "full"}
                 /\ Headless(conn.in) => Headless(conn'.in) /\ Ordered(conn'.in)
                 /\ \A n : HeadsOf(conn.in, n) => HeadsOf(conn'.in, n)
              \/ /\ \/ conn.stage = "head" /\ conn'.stage = "refused"
                    \/ conn.stage = "full" /\ conn'.stage = "idle"
                 /\ Headless(conn.in) => Ordered(conn'.in) /\ HeadsOf(conn'.in, conn.n)
           /\ faults' = faults \/ (faults < MaxFaults /\ faults' = faults + 1)
<1>1. conn \in Connections /\ conn.peer = "up"
  BY DEF World, ServerContinues, ServerRefuses, ServerAnswers, Server, ConnectionLost
<1>2. /\ conn.in \in Seq(Tokens) /\ conn.stage \in Stages /\ conn.expect \in BOOLEAN /\ conn.chunked \in BOOLEAN
      /\ conn.peer \in {"up", "shut", "reset"}
  BY <1>1 DEF Connections
<1>3. UNCHANGED <<opened, url, use, pc, op, pso, expectHdr, request, response, currentDomain, currentTls,
                  connectionReused, served, lastError>>
  BY DEF World, user, call, objects, site
<1>4. CASE ServerContinues /\ UNCHANGED faults
  <2> DEFINE t == Append(conn.in, Piece("100"))
  <2>1. /\ t \in Seq(Tokens) /\ t # <<>>
        /\ Headless(conn.in) => Headless(t) /\ Ordered(t)
        /\ \A n : HeadsOf(conn.in, n) => HeadsOf(t, n)
        /\ EndsIn(t) => EndsIn(conn.in)
    <3>1. t = Append(conn.in, Piece("100"))
      OBVIOUS
    <3>2. t # <<>>
      BY <1>2
    <3> HIDE DEF t
    <3> QED
      BY <1>2, <3>1, <3>2, ContinueKeeps
  <2>2. conn' = [conn EXCEPT !.in = t, !.expect = FALSE] /\ conn.stage \in {"head", "full"}
    BY <1>4 DEF ServerContinues, Server
  <2> HIDE DEF t
  <2>3. conn' = [conn EXCEPT !.in = t, !.peer = conn.peer, !.stage = conn.stage, !.expect = FALSE, !.chunked = conn.chunked]
    BY <2>2, <1>1 DEF Connections
  <2>4. /\ conn' \in Connections /\ conn'.site = conn.site /\ conn'.tls = conn.tls /\ conn'.n = conn.n
        /\ conn'.in = t /\ conn'.peer = conn.peer /\ conn'.stage = conn.stage /\ conn'.chunked = conn.chunked
    BY <2>3, <2>1, <1>1, <1>2 DEF Connections
  <2> QED
    BY <2>1, <2>2, <2>4, <1>1, <1>3, <1>4
<1>5. ASSUME NEW status \in {"417", "403"}, ServerRefuses(status), UNCHANGED faults
      PROVE  /\ conn' \in Connections /\ conn'.site = conn.site /\ conn'.tls = conn.tls /\ conn'.n = conn.n
             /\ conn'.chunked = conn.chunked /\ conn'.in # <<>> /\ (EndsIn(conn'.in) => EndsIn(conn.in))
             /\ \/ conn.stage = "head" /\ conn'.stage = "refused"
                \/ conn.stage = "full" /\ conn'.stage = "idle"
             /\ Headless(conn.in) => Ordered(conn'.in) /\ HeadsOf(conn'.in, conn.n)
  <2> DEFINE a == Answer(status, "none", TRUE)  t == conn.in \o a
             stage == IF conn.stage = "head" THEN "refused" ELSE "idle"
  <2>1. conn' = [conn EXCEPT !.in = t, !.expect = FALSE, !.stage = stage] /\ conn.stage \in {"head", "full"}
    BY <1>5 DEF ServerRefuses, Server
  <2>2. a \in Seq(Tokens) /\ Len(a) >= 1 /\ a[1].n = conn.n
        /\ \A i \in 1..Len(a) : (a[i].kind = "head" => i = 1) /\ a[i].kind # "crlf" /\ a[i].kind # "100"
    <3>1. status \in Statuses /\ "none" \in Framings /\ "none" # "chunked"
      BY DEF Statuses, Framings
    <3>2. PICK ka \in BOOLEAN : ka = TRUE
      OBVIOUS
    <3>3. a = Answer(status, "none", ka)
      BY <3>2
    <3> HIDE DEF a, t
    <3>4. /\ a \in Seq(Tokens) /\ Len(a) >= 1 /\ a[1].n = conn.n
          /\ \A i \in 1..Len(a) :
               /\ a[i].kind = "head" => i = 1
               /\ a[i].kind = "crlf" => "none" = "chunked"
               /\ a[i].kind # "100"
      BY <3>1, <3>3, <1>1, AnswerShape
    <3> QED
      BY <3>1, <3>4
  <2> HIDE DEF a
  <2>3. /\ t \in Seq(Tokens) /\ t # <<>>
        /\ Headless(conn.in) => Ordered(t) /\ HeadsOf(t, conn.n)
    <3>1. t \in Seq(Tokens) /\ t # <<>>
      BY <1>2, <2>2
    <3> QED
      BY <3>1, <1>2, <2>2, AnswerKeeps
  <2>4. EndsIn(t) => EndsIn(conn.in)
    BY <1>2, <2>2, ConcatEnds
  <2> HIDE DEF t
  <2>5. stage \in Stages /\ ((conn.stage = "head" /\ stage = "refused") \/ (conn.stage = "full" /\ stage = "idle"))
    BY <2>1 DEF Stages
  <2> HIDE DEF stage
  <2>6. conn' = [conn EXCEPT !.in = t, !.peer = conn.peer, !.stage = stage, !.expect = FALSE, !.chunked = conn.chunked]
    BY <2>1, <1>1 DEF Connections
  <2>7. /\ conn' \in Connections /\ conn'.site = conn.site /\ conn'.tls = conn.tls /\ conn'.n = conn.n
        /\ conn'.in = t /\ conn'.stage = stage /\ conn'.chunked = conn.chunked
    BY <2>6, <2>3, <2>5, <1>1, <1>2 DEF Connections
  <2> QED
    BY <2>3, <2>4, <2>5, <2>7
<1>6. ASSUME NEW framing \in Framings, NEW ka \in BOOLEAN, ServerAnswers(framing, ka), UNCHANGED faults
      PROVE  /\ conn' \in Connections /\ conn'.site = conn.site /\ conn'.tls = conn.tls /\ conn'.n = conn.n
             /\ conn'.in # <<>> /\ (EndsIn(conn'.in) => EndsIn(conn.in) \/ conn'.chunked)
             /\ conn.chunked => conn'.chunked
             /\ conn.stage = "full" /\ conn'.stage = "idle"
             /\ Headless(conn.in) => Ordered(conn'.in) /\ HeadsOf(conn'.in, conn.n)
  <2> DEFINE a == Answer("200", framing, ka)  t == conn.in \o a
             peer == IF framing = "close" \/ ~ka THEN "shut" ELSE conn.peer
             chunked == conn.chunked \/ framing = "chunked"
  <2>1. conn' = [conn EXCEPT !.in = t, !.stage = "idle", !.expect = FALSE, !.chunked = chunked, !.peer = peer]
        /\ conn.stage = "full"
    BY <1>6, <1>1 DEF ServerAnswers, Server, Connections
  <2>2. a \in Seq(Tokens) /\ Len(a) >= 1 /\ a[1].n = conn.n
        /\ \A i \in 1..Len(a) : (a[i].kind = "head" => i = 1) /\ a[i].kind # "100"
                               /\ (a[i].kind = "crlf" => framing = "chunked")
    <3>1. "200" \in Statuses
      BY DEF Statuses
    <3>2. a = Answer("200", framing, ka)
      OBVIOUS
    <3> HIDE DEF a, t
    <3> QED
      BY <3>1, <3>2, <1>1, AnswerShape
  <2> HIDE DEF a
  <2>3. /\ t \in Seq(Tokens) /\ t # <<>>
        /\ Headless(conn.in) => Ordered(t) /\ HeadsOf(t, conn.n)
    <3>1. t \in Seq(Tokens) /\ t # <<>>
      BY <1>2, <2>2
    <3> QED
      BY <3>1, <1>2, <2>2, AnswerKeeps
  <2>4. EndsIn(t) /\ framing # "chunked" => EndsIn(conn.in)
    BY <1>2, <2>2, ConcatEnds
  <2> HIDE DEF t
  <2>5. peer \in {"up", "shut", "reset"} /\ chunked \in BOOLEAN /\ "idle" \in Stages
    BY <1>2 DEF Stages
  <2>6. (conn.chunked => chunked) /\ (framing = "chunked" => chunked)
    OBVIOUS
  <2> HIDE DEF peer, chunked
  <2>7. conn' = [conn EXCEPT !.in = t, !.peer = peer, !.stage = "idle", !.expect = FALSE, !.chunked = chunked]
    BY <2>1, <1>1 DEF Connections
  <2>8. /\ conn' \in Connections /\ conn'.site = conn.site /\ conn'.tls = conn.tls /\ conn'.n = conn.n
        /\ conn'.in = t /\ conn'.stage = "idle" /\ conn'.chunked = chunked
    BY <2>7, <2>3, <2>5, <1>1, <1>2 DEF Connections
  <2> QED
    BY <2>1, <2>3, <2>4, <2>6, <2>8
<1>7. ASSUME NEW how \in {"shut", "reset"}, ConnectionLost(how)
      PROVE  /\ conn' \in Connections /\ conn'.site = conn.site /\ conn'.tls = conn.tls /\ conn'.n = conn.n
             /\ conn'.chunked = conn.chunked /\ (EndsIn(conn'.in) => EndsIn(conn.in))
             /\ conn'.stage = conn.stage /\ conn'.peer # "up"
             /\ Headless(conn.in) => Headless(conn'.in)
             /\ Plain(conn.in) => Plain(conn'.in)
             /\ Ordered(conn.in) => Ordered(conn'.in)
             /\ \A n : HeadsOf(conn.in, n) => HeadsOf(conn'.in, n)
             /\ faults < MaxFaults /\ faults' = faults + 1
  <2>1. PICK i \in 0..Len(conn.in) : conn' = [conn EXCEPT !.in = SubSeq(@, 1, i), !.peer = how]
    BY <1>7 DEF ConnectionLost
  <2> DEFINE t == SubSeq(conn.in, 1, i)
  <2>2. /\ t \in Seq(Tokens)
        /\ Headless(conn.in) => Headless(t)
        /\ Plain(conn.in) => Plain(t)
        /\ Ordered(conn.in) => Ordered(t)
        /\ \A n : HeadsOf(conn.in, n) => HeadsOf(t, n)
        /\ EndsIn(t) => EndsIn(conn.in)
    BY <1>2, CutKeeps
  <2>3. conn' = [conn EXCEPT !.in = t, !.peer = how]
    BY <2>1
  <2> HIDE DEF t
  <2>4. conn' = [conn EXCEPT !.in = t, !.peer = how, !.stage = conn.stage, !.expect = conn.expect, !.chunked = conn.chunked]
    BY <2>3, <1>1 DEF Connections
  <2>5. /\ conn' \in Connections /\ conn'.site = conn.site /\ conn'.tls = conn.tls /\ conn'.n = conn.n
        /\ conn'.in = t /\ conn'.peer = how /\ conn'.stage = conn.stage /\ conn'.chunked = conn.chunked
    BY <2>4, <2>2, <1>1, <1>2 DEF Connections
  <2> QED
    BY <2>2, <2>5, <1>7 DEF ConnectionLost
<1> QED
  <2>1. \/ ServerContinues /\ UNCHANGED faults
        \/ \E status \in {"417", "403"} : ServerRefuses(status) /\ UNCHANGED faults
        \/ \E framing \in Framings, ka \in BOOLEAN : ServerAnswers(framing, ka) /\ UNCHANGED faults
        \/ \E how \in {"shut", "reset"} : ConnectionLost(how)
    BY DEF World
  <2>2. CASE \E status \in {"417", "403"} : ServerRefuses(status) /\ UNCHANGED faults
    BY <2>2, <1>1, <1>3, <1>5
  <2>3. CASE \E framing \in Framings, ka \in BOOLEAN : ServerAnswers(framing, ka) /\ UNCHANGED faults
    BY <2>3, <1>1, <1>3, <1>6
  <2>4. CASE \E how \in {"shut", "reset"} : ConnectionLost(how)
    BY <2>4, <1>1, <1>3, <1>7
  <2> QED
    BY <2>1, <2>2, <2>3, <2>4, <1>4

-----------------------------------------------------------------------------
(* One more attempt by one of the ways. *)
LEMMA Raised ==
    ASSUME NEW r \in Counts, NEW way \in {"fresh", "reused", "stream"}, NEW q, q = [r EXCEPT ![way] = @ + 1]
    PROVE  /\ q \in Counts
           /\ q.fresh = (IF way = "fresh" THEN r.fresh + 1 ELSE r.fresh)
           /\ q.reused = (IF way = "reused" THEN r.reused + 1 ELSE r.reused)
           /\ q.stream = (IF way = "stream" THEN r.stream + 1 ELSE r.stream)
<1>0. r.fresh \in Nat /\ r.reused \in Nat /\ r.stream \in Nat
  BY DEF Counts
<1>1. CASE way = "fresh"
  <2>1. q = [r EXCEPT !.fresh = r.fresh + 1]
    BY <1>1
  <2> QED
    BY <1>0, <1>1, <2>1 DEF Counts
<1>2. CASE way = "reused"
  <2>1. q = [r EXCEPT !.reused = r.reused + 1]
    BY <1>2
  <2> QED
    BY <1>0, <1>2, <2>1 DEF Counts
<1>3. CASE way = "stream"
  <2>1. q = [r EXCEPT !.stream = r.stream + 1]
    BY <1>3
  <2> QED
    BY <1>0, <1>3, <2>1 DEF Counts
<1> QED
  BY <1>1, <1>2, <1>3

(* What closeOutput() does to the connection and to the count of attempts. *)
Way == IF op \in {"finish", "flush"} THEN "stream" ELSE IF connectionReused THEN "reused" ELSE "fresh"
LEMMA CloseEffect ==
    ASSUME request \in RequestObjects, conn \in Connections, served \in [Requests -> Counts], CloseOutput
    PROVE  /\ request' \in RequestObjects /\ request'.n = request.n /\ request'.closed
           /\ conn' \in Connections /\ served' \in [Requests -> Counts]
           /\ conn'.site = conn.site /\ conn'.tls = conn.tls /\ conn'.in = conn.in /\ conn'.peer = conn.peer
           /\ conn'.chunked = conn.chunked
           /\ \/ /\ conn.peer = "up" /\ ~request.closed /\ conn.stage # "refused"
                 /\ conn'.stage = "full" /\ conn'.n = request.n
                 /\ \A n \in Requests : n # request.n => served'[n] = served[n]
                 /\ LET old == served[request.n]
                        new == served'[request.n]
                    IN  /\ new.fresh = (IF Way = "fresh" THEN old.fresh + 1 ELSE old.fresh)
                        /\ new.reused = (IF Way = "reused" THEN old.reused + 1 ELSE old.reused)
                        /\ new.stream = (IF Way = "stream" THEN old.stream + 1 ELSE old.stream)
              \/ /\ ~(conn.peer = "up" /\ ~request.closed /\ conn.stage # "refused")
                 /\ (conn' = conn /\ request.closed) \/ conn'.stage = "idle"
                 /\ served' = served
<1>1. request' \in RequestObjects /\ request'.n = request.n /\ request'.closed
  BY DEF CloseOutput, RequestObjects
<1>2. /\ request.n \in Nat /\ request.expect \in BOOLEAN /\ conn.n \in Nat /\ conn.expect \in BOOLEAN
      /\ request.n \in Requests /\ "full" \in Stages /\ "idle" \in Stages
  BY DEF RequestObjects, Requests, Connections, Stages
<1>3. CASE conn.peer = "up" /\ ~request.closed /\ conn.stage # "refused"
  <2>1. PICK e \in BOOLEAN : e = IF conn.stage = "head" THEN conn.expect ELSE request.expect
    BY <1>2
  <2>2. /\ conn' = [conn EXCEPT !.stage = "full", !.n = request.n, !.expect = e]
        /\ served' = [served EXCEPT ![request.n][Way] = @ + 1]
    BY <1>3, <2>1 DEF CloseOutput, Way
  <2>3. /\ conn' \in Connections /\ conn'.stage = "full" /\ conn'.n = request.n
        /\ conn'.site = conn.site /\ conn'.tls = conn.tls /\ conn'.in = conn.in /\ conn'.peer = conn.peer
        /\ conn'.chunked = conn.chunked
    BY <1>2, <2>1, <2>2 DEF Connections
  <2> DEFINE old == served[request.n]
             new == [old EXCEPT ![Way] = @ + 1]
  <2>4. /\ new \in Counts
        /\ new.fresh = (IF Way = "fresh" THEN old.fresh + 1 ELSE old.fresh)
        /\ new.reused = (IF Way = "reused" THEN old.reused + 1 ELSE old.reused)
        /\ new.stream = (IF Way = "stream" THEN old.stream + 1 ELSE old.stream)
    <3>1. old \in Counts /\ Way \in {"fresh", "reused", "stream"}
      BY <1>2 DEF Way
    <3>2. PICK q : q = new
      OBVIOUS
    <3>3. PICK way : way = Way
      OBVIOUS
    <3>4. PICK r : r = old
      OBVIOUS
    <3>5. q = [r EXCEPT ![way] = @ + 1]
      BY <3>2, <3>3, <3>4
    <3>6. r \in Counts /\ way \in {"fresh", "reused", "stream"}
      BY <3>1, <3>3, <3>4
    <3> HIDE DEF old, new
    <3>7. /\ q \in Counts
          /\ q.fresh = (IF way = "fresh" THEN r.fresh + 1 ELSE r.fresh)
          /\ q.reused = (IF way = "reused" THEN r.reused + 1 ELSE r.reused)
          /\ q.stream = (IF way = "stream" THEN r.stream + 1 ELSE r.stream)
      BY <3>5, <3>6, Raised
    <3> QED
      BY <3>2, <3>3, <3>4, <3>7
  <2>5. served' = [served EXCEPT ![request.n] = new]
    BY <2>2
  <2> HIDE DEF new
  <2>6. /\ served' \in [Requests -> Counts] /\ served'[request.n] = new
        /\ \A n \in Requests : n # request.n => served'[n] = served[n]
    BY <1>2, <2>4, <2>5
  <2> QED
    BY <1>1, <1>3, <2>3, <2>4, <2>6
<1>4. CASE ~(conn.peer = "up" /\ ~request.closed /\ conn.stage # "refused")
  <2>1. served' = served
    BY <1>4 DEF CloseOutput
  <2>2. CASE request.closed
    BY <1>1, <1>4, <2>1, <2>2 DEF CloseOutput
  <2>3. CASE ~request.closed
    <3>1. conn' = [conn EXCEPT !.stage = "idle"]
      BY <1>4, <2>3 DEF CloseOutput
    <3>2. /\ conn' \in Connections /\ conn'.stage = "idle"
          /\ conn'.site = conn.site /\ conn'.tls = conn.tls /\ conn'.in = conn.in /\ conn'.peer = conn.peer
          /\ conn'.chunked = conn.chunked
      BY <1>2, <3>1 DEF Connections
    <3> QED
      BY <1>1, <1>4, <2>1, <3>2
  <2> QED
    BY <2>2, <2>3
<1> QED
  BY <1>3, <1>4

-----------------------------------------------------------------------------
(* Each part of the invariant is kept by every step: the types,            *)
LEMMA TypedStep ==
    ASSUME Typed, Control, Objects, [Next]_vars
    PROVE  Typed'
<1> USE HttpClientAssumption, NilDistinct DEF Typed, PostOptions, user, call, objects, site, history
<1>1. ASSUME NEW s \in Sites, NEW tls \in BOOLEAN, Open([site |-> s, tls |-> tls])
      PROVE  Typed'
  <2>1. opened' \in 0..MaxRequests
    BY <1>1 DEF Open
  <2>2. url' \in Urls /\ use' \in Uses /\ expectHdr' \in BOOLEAN
    BY <1>1 DEF Open, Urls, Uses
  <2> QED
    BY <1>1, <2>1, <2>2 DEF Open
<1>2. ASSUME NEW o \in {"send", "sendBody", "sendNoWait"}, Send(o)
      PROVE  Typed'
  <2>1. op' \in Calls /\ pso' \in PostOptions /\ pc' \in Places
    BY <1>2 DEF Send, Calls, Options, Places
  <2> QED
    BY <1>2, <2>1 DEF Send
<1>3. ASSUME NEW option \in Options, BeginBody(option)
      PROVE  Typed'
  BY <1>3 DEF BeginBody, Calls, Places, Options
<1>4. CASE Finish
  BY <1>4 DEF Finish, Calls, Places
<1>5. CASE Receive
  BY <1>5 DEF Receive, Calls, Places, NewResponse, ResponseObjects, Modes, HeaderModes, Statuses
<1>6. CASE ReadBody
  BY <1>6, ReadEffect DEF ReadBody, Objects, Calls, Uses
<1>7. CASE Close
  BY <1>7 DEF Close, Calls, Places
<1>8. CASE CreateRequest
  <2>1. pc' \in Places /\ connectionReused' \in BOOLEAN
    BY <1>8 DEF CreateRequest, Places
  <2>2. CASE canReuseConnection
    BY <1>8, <2>1, <2>2 DEF CreateRequest
  <2>3. CASE ~canReuseConnection
    <3>1. url \in Urls
      BY <1>8 DEF CreateRequest, Control, Sends
    <3>2. conn' \in Connections
      <4>1. NewConnection \in Connections
        <5>1. url.site \in Sites /\ url.tls \in BOOLEAN
          BY <3>1 DEF Urls
        <5>2. <<>> \in Seq(Tokens) /\ "idle" \in Stages /\ 0 \in Nat
          BY DEF Stages
        <5> QED
          BY ONLY <5>1, <5>2 DEF NewConnection, Connections
      <4> QED
        BY <1>8, <2>3, <4>1 DEF CreateRequest, Connect
    <3>3. currentTls' \in BOOLEAN
      BY <1>8, <2>3, <3>1 DEF CreateRequest, Connect, Urls
    <3> QED
      BY <1>8, <2>1, <2>3, <3>2, <3>3 DEF CreateRequest
  <2> QED
    BY <2>2, <2>3
<1>9. CASE ConnectFails
  BY <1>9 DEF ConnectFails, Places, Errors
<1>10. CASE Skip
  <2>1. response # Nil /\ conn # Nil
    BY <1>10 DEF Skip, Objects, Awaiting
  <2>2. response' \in ResponseObjects /\ conn' \in Connections
    BY <1>10, <2>1, ReadEffect DEF Skip
  <2> QED
    BY <1>10, <2>2 DEF Skip
<1>11. CASE Skipped
  BY <1>11 DEF Skipped, Places
<1>12. CASE SkipFails
  BY <1>12 DEF SkipFails, Places, Errors
<1>13. CASE WriteHead
  <2>1. opened \in Requests /\ conn \in Connections
    <3>1. opened > 0 /\ conn # Nil
      BY <1>13 DEF WriteHead, Control, Objects, Sends
    <3> QED
      BY <3>1 DEF Requests
  <2>2. expectHdr' \in BOOLEAN /\ pc' \in Places /\ use' \in Uses
    <3>1. use100 \in BOOLEAN
      BY DEF use100
    <3>2. expectHdr' \in BOOLEAN
      BY <1>13, <3>1 DEF WriteHead
    <3>3. pc' \in Places /\ use' \in Uses
      BY <1>13 DEF WriteHead, Places, Uses
    <3> QED
      BY <3>2, <3>3
  <2>3. request' \in RequestObjects
    <3>1. request' = [n |-> opened, expect |-> expectHdr', closed |-> FALSE]
      BY <1>13 DEF WriteHead
    <3> QED
      BY <2>1, <2>2, <3>1 DEF RequestObjects
  <2>4. response' \in ResponseObjects
    BY <1>13 DEF WriteHead, NewResponse, ResponseObjects, Modes, HeaderModes, Statuses
  <2>5. conn' \in Connections
    <3>1. conn' = conn \/ conn' = [conn EXCEPT !.stage = "head", !.n = opened, !.expect = TRUE]
      BY <1>13 DEF WriteHead
    <3>2. "head" \in Stages /\ opened \in Nat
      BY <2>1 DEF Stages, Requests
    <3> QED
      BY <2>1, <3>1, <3>2 DEF Connections
  <2> QED
    BY <1>13, <2>2, <2>3, <2>4, <2>5 DEF WriteHead
<1>14. CASE AvoidReuse
  BY <1>14 DEF AvoidReuse, CloseConnection, Places
<1>15. ASSUME NEW timeout \in BOOLEAN, Wait100(timeout)
      PROVE  Typed'
  BY <1>15 DEF Wait100, Places, Uses
<1>16. CASE ReadHead100
  BY <1>16, ReadEffect DEF ReadHead100, Objects, Awaiting
<1>17. CASE MayStream
  BY <1>17 DEF MayStream, Places, Uses
<1>18. CASE Refused417
  BY <1>18 DEF Refused417, Places
<1>19. CASE Again417
  BY <1>19 DEF Again417, Refused, Places, Options
<1>20. CASE RefusedOther
  BY <1>20 DEF RefusedOther, Places, Uses, Errors, Connections, Stages, Objects, Awaiting
<1>21. CASE CloseOutput
  <2>1. request \in RequestObjects /\ conn \in Connections
    BY <1>21 DEF CloseOutput, Objects, Awaiting
  <2>2. request' \in RequestObjects /\ conn' \in Connections /\ served' \in [Requests -> Counts]
    BY <1>21, <2>1, CloseEffect
  <2>5. pc' \in Places /\ use' \in Uses
    BY <1>21 DEF CloseOutput, Places, Uses
  <2> QED
    BY <1>21, <2>2, <2>5 DEF CloseOutput
<1>22. CASE Load
  BY <1>22, ReadEffect DEF Load, Objects, Awaiting
<1>23. CASE Loaded
  BY <1>23 DEF Loaded, Places, Uses
<1>24. ASSUME NEW kind \in {"io", "net"}, Breaks(kind)
      PROVE  Typed'
  BY <1>24 DEF Breaks, Places, Errors
<1>25. CASE Retry
  BY <1>25 DEF Retry, CloseConnection, Places
<1>26. CASE Throw
  BY <1>26 DEF Throw, Places, Uses
<1>27. CASE NoRequest
  BY <1>27 DEF NoRequest, Places, Uses, Errors
<1>28. CASE Closed
  BY <1>28 DEF Closed, CloseConnection, Places, Uses
<1>29. CASE World
  BY <1>29, WorldEffect
<1>30. CASE UNCHANGED vars
  BY <1>30 DEF vars, user, call, objects, site, history
<1> QED
  BY <1>1, <1>2, <1>3, <1>4, <1>5, <1>6, <1>7, <1>8, <1>9, <1>10, <1>11, <1>12, <1>13, <1>14, <1>15, <1>16, <1>17, <1>18, <1>19, <1>20, <1>21, <1>22, <1>23, <1>24, <1>25, <1>26, <1>27, <1>28, <1>29, <1>30
  DEF Next, User, Client

(* the calls and their places, *)
LEMMA ControlStep ==
    ASSUME Typed, Control, Objects, [Next]_vars
    PROVE  Typed' => Control'
<1> USE HttpClientAssumption, NilDistinct DEF Control, Sends, InSendRequest, Calls, user, call, objects, site, history
<1>1. ASSUME NEW s \in Sites, NEW tls \in BOOLEAN, Open([site |-> s, tls |-> tls])
      PROVE  Typed' => Control'
  BY <1>1 DEF Open, Typed, Nil
<1>2. ASSUME NEW o \in {"send", "sendBody", "sendNoWait"}, Send(o)
      PROVE  Typed' => Control'
  BY <1>2 DEF Send
<1>3. ASSUME NEW option \in Options, BeginBody(option)
      PROVE  Typed' => Control'
  BY <1>3 DEF BeginBody
<1>4. CASE Finish
  BY <1>4 DEF Finish
<1>5. CASE Receive
  BY <1>5 DEF Receive
<1>6. CASE ReadBody
  BY <1>6 DEF ReadBody
<1>7. CASE Close
  BY <1>7 DEF Close
<1>8. CASE CreateRequest
  BY <1>8 DEF CreateRequest
<1>9. CASE ConnectFails
  BY <1>9 DEF ConnectFails, Nil
<1>10. CASE Skip
  BY <1>10 DEF Skip
<1>11. CASE Skipped
  BY <1>11 DEF Skipped
<1>12. CASE SkipFails
  BY <1>12 DEF SkipFails, Nil
<1>13. CASE WriteHead
  BY <1>13 DEF WriteHead, use100
<1>14. CASE AvoidReuse
  BY <1>14 DEF AvoidReuse
<1>15. ASSUME NEW timeout \in BOOLEAN, Wait100(timeout)
      PROVE  Typed' => Control'
  BY <1>15 DEF Wait100
<1>16. CASE ReadHead100
  BY <1>16 DEF ReadHead100
<1>17. CASE MayStream
  BY <1>17 DEF MayStream
<1>18. CASE Refused417
  BY <1>18 DEF Refused417
<1>19. CASE Again417
  BY <1>19 DEF Again417
<1>20. CASE RefusedOther
  BY <1>20 DEF RefusedOther
<1>21. CASE CloseOutput
  BY <1>21 DEF CloseOutput
<1>22. CASE Load
  BY <1>22 DEF Load
<1>23. CASE Loaded
  BY <1>23 DEF Loaded
<1>24. ASSUME NEW kind \in {"io", "net"}, Breaks(kind)
      PROVE  Typed' => Control'
  BY <1>24 DEF Breaks, Nil
<1>25. CASE Retry
  BY <1>25 DEF Retry, Caught, CloseConnection
<1>26. CASE Throw
  BY <1>26 DEF Throw
<1>27. CASE NoRequest
  BY <1>27 DEF NoRequest
<1>28. CASE Closed
  BY <1>28 DEF Closed
<1>29. CASE World
  BY <1>29, WorldEffect DEF Typed
<1>30. CASE UNCHANGED vars
  BY <1>30 DEF vars, user, call, objects, site, history
<1> QED
  BY <1>1, <1>2, <1>3, <1>4, <1>5, <1>6, <1>7, <1>8, <1>9, <1>10, <1>11, <1>12, <1>13, <1>14, <1>15, <1>16, <1>17, <1>18, <1>19, <1>20, <1>21, <1>22, <1>23, <1>24, <1>25, <1>26, <1>27, <1>28, <1>29, <1>30
  DEF Next, User, Client

(* the objects, *)
LEMMA ObjectsStep ==
    ASSUME Typed, Control, Objects, [Next]_vars
    PROVE  Objects'
<1> USE HttpClientAssumption, NilDistinct DEF Objects, Sends, Awaiting, InSendRequest, user, call, objects, site, history
<1>1. ASSUME NEW s \in Sites, NEW tls \in BOOLEAN, Open([site |-> s, tls |-> tls])
      PROVE  Objects'
  <2>1. opened \in Nat /\ opened' = opened + 1 /\ (request # Nil => request.n \in Nat)
    BY <1>1 DEF Open, Typed, RequestObjects, Requests
  <2> QED
    BY <1>1, <2>1 DEF Open, Control
<1>2. ASSUME NEW o \in {"send", "sendBody", "sendNoWait"}, Send(o)
      PROVE  Objects'
  BY <1>2 DEF Send
<1>3. ASSUME NEW option \in Options, BeginBody(option)
      PROVE  Objects'
  BY <1>3 DEF BeginBody
<1>4. CASE Finish
  BY <1>4 DEF Finish
<1>5. CASE Receive
  BY <1>5 DEF Receive, NewResponse, Nil
<1>6. CASE ReadBody
  <2>1. response # Nil /\ conn # Nil
    BY <1>6 DEF ReadBody
  <2>2. response' # Nil /\ conn' # Nil
    BY <1>6, <2>1, ReadEffect DEF ReadBody, Typed
  <2> QED
    BY <1>6, <2>1, <2>2 DEF ReadBody
<1>7. CASE Close
  BY <1>7 DEF Close, Control, CloseConnection
<1>8. CASE CreateRequest
  <2>1. CASE canReuseConnection
    BY <1>8, <2>1 DEF CreateRequest, canReuseConnection
  <2>2. CASE ~canReuseConnection
    <3>1. conn' # Nil
      BY <1>8, <2>2 DEF CreateRequest, Connect, NewConnection, Nil
    <3> QED
      BY <1>8, <2>2, <3>1 DEF CreateRequest, Control
  <2> QED
    BY <2>1, <2>2
<1>9. CASE ConnectFails
  BY <1>9 DEF ConnectFails
<1>10. CASE Skip
  <2>1. response # Nil /\ conn # Nil
    BY <1>10 DEF Skip
  <2>2. response' # Nil /\ conn' # Nil
    BY <1>10, <2>1, ReadEffect DEF Skip, Typed
  <2> QED
    BY <1>10, <2>1, <2>2 DEF Skip
<1>11. CASE Skipped
  BY <1>11 DEF Skipped, Control, CloseConnection
<1>12. CASE SkipFails
  BY <1>12 DEF SkipFails, Control, CloseConnection
<1>13. CASE WriteHead
  <2>1. opened \in Nat /\ conn # Nil
    BY <1>13 DEF WriteHead, Typed
  <2>2. request'.n = opened /\ response' # Nil
    BY <1>13 DEF WriteHead, NewResponse, Nil
  <2>3. conn' # Nil
    BY <1>13, <2>1 DEF WriteHead, Typed, Nil, Connections
  <2>4. op \notin {"send", "sendBody", "sendNoWait"} \/ ~use100
    BY DEF Control, use100
  <2>5. /\ request' # Nil /\ pc' \in {"wait100", "idle", "finish"}
        /\ UNCHANGED <<op, opened, lastError>>
        /\ use' \in {"opened", "body"}
    BY <1>13, <2>2, NilDistinct DEF WriteHead, Control, Nil
  <2> QED
    BY <2>1, <2>2, <2>3, <2>5
<1>14. CASE AvoidReuse
  BY <1>14 DEF AvoidReuse, Control, CloseConnection
<1>15. ASSUME NEW timeout \in BOOLEAN, Wait100(timeout)
      PROVE  Objects'
  BY <1>15 DEF Wait100, Control
<1>16. CASE ReadHead100
  <2>1. response # Nil /\ conn # Nil
    BY <1>16 DEF ReadHead100
  <2>2. response' # Nil /\ conn' # Nil
    BY <1>16, <2>1, ReadEffect DEF ReadHead100, Typed
  <2> QED
    BY <1>16, <2>1, <2>2 DEF ReadHead100
<1>17. CASE MayStream
  BY <1>17 DEF MayStream, Control, CloseConnection
<1>18. CASE Refused417
  BY <1>18 DEF Refused417, Control, CloseConnection
<1>19. CASE Again417
  BY <1>19 DEF Again417, Control, CloseConnection
<1>20. CASE RefusedOther
  <2>1. conn' # Nil
    BY <1>20 DEF RefusedOther, Typed, Nil, Connections
  <2> QED
    BY <1>20, <2>1 DEF RefusedOther
<1>21. CASE CloseOutput
  <2>1. request # Nil /\ conn # Nil
    BY <1>21 DEF CloseOutput
  <2>2. request' # Nil /\ request'.n = request.n /\ conn' # Nil
    BY <1>21, <2>1, CloseEffect DEF Typed
  <2>3. /\ request' # Nil /\ response # Nil /\ pc' \in {"idle", "load"}
        /\ UNCHANGED <<response, op, opened, lastError>>
        /\ use' \in {"opened", "body", "sent"} /\ (use' = "body" => use = "body")
    BY <1>21, <2>2 DEF CloseOutput, Control, Typed
  <2> HIDE DEF user, call, objects, site, history
  <2> QED
    BY <2>1, <2>2, <2>3
<1>22. CASE Load
  <2>1. response # Nil /\ conn # Nil
    BY <1>22 DEF Load
  <2>2. response' # Nil /\ conn' # Nil
    BY <1>22, <2>1, ReadEffect DEF Load, Typed
  <2> QED
    BY <1>22, <2>1, <2>2 DEF Load
<1>23. CASE Loaded
  BY <1>23 DEF Loaded, Control, CloseConnection
<1>24. ASSUME NEW kind \in {"io", "net"}, Breaks(kind)
      PROVE  Objects'
  BY <1>24 DEF Breaks, Control, CloseConnection
<1>25. CASE Retry
  BY <1>25 DEF Retry, Caught, Control, CloseConnection
<1>26. CASE Throw
  BY <1>26 DEF Throw, Control, CloseConnection
<1>27. CASE NoRequest
  BY <1>27 DEF NoRequest
<1>28. CASE Closed
  BY <1>28 DEF Closed, Control, CloseConnection
<1>29. CASE World
  <2>1. conn' # Nil
    BY <1>29, WorldEffect DEF Typed
  <2> QED
    BY <1>29, <2>1, WorldEffect DEF Typed
<1>30. CASE UNCHANGED vars
  BY <1>30 DEF vars, user, call, objects, site, history
<1> QED
  BY <1>1, <1>2, <1>3, <1>4, <1>5, <1>6, <1>7, <1>8, <1>9, <1>10, <1>11, <1>12, <1>13, <1>14, <1>15, <1>16, <1>17, <1>18, <1>19, <1>20, <1>21, <1>22, <1>23, <1>24, <1>25, <1>26, <1>27, <1>28, <1>29, <1>30
  DEF Next, User, Client

(* the attempts: a retry follows an attempt on a kept connection only, *)
LEMMA AttemptsStep ==
    ASSUME Typed, Control, Objects, Attempts, AtMostTwice, [Next]_vars
    PROVE  Attempts' /\ AtMostTwice'
<1> USE HttpClientAssumption, NilDistinct DEF Attempts, AtMostTwice, Zero, Sends, Awaiting, InSendRequest, CloseConnection, user, call, objects, site, history
<1>1. ASSUME NEW s \in Sites, NEW tls \in BOOLEAN, Open([site |-> s, tls |-> tls])
      PROVE  Attempts' /\ AtMostTwice'
  <2>1. opened \in Nat /\ opened' = opened + 1 /\ opened' \in Requests /\ (request # Nil => request.n \in Requests)
    BY <1>1 DEF Open, Typed, Objects, RequestObjects, Requests
  <2>2. served[opened'] = Zero
    BY <2>1
  <2>3. UNCHANGED <<pc, op, request, response, conn, connectionReused, served>> /\ pc = "idle" /\ use' = "opened"
    BY <1>1 DEF Open
  <2> QED
    BY <2>1, <2>2, <2>3
<1>2. ASSUME NEW o \in {"send", "sendBody", "sendNoWait"}, Send(o)
      PROVE  Attempts' /\ AtMostTwice'
  BY <1>2 DEF Send, Control, Objects
<1>3. ASSUME NEW option \in Options, BeginBody(option)
      PROVE  Attempts' /\ AtMostTwice'
  BY <1>3 DEF BeginBody, Control, Objects
<1>4. CASE Finish
  BY <1>4 DEF Finish, Control, Objects
<1>5. CASE Receive
  BY <1>5 DEF Receive, Control, Objects
<1>6. CASE ReadBody
  BY <1>6, ReadEffect DEF ReadBody, Control, Objects, Typed
<1>7. CASE Close
  BY <1>7 DEF Close, Control, Objects
<1>8. CASE CreateRequest
  BY <1>8 DEF CreateRequest, canReuseConnection, Control, Typed
<1>9. CASE ConnectFails
  BY <1>9 DEF ConnectFails, Control, Objects
<1>10. CASE Skip
  BY <1>10, ReadEffect DEF Skip, Control, Objects, Typed
<1>11. CASE Skipped
  BY <1>11 DEF Skipped, Control, Objects
<1>12. CASE SkipFails
  BY <1>12 DEF SkipFails, Control, Objects
<1>13. CASE WriteHead
  <2>1. opened \in Requests /\ use = "opened" /\ op \in Sends
    BY <1>13 DEF WriteHead, Control, Objects, Typed, Requests
  <2>2. /\ request'.n = opened /\ ~request'.closed /\ UNCHANGED <<opened, op, connectionReused, served>>
        /\ pc' \in {"wait100", "idle", "finish"} /\ use' \in {"opened", "body"}
        /\ op # "beginBody" => pc' = "finish" /\ use' = "opened"
        /\ pc' = "idle" => use' = "body"
    BY <1>13, <2>1 DEF WriteHead, use100, Control
  <2>3. /\ served[opened].stream = 0 /\ served[opened].fresh = 0
        /\ connectionReused => served[opened].reused = 0
        /\ op = "beginBody" => served[opened] = Zero
    BY <1>13, <2>1 DEF WriteHead
  <2>4. op = "beginBody" => served[opened].reused = 0
    BY <2>3
  <2> QED
    BY <2>1, <2>2, <2>3, <2>4
<1>14. CASE AvoidReuse
  BY <1>14 DEF AvoidReuse, Control, Objects
<1>15. ASSUME NEW timeout \in BOOLEAN, Wait100(timeout)
      PROVE  Attempts' /\ AtMostTwice'
  BY <1>15 DEF Wait100, Control, Objects
<1>16. CASE ReadHead100
  BY <1>16, ReadEffect DEF ReadHead100, Control, Objects, Typed
<1>17. CASE MayStream
  BY <1>17 DEF MayStream, Control, Objects
<1>18. CASE Refused417
  BY <1>18 DEF Refused417, Control, Objects
<1>19. CASE Again417
  BY <1>19 DEF Again417, Control, Objects
<1>20. CASE RefusedOther
  BY <1>20 DEF RefusedOther, Control, Objects
<1>21. CASE CloseOutput
  <2>1. request # Nil /\ conn # Nil /\ request.n \in Requests /\ request.n <= opened
    BY <1>21 DEF CloseOutput, Objects, Typed, RequestObjects
  <2>2. /\ pc = "finish" /\ op \in {"send", "sendBody", "sendNoWait", "finish", "flush"} /\ use \in {"opened", "body"}
        /\ op \in Sends => use = "opened"
    BY <1>21 DEF CloseOutput, Control, Objects
  <2>3. /\ pc' \in {"idle", "load"} /\ (pc' = "idle" => op \in {"sendNoWait", "flush"} /\ use' = "sent")
        /\ UNCHANGED <<op, opened, connectionReused>> /\ (use' = use \/ use' = "sent")
    BY <1>21 DEF CloseOutput
  <2>4. request' # Nil /\ request'.closed
    BY <1>21, <2>1, CloseEffect DEF Typed
  <2>5. CASE served' = served
    BY <2>1, <2>2, <2>3, <2>4, <2>5
  <2>6. CASE served' # served
    <3> DEFINE n == request.n
    <3>1. /\ ~request.closed /\ \A m \in Requests : m # n => served'[m] = served[m]
          /\ served'[n].fresh = (IF Way = "fresh" THEN served[n].fresh + 1 ELSE served[n].fresh)
          /\ served'[n].reused = (IF Way = "reused" THEN served[n].reused + 1 ELSE served[n].reused)
          /\ served'[n].stream = (IF Way = "stream" THEN served[n].stream + 1 ELSE served[n].stream)
      BY <1>21, <2>1, <2>6, CloseEffect DEF Typed
    <3>2. /\ served[n].fresh \in Nat /\ served[n].reused \in Nat /\ served[n].stream \in Nat /\ n \in Requests
          /\ opened \in Nat
      BY <2>1 DEF Typed, Counts
    <3>3. served[n].stream = 0 /\ served[n].fresh = 0 /\ (connectionReused => served[n].reused = 0)
      BY <2>1, <3>1
    <3>4. op \in {"finish", "flush"} => served[n].reused = 0
      <4>1. conn.peer = "up"
        BY <1>21, <2>6 DEF CloseOutput
      <4> QED
        BY <2>1, <2>2, <3>1, <4>1
    <3>5. /\ Way = "stream" <=> op \in {"finish", "flush"}
          /\ Way = "reused" => connectionReused
          /\ Way = "fresh" => ~connectionReused
          /\ Way \in {"fresh", "reused", "stream"}
      BY DEF Way
    <3>6. AtMostTwice'
      <4>1. /\ served'[n].fresh <= 1 /\ served'[n].reused <= 1
            /\ served'[n].stream + served'[n].fresh <= 1
            /\ served'[n].stream + served'[n].reused <= 1
        <5>1. served[n].reused <= 1
          BY <3>2
        <5> QED
          BY <3>1, <3>2, <3>3, <3>4, <3>5, <5>1
      <4> QED
        BY <3>1, <4>1
    <3>7. /\ op \in Sends => served'[n].stream = 0
          /\ connectionReused => served'[n].fresh = 0
      BY <3>1, <3>3, <3>5 DEF Sends
    <3>8. \A m \in Requests : m > opened => served'[m] = served[m]
      BY <2>1, <3>1, <3>2 DEF Requests
    <3>9. (\A m \in Requests : m > opened => served[m] = Zero) /\ (opened > 0 => opened \in Requests)
      BY <3>2 DEF Typed, Requests
    <3>10. op \in Sends => served'[opened].stream = 0
      <4>1. CASE opened = n
        BY <4>1, <3>7
      <4>2. CASE opened # n
        BY <4>2, <2>1, <2>2, <3>1, <3>2, <3>9 DEF Control
      <4> QED
        BY <4>1, <4>2
    <3>11. connectionReused /\ opened > 0 => served'[opened].fresh = 0
      <4>1. CASE opened = n
        BY <4>1, <3>7
      <4>2. CASE opened # n
        BY <4>2, <2>1, <3>1, <3>2, <3>9
      <4> QED
        BY <4>1, <4>2
    <3> HIDE DEF user, call, objects, site, history, n, AtMostTwice
    <3> QED
      BY <2>2, <2>3, <2>4, <3>6, <3>8, <3>9, <3>10, <3>11
  <2> QED
    BY <2>5, <2>6
<1>22. CASE Load
  BY <1>22, ReadEffect DEF Load, Control, Objects, Typed
<1>23. CASE Loaded
  BY <1>23 DEF Loaded, Control, Objects
<1>24. ASSUME NEW kind \in {"io", "net"}, Breaks(kind)
      PROVE  Attempts' /\ AtMostTwice'
  BY <1>24 DEF Breaks, Control, Objects
<1>25. CASE Retry
  BY <1>25 DEF Retry, Caught, Control, Typed
<1>26. CASE Throw
  BY <1>26 DEF Throw, Control, Objects
<1>27. CASE NoRequest
  BY <1>27 DEF NoRequest, Control, Objects
<1>28. CASE Closed
  BY <1>28 DEF Closed, Control, Objects
<1>29. CASE World
  BY <1>29, WorldEffect DEF Typed
<1>30. CASE UNCHANGED vars
  BY <1>30 DEF vars, user, call, objects, site, history
<1> QED
  BY <1>1, <1>2, <1>3, <1>4, <1>5, <1>6, <1>7, <1>8, <1>9, <1>10, <1>11, <1>12, <1>13, <1>14, <1>15, <1>16, <1>17, <1>18, <1>19, <1>20, <1>21, <1>22, <1>23, <1>24, <1>25, <1>26, <1>27, <1>28, <1>29, <1>30
  DEF Next, User, Client

(* what is known of an error that is not followed by a retry, *)
LEMMA StaleStep ==
    ASSUME Typed, Control, StaleErrorsKnown, [Next]_vars
    PROVE  StaleErrorsKnown'
<1> USE HttpClientAssumption, NilDistinct DEF StaleErrorsKnown, user, call, objects, site, history
<1>1. ASSUME NEW s \in Sites, NEW tls \in BOOLEAN, Open([site |-> s, tls |-> tls])
      PROVE  StaleErrorsKnown'
  BY <1>1 DEF Open, Control
<1>2. ASSUME NEW o \in {"send", "sendBody", "sendNoWait"}, Send(o)
      PROVE  StaleErrorsKnown'
  BY <1>2 DEF Send, Control
<1>3. ASSUME NEW option \in Options, BeginBody(option)
      PROVE  StaleErrorsKnown'
  BY <1>3 DEF BeginBody, Control
<1>4. CASE Finish
  BY <1>4 DEF Finish, Control
<1>5. CASE Receive
  BY <1>5 DEF Receive, Control
<1>6. CASE ReadBody
  BY <1>6 DEF ReadBody, Control
<1>7. CASE Close
  BY <1>7 DEF Close, Control
<1>8. CASE CreateRequest
  BY <1>8 DEF CreateRequest, Control
<1>9. CASE ConnectFails
  BY <1>9 DEF ConnectFails, Control
<1>10. CASE Skip
  BY <1>10 DEF Skip, Control
<1>11. CASE Skipped
  BY <1>11 DEF Skipped, Control
<1>12. CASE SkipFails
  BY <1>12 DEF SkipFails, Control
<1>13. CASE WriteHead
  BY <1>13 DEF WriteHead, Control
<1>14. CASE AvoidReuse
  BY <1>14 DEF AvoidReuse, Control
<1>15. ASSUME NEW timeout \in BOOLEAN, Wait100(timeout)
      PROVE  StaleErrorsKnown'
  BY <1>15 DEF Wait100, Control
<1>16. CASE ReadHead100
  BY <1>16 DEF ReadHead100, Control
<1>17. CASE MayStream
  BY <1>17 DEF MayStream, Control
<1>18. CASE Refused417
  BY <1>18 DEF Refused417, Control
<1>19. CASE Again417
  BY <1>19 DEF Again417, Control
<1>20. CASE RefusedOther
  BY <1>20 DEF RefusedOther, Control
<1>21. CASE CloseOutput
  BY <1>21 DEF CloseOutput, Control
<1>22. CASE Load
  BY <1>22 DEF Load, Control
<1>23. CASE Loaded
  BY <1>23 DEF Loaded, Control
<1>24. ASSUME NEW kind \in {"io", "net"}, Breaks(kind)
      PROVE  StaleErrorsKnown'
  BY <1>24 DEF Breaks, Control
<1>25. CASE Retry
  BY <1>25 DEF Retry, Control
<1>26. CASE Throw
  BY <1>26 DEF Throw, Caught, Control, Typed, Calls, Sends, InSendRequest, Errors
<1>27. CASE NoRequest
  BY <1>27 DEF NoRequest, Control
<1>28. CASE Closed
  BY <1>28 DEF Closed, CloseConnection
<1>29. CASE World
  BY <1>29, WorldEffect DEF Typed
<1>30. CASE UNCHANGED vars
  BY <1>30 DEF vars, user, call, objects, site, history
<1> QED
  BY <1>1, <1>2, <1>3, <1>4, <1>5, <1>6, <1>7, <1>8, <1>9, <1>10, <1>11, <1>12, <1>13, <1>14, <1>15, <1>16, <1>17, <1>18, <1>19, <1>20, <1>21, <1>22, <1>23, <1>24, <1>25, <1>26, <1>27, <1>28, <1>29, <1>30
  DEF Next, User, Client

(* who has asked for an Expect, *)
LEMMA ExpectsStep ==
    ASSUME Typed, Control, Objects, Expects, [Next]_vars
    PROVE  Expects'
<1> USE HttpClientAssumption, NilDistinct DEF Expects, AskedFor, ForcedRepeated, ExpectKept, Refused, CloseConnection, use100, user, call, objects, site, history
<1>1. ASSUME NEW s \in Sites, NEW tls \in BOOLEAN, Open([site |-> s, tls |-> tls])
      PROVE  Expects'
  <2>1. opened \in Nat /\ opened' = opened + 1 /\ (request # Nil => request.n \in Nat /\ request.n <= opened)
    BY <1>1 DEF Open, Typed, Objects, RequestObjects, Requests
  <2>2. request # Nil => request.n # opened'
    BY <2>1
  <2> QED
    BY <1>1, <2>2 DEF Open
<1>2. ASSUME NEW o \in {"send", "sendBody", "sendNoWait"}, Send(o)
      PROVE  Expects'
  BY <1>2 DEF Send, Control, Objects
<1>3. ASSUME NEW option \in Options, BeginBody(option)
      PROVE  Expects'
  BY <1>3 DEF BeginBody, Control, Objects
<1>4. CASE Finish
  BY <1>4 DEF Finish, Control, Objects
<1>5. CASE Receive
  BY <1>5 DEF Receive, Control, Objects
<1>6. CASE ReadBody
  BY <1>6 DEF ReadBody, Control, Objects
<1>7. CASE Close
  BY <1>7 DEF Close, Control, Objects
<1>8. CASE CreateRequest
  BY <1>8 DEF CreateRequest, Control, Objects
<1>9. CASE ConnectFails
  BY <1>9 DEF ConnectFails, Control, Objects
<1>10. CASE Skip
  BY <1>10 DEF Skip, Control, Objects
<1>11. CASE Skipped
  BY <1>11 DEF Skipped, Control, Objects
<1>12. CASE SkipFails
  BY <1>12 DEF SkipFails, Control, Objects
<1>13. CASE WriteHead
  BY <1>13 DEF WriteHead, Control, Objects
<1>14. CASE AvoidReuse
  BY <1>14 DEF AvoidReuse, Control, Objects
<1>15. ASSUME NEW timeout \in BOOLEAN, Wait100(timeout)
      PROVE  Expects'
  BY <1>15 DEF Wait100, Control, Objects
<1>16. CASE ReadHead100
  BY <1>16 DEF ReadHead100, Control, Objects
<1>17. CASE MayStream
  BY <1>17 DEF MayStream, Control, Objects
<1>18. CASE Refused417
  BY <1>18 DEF Refused417, Control, Objects
<1>19. CASE Again417
  BY <1>19 DEF Again417, Control, Objects
<1>20. CASE RefusedOther
  BY <1>20 DEF RefusedOther, Control, Objects
<1>21. CASE CloseOutput
  <2>1. request # Nil /\ conn # Nil
    BY <1>21 DEF CloseOutput, Objects, Awaiting
  <2>2. request'.n = request.n /\ request'.expect = request.expect
    BY <1>21, <2>1 DEF CloseOutput, Typed, RequestObjects
  <2>3. pc' \in {"idle", "load"} /\ (pc' = "idle" => use' = "sent") /\ UNCHANGED <<opened, pso, expectHdr>>
    BY <1>21 DEF CloseOutput
  <2> QED
    BY <2>1, <2>2, <2>3
<1>22. CASE Load
  BY <1>22 DEF Load, Control, Objects
<1>23. CASE Loaded
  BY <1>23 DEF Loaded, Control, Objects
<1>24. ASSUME NEW kind \in {"io", "net"}, Breaks(kind)
      PROVE  Expects'
  BY <1>24 DEF Breaks, Control, Objects
<1>25. CASE Retry
  BY <1>25 DEF Retry, Control, Objects
<1>26. CASE Throw
  BY <1>26 DEF Throw, Caught, Control, Typed, Calls, Sends, InSendRequest, Errors
<1>27. CASE NoRequest
  BY <1>27 DEF NoRequest, Control, Objects
<1>28. CASE Closed
  BY <1>28 DEF Closed, CloseConnection
<1>29. CASE World
  BY <1>29, WorldEffect DEF Typed
<1>30. CASE UNCHANGED vars
  BY <1>30 DEF vars, user, call, objects, site, history
<1> QED
  BY <1>1, <1>2, <1>3, <1>4, <1>5, <1>6, <1>7, <1>8, <1>9, <1>10, <1>11, <1>12, <1>13, <1>14, <1>15, <1>16, <1>17, <1>18, <1>19, <1>20, <1>21, <1>22, <1>23, <1>24, <1>25, <1>26, <1>27, <1>28, <1>29, <1>30
  DEF Next, User, Client

(* the connection and its site, *)
LEMMA FitsStep ==
    ASSUME Typed, Control, Objects, Fits, [Next]_vars
    PROVE  Fits'
<1> USE HttpClientAssumption, NilDistinct DEF Fits, Fit, StaleTls, Awaiting, user, call, objects, site, history
<1>1. ASSUME NEW s \in Sites, NEW tls \in BOOLEAN, Open([site |-> s, tls |-> tls])
      PROVE  Fits'
  BY <1>1 DEF Open, Control, Objects
<1>2. ASSUME NEW o \in {"send", "sendBody", "sendNoWait"}, Send(o)
      PROVE  Fits'
  BY <1>2 DEF Send, Control, Objects
<1>3. ASSUME NEW option \in Options, BeginBody(option)
      PROVE  Fits'
  BY <1>3 DEF BeginBody, Control, Objects
<1>4. CASE Finish
  BY <1>4 DEF Finish, Control, Objects
<1>5. CASE Receive
  BY <1>5 DEF Receive, Control, Objects
<1>6. CASE ReadBody
  <2>1. response # Nil /\ conn # Nil /\ pc' = "idle" /\ pc = "idle" /\ (use' = use \/ use' = "failed")
    BY <1>6 DEF ReadBody, Objects
  <2>2. /\ conn'.site = conn.site /\ conn'.tls = conn.tls /\ conn'.chunked = conn.chunked
        /\ EndsIn(conn'.in) => EndsIn(conn.in)
    <3>1. CASE Read
      BY <2>1, <3>1, ReadEffect DEF Typed
    <3>2. CASE UNCHANGED conn
      BY <3>2
    <3> QED
      BY <1>6, <3>1, <3>2 DEF ReadBody
  <2> QED
    BY <1>6, <2>1, <2>2 DEF ReadBody
<1>7. CASE Close
  BY <1>7 DEF Close, Control, Objects
<1>8. CASE CreateRequest
  <2>1. CASE canReuseConnection
    BY <1>8, <2>1 DEF CreateRequest, canReuseConnection
  <2>2. CASE ~canReuseConnection
    <3>1. /\ conn' = NewConnection /\ currentDomain' = url.site /\ (url.tls => currentTls')
          /\ pc' = "head" /\ UNCHANGED <<opened, url, request, use, op>>
      BY <1>8, <2>2 DEF CreateRequest, Connect
    <3>2. conn'.site = url.site /\ conn'.tls = url.tls /\ conn'.in = <<>>
      BY <3>1 DEF NewConnection
    <3>3. ~EndsIn(conn'.in)
      BY <3>2 DEF EndsIn
    <3> QED
      BY <3>1, <3>2, <3>3
  <2> QED
    BY <2>1, <2>2
<1>9. CASE ConnectFails
  BY <1>9 DEF ConnectFails, Control, Objects
<1>10. CASE Skip
  <2>1. response # Nil /\ conn # Nil
    BY <1>10 DEF Skip, Objects, Awaiting
  <2>2. /\ conn'.site = conn.site /\ conn'.tls = conn.tls /\ conn'.chunked = conn.chunked
        /\ EndsIn(conn'.in) => EndsIn(conn.in)
        /\ response'.mode = "status" => EndsIn(conn.in)
    BY <1>10, <2>1, ReadEffect DEF Skip, Typed
  <2> QED
    BY <1>10, <2>1, <2>2 DEF Skip, Control
<1>11. CASE Skipped
  <2>1. /\ pc = "skip" /\ op # "close" /\ pc' = "head" /\ connectionReused'
        /\ UNCHANGED <<opened, url, use, op, request, response, conn, currentDomain, currentTls>>
    BY <1>11 DEF Skipped
  <2>2. conn # Nil /\ conn.site = url.site /\ url.tls = currentTls /\ (conn.tls => currentTls)
    BY <2>1 DEF Objects
  <2>3. conn.tls \in BOOLEAN /\ currentTls \in BOOLEAN
    BY <2>2 DEF Typed, Connections
  <2>4. conn.tls = url.tls \/ (currentTls /\ ~conn.tls)
    BY <2>2, <2>3
  <2> QED
    BY <2>1, <2>2, <2>4
<1>12. CASE SkipFails
  BY <1>12 DEF SkipFails, Control, Objects
<1>13. CASE WriteHead
  <2>1. opened \in Nat /\ conn # Nil
    BY <1>13 DEF WriteHead, Objects, Typed
  <2>2. request'.n = opened
    BY <1>13 DEF WriteHead
  <2>3. conn'.site = conn.site /\ conn'.tls = conn.tls /\ conn'.in = conn.in /\ conn'.chunked = conn.chunked
    BY <1>13, <2>1 DEF WriteHead, Typed, Connections
  <2>4. pc' \in {"wait100", "idle", "finish"} /\ use' \in {use, "body"} /\ (pc' = "idle" => use' = "body")
        /\ UNCHANGED <<url, opened, site, connectionReused, op>>
    BY <1>13 DEF WriteHead
  <2> QED
    BY <1>13, <2>1, <2>2, <2>3, <2>4 DEF WriteHead
<1>14. CASE AvoidReuse
  BY <1>14 DEF AvoidReuse, CloseConnection, Control, Caught
<1>15. ASSUME NEW timeout \in BOOLEAN, Wait100(timeout)
      PROVE  Fits'
  BY <1>15 DEF Wait100, Control, Objects
<1>16. CASE ReadHead100
  <2>1. response # Nil /\ conn # Nil
    BY <1>16 DEF ReadHead100, Objects, Awaiting
  <2>2. /\ conn'.site = conn.site /\ conn'.tls = conn.tls /\ conn'.chunked = conn.chunked
        /\ EndsIn(conn'.in) => EndsIn(conn.in)
        /\ response'.mode = "status" => EndsIn(conn.in)
    BY <1>16, <2>1, ReadEffect DEF ReadHead100, Typed
  <2> QED
    BY <1>16, <2>1, <2>2 DEF ReadHead100, Control
<1>17. CASE MayStream
  BY <1>17 DEF MayStream, Control, Objects
<1>18. CASE Refused417
  BY <1>18 DEF Refused417, Control, Objects
<1>19. CASE Again417
  BY <1>19 DEF Again417, Control, Objects
<1>20. CASE RefusedOther
  <2>1. conn'.site = conn.site /\ conn'.in = conn.in /\ conn'.chunked = conn.chunked /\ conn # Nil
    BY <1>20 DEF RefusedOther, Typed, Connections, Objects, Awaiting
  <2> QED
    BY <1>20, <2>1 DEF RefusedOther
<1>21. CASE CloseOutput
  <2>1. request # Nil /\ conn # Nil
    BY <1>21 DEF CloseOutput, Objects, Awaiting
  <2>2. /\ request'.n = request.n /\ conn'.site = conn.site /\ conn'.tls = conn.tls /\ conn'.in = conn.in
        /\ conn'.chunked = conn.chunked
    BY <1>21, <2>1, CloseEffect DEF Typed
  <2> QED
    BY <1>21, <2>1, <2>2 DEF CloseOutput, Control
<1>22. CASE Load
  <2>1. response # Nil /\ conn # Nil
    BY <1>22 DEF Load, Objects, Awaiting
  <2>2. /\ conn'.site = conn.site /\ conn'.tls = conn.tls /\ conn'.chunked = conn.chunked
        /\ EndsIn(conn'.in) => EndsIn(conn.in)
        /\ response'.mode = "status" => EndsIn(conn.in)
    BY <1>22, <2>1, ReadEffect DEF Load, Typed
  <2> QED
    BY <1>22, <2>1, <2>2 DEF Load, Control
<1>23. CASE Loaded
  BY <1>23 DEF Loaded, Control, Objects
<1>24. ASSUME NEW kind \in {"io", "net"}, Breaks(kind)
      PROVE  Fits'
  BY <1>24 DEF Breaks, Control, Objects
<1>25. CASE Retry
  BY <1>25 DEF Retry, CloseConnection, Control, Caught
<1>26. CASE Throw
  BY <1>26 DEF Throw, Control, Objects
<1>27. CASE NoRequest
  BY <1>27 DEF NoRequest, Control, Objects
<1>28. CASE Closed
  BY <1>28 DEF Closed, CloseConnection, Control, Caught
<1>29. CASE World
  <2>1. /\ conn # Nil /\ conn'.site = conn.site /\ conn'.tls = conn.tls /\ (conn.chunked => conn'.chunked)
        /\ EndsIn(conn'.in) => EndsIn(conn.in) \/ conn'.chunked
        /\ conn'.in = <<>> => conn'.peer # "up"
        /\ UNCHANGED <<opened, url, use, pc, op, pso, expectHdr, request, response, currentDomain, currentTls,
                       connectionReused>>
    BY <1>29, WorldEffect, NilDistinct DEF Typed
  <2> QED
    BY <2>1
<1>30. CASE UNCHANGED vars
  BY <1>30 DEF vars, user, call, objects, site, history
<1> QED
  BY <1>1, <1>2, <1>3, <1>4, <1>5, <1>6, <1>7, <1>8, <1>9, <1>10, <1>11, <1>12, <1>13, <1>14, <1>15, <1>16, <1>17, <1>18, <1>19, <1>20, <1>21, <1>22, <1>23, <1>24, <1>25, <1>26, <1>27, <1>28, <1>29, <1>30
  DEF Next, User, Client

(* and whose response a connection carries. *)
LEMMA OwnStep ==
    ASSUME Careful, Typed, Control, Objects, Fits, Own, [Next]_vars
    PROVE  Own'
<1> USE HttpClientAssumption, NilDistinct DEF Own, Past, Awaiting, user, call, objects, site, history
<1>1. ASSUME NEW s \in Sites, NEW tls \in BOOLEAN, Open([site |-> s, tls |-> tls])
      PROVE  Own'
  BY <1>1 DEF Open, Objects, Fits
<1>2. ASSUME NEW o \in {"send", "sendBody", "sendNoWait"}, Send(o)
      PROVE  Own'
  BY <1>2 DEF Send, Control, Objects, Fits
<1>3. ASSUME NEW option \in Options, BeginBody(option)
      PROVE  Own'
  BY <1>3 DEF BeginBody, Control, Objects, Fits
<1>4. CASE Finish
  BY <1>4 DEF Finish, Control, Objects, Fits
<1>5. CASE Receive
  BY <1>5 DEF Receive, Objects, NewResponse, Nil
<1>6. CASE ReadBody
  <2>0. CASE Read /\ UNCHANGED use
    <3>1. response # Nil /\ conn # Nil /\ response \in ResponseObjects /\ conn \in Connections
      BY <1>6 DEF ReadBody, Objects, Awaiting, Typed
    <3>2. Read
      BY <2>0
    <3>3. /\ conn'.stage = conn.stage /\ conn'.n = conn.n /\ conn'.peer = conn.peer
          /\ Headless(conn.in) => Headless(conn'.in)
          /\ Plain(conn.in) => Plain(conn'.in)
          /\ Ordered(conn.in) => Ordered(conn'.in)
          /\ \A m : HeadsOf(conn.in, m) => HeadsOf(conn'.in, m)
          /\ Past /\ Plain(conn.in) => Past' /\ response'.n = response.n
          /\ ~Past /\ Past' => ~Headless(conn.in)
          /\ ~Past /\ Past' /\ Ordered(conn.in) => Plain(conn'.in)
          /\ ~Past /\ Past' => \A m : HeadsOf(conn.in, m) => response'.n = m
      BY <3>1, <3>2, ReadEffect
    <3>4. UNCHANGED <<request, opened, use>> /\ use = "done" /\ pc = "idle" /\ pc' = "idle"
      BY <1>6, <2>0 DEF ReadBody
    <3> HIDE DEF Past
    <3> QED
      BY <1>6, <3>1, <3>3, <3>4 DEF Objects
  <2>5. CASE use' = "failed" /\ UNCHANGED <<response, conn>>
    BY <1>6, <2>5 DEF ReadBody
  <2> QED
    BY <1>6, <2>0, <2>5 DEF ReadBody
<1>7. CASE Close
  BY <1>7 DEF Close, Control, Objects, Fits
<1>8. CASE CreateRequest
  <2>1. CASE canReuseConnection
    BY <1>8, <2>1 DEF CreateRequest, canReuseConnection, Control
  <2>2. CASE ~canReuseConnection
    <3>1. /\ conn' = NewConnection /\ pc' = "head" /\ UNCHANGED <<opened, request, response, use, op>>
      BY <1>8, <2>2 DEF CreateRequest, Connect
    <3>2. conn'.stage = "idle" /\ conn'.in = <<>>
      BY <3>1 DEF NewConnection
    <3>3. Plain(<<>>) /\ Headless(<<>>) /\ Ordered(<<>>) /\ \A n : HeadsOf(<<>>, n)
      BY DEF Plain, Headless, Ordered, HeadsOf
    <3> QED
      BY <3>1, <3>2, <3>3
  <2> QED
    BY <2>1, <2>2
<1>9. CASE ConnectFails
  BY <1>9 DEF ConnectFails, Control, Objects, Fits
<1>10. CASE Skip
  <2>1. response # Nil /\ conn # Nil /\ response \in ResponseObjects /\ conn \in Connections
    BY <1>10 DEF Skip, Objects, Awaiting, Typed
  <2>2. Read
    BY <1>10 DEF Skip
  <2>3. /\ conn'.stage = conn.stage /\ conn'.n = conn.n /\ conn'.peer = conn.peer
        /\ Headless(conn.in) => Headless(conn'.in)
        /\ Plain(conn.in) => Plain(conn'.in)
        /\ Ordered(conn.in) => Ordered(conn'.in)
        /\ \A m : HeadsOf(conn.in, m) => HeadsOf(conn'.in, m)
        /\ Past /\ Plain(conn.in) => Past' /\ response'.n = response.n
        /\ ~Past /\ Past' => ~Headless(conn.in)
        /\ ~Past /\ Past' /\ Ordered(conn.in) => Plain(conn'.in)
        /\ ~Past /\ Past' => \A m : HeadsOf(conn.in, m) => response'.n = m
    BY <2>1, <2>2, ReadEffect
  <2>4. UNCHANGED <<pc, use, request, opened>>
    BY <1>10 DEF Skip
  <2> HIDE DEF Past
  <2> QED
    BY <1>10, <2>1, <2>3, <2>4 DEF Skip, Control
<1>11. CASE Skipped
  BY <1>11 DEF Skipped, Control, Objects, Fits
<1>12. CASE SkipFails
  BY <1>12 DEF SkipFails, Control, Objects, Fits
<1>13. CASE WriteHead
  <2>1. opened \in Nat /\ conn # Nil /\ pc = "head"
    BY <1>13 DEF WriteHead, Objects, Typed
  <2>2. request' # Nil /\ request'.n = opened /\ ~request'.closed /\ ~Past' /\ response' # Nil
    BY <1>13, NilDistinct DEF WriteHead, NewResponse, Nil
  <2>3. conn'.in = conn.in /\ conn'.peer = conn.peer /\ conn'.stage # "full" /\ (conn'.stage = "head" => conn'.n = opened)
    BY <1>13, <2>1 DEF WriteHead, Typed, Connections
  <2>4. Plain(conn.in) => Headless(conn.in) /\ Ordered(conn.in) /\ \A n : HeadsOf(conn.in, n)
    BY DEF Plain, Headless, Ordered, HeadsOf
  <2>5. pc' \in {"wait100", "idle", "finish"} /\ (pc' = "idle" => use' = "body")
    BY <1>13 DEF WriteHead
  <2> QED
    BY <2>1, <2>2, <2>3, <2>4, <2>5
<1>14. CASE AvoidReuse
  BY <1>14 DEF AvoidReuse, CloseConnection, Control, Caught, Objects
<1>15. ASSUME NEW timeout \in BOOLEAN, Wait100(timeout)
      PROVE  Own'
  BY <1>15 DEF Wait100, Control, Objects, Fits
<1>16. CASE ReadHead100
  <2>1. response # Nil /\ conn # Nil /\ response \in ResponseObjects /\ conn \in Connections
    BY <1>16 DEF ReadHead100, Objects, Awaiting, Typed
  <2>2. Read
    BY <1>16 DEF ReadHead100
  <2>3. /\ conn'.stage = conn.stage /\ conn'.n = conn.n /\ conn'.peer = conn.peer
        /\ Headless(conn.in) => Headless(conn'.in)
        /\ Plain(conn.in) => Plain(conn'.in)
        /\ Ordered(conn.in) => Ordered(conn'.in)
        /\ \A m : HeadsOf(conn.in, m) => HeadsOf(conn'.in, m)
        /\ Past /\ Plain(conn.in) => Past' /\ response'.n = response.n
        /\ ~Past /\ Past' => ~Headless(conn.in)
        /\ ~Past /\ Past' /\ Ordered(conn.in) => Plain(conn'.in)
        /\ ~Past /\ Past' => \A m : HeadsOf(conn.in, m) => response'.n = m
    BY <2>1, <2>2, ReadEffect
  <2>4. UNCHANGED <<pc, use, request, opened>>
    BY <1>16 DEF ReadHead100
  <2> HIDE DEF Past
  <2> QED
    BY <1>16, <2>1, <2>3, <2>4 DEF ReadHead100, Control
<1>17. CASE MayStream
  BY <1>17 DEF MayStream, Control, Objects, Fits
<1>18. CASE Refused417
  BY <1>18 DEF Refused417, Control, Objects, Fits
<1>19. CASE Again417
  BY <1>19 DEF Again417, Control, Objects, Fits
<1>20. CASE RefusedOther
  <2>1. conn'.stage = "idle" /\ conn'.in = conn.in /\ conn # Nil /\ response # Nil /\ Past
    BY <1>20 DEF RefusedOther, Typed, Connections, Objects, Awaiting, HeaderModes
  <2> QED
    BY <1>20, <2>1 DEF RefusedOther
<1>21. CASE CloseOutput
  <2>1. request # Nil /\ conn # Nil /\ response # Nil
    BY <1>21 DEF CloseOutput, Objects, Awaiting
  <2>2. /\ request' # Nil /\ request'.n = request.n /\ request'.closed /\ conn'.in = conn.in /\ conn'.peer = conn.peer
        /\ \/ /\ conn.peer = "up" /\ ~request.closed /\ conn.stage # "refused"
              /\ conn'.stage = "full" /\ conn'.n = request.n
           \/ conn'.stage = "idle" \/ (conn' = conn /\ request.closed)
    BY <1>21, <2>1, CloseEffect, NilDistinct DEF Typed
  <2>3. response' = response /\ pc = "finish" /\ pc' \in {"idle", "load"} /\ use' # "done" /\ opened' = opened
    BY <1>21 DEF CloseOutput, Control
  <2>4. pc' = "idle" => use' = "sent"
    BY <1>21 DEF CloseOutput
  <2> QED
    BY <2>1, <2>2, <2>3, <2>4
<1>22. CASE Load
  <2>1. response # Nil /\ conn # Nil /\ response \in ResponseObjects /\ conn \in Connections
    BY <1>22 DEF Load, Objects, Awaiting, Typed
  <2>2. Read
    BY <1>22 DEF Load
  <2>3. /\ conn'.stage = conn.stage /\ conn'.n = conn.n /\ conn'.peer = conn.peer
        /\ Headless(conn.in) => Headless(conn'.in)
        /\ Plain(conn.in) => Plain(conn'.in)
        /\ Ordered(conn.in) => Ordered(conn'.in)
        /\ \A m : HeadsOf(conn.in, m) => HeadsOf(conn'.in, m)
        /\ Past /\ Plain(conn.in) => Past' /\ response'.n = response.n
        /\ ~Past /\ Past' => ~Headless(conn.in)
        /\ ~Past /\ Past' /\ Ordered(conn.in) => Plain(conn'.in)
        /\ ~Past /\ Past' => \A m : HeadsOf(conn.in, m) => response'.n = m
    BY <2>1, <2>2, ReadEffect
  <2>4. UNCHANGED <<pc, use, request, opened>>
    BY <1>22 DEF Load
  <2> HIDE DEF Past
  <2> QED
    BY <1>22, <2>1, <2>3, <2>4 DEF Load, Control
<1>23. CASE Loaded
  BY <1>23 DEF Loaded, Control, Objects, Fits, HeaderModes
<1>24. ASSUME NEW kind \in {"io", "net"}, Breaks(kind)
      PROVE  Own'
  BY <1>24 DEF Breaks, Control, Objects, Fits
<1>25. CASE Retry
  BY <1>25 DEF Retry, CloseConnection, Control, Caught, Objects
<1>26. CASE Throw
  BY <1>26 DEF Throw, Control, Objects, Fits
<1>27. CASE NoRequest
  BY <1>27 DEF NoRequest, Control, Objects, Fits
<1>28. CASE Closed
  BY <1>28 DEF Closed, CloseConnection, Control, Caught, Objects
<1>29. CASE World
  <2>1. /\ conn # Nil
        /\ UNCHANGED <<opened, url, use, pc, op, pso, expectHdr, request, response>>
        /\ conn'.n = conn.n /\ conn.peer = "up"
        /\ \/ /\ conn'.stage = conn.stage /\ conn'.peer # "up"
              /\ Headless(conn.in) => Headless(conn'.in)
              /\ Plain(conn.in) => Plain(conn'.in)
              /\ Ordered(conn.in) => Ordered(conn'.in)
              /\ \A n : HeadsOf(conn.in, n) => HeadsOf(conn'.in, n)
           \/ /\ conn'.stage = conn.stage /\ conn.stage \in {"head", "full"}
              /\ Headless(conn.in) => Headless(conn'.in) /\ Ordered(conn'.in)
              /\ \A n : HeadsOf(conn.in, n) => HeadsOf(conn'.in, n)
           \/ /\ \/ conn.stage = "head" /\ conn'.stage = "refused"
                 \/ conn.stage = "full" /\ conn'.stage = "idle"
              /\ Headless(conn.in) => Ordered(conn'.in) /\ HeadsOf(conn'.in, conn.n)
    BY <1>29, WorldEffect, NilDistinct DEF Typed
  <2>2. request # Nil /\ Past => UNCHANGED response
    BY <2>1
  <2> QED
    BY <2>1 DEF Objects
<1>30. CASE UNCHANGED vars
  BY <1>30 DEF vars, user, call, objects, site, history
<1> QED
  BY <1>1, <1>2, <1>3, <1>4, <1>5, <1>6, <1>7, <1>8, <1>9, <1>10, <1>11, <1>12, <1>13, <1>14, <1>15, <1>16, <1>17, <1>18, <1>19, <1>20, <1>21, <1>22, <1>23, <1>24, <1>25, <1>26, <1>27, <1>28, <1>29, <1>30
  DEF Next, User, Client

-----------------------------------------------------------------------------
(* The client's invariant, and the theorems.                               *)
ClientInv == Typed /\ Control /\ Objects /\ Attempts /\ AtMostTwice /\ StaleErrorsKnown /\ Expects /\ Fits

(* It holds when the client is new, *)
LEMMA ClientInit ==
    ASSUME Init
    PROVE  ClientInv /\ Own
<1> USE HttpClientAssumption, NilDistinct DEF Init
<1>1. Typed
  <2>1. served \in [Requests -> Counts]
    <3>1. [fresh |-> 0, reused |-> 0, stream |-> 0] \in Counts
      BY DEF Counts
    <3> QED
      BY <3>1
  <2>2. opened \in 0..MaxRequests /\ faults \in 0..MaxFaults
    OBVIOUS
  <2>3. use \in Uses /\ op \in Calls /\ pso \in PostOptions /\ pc \in Places
    BY DEF Uses, Calls, Options, PostOptions, Places
  <2> QED
    BY <2>1, <2>2, <2>3 DEF Typed
<1>2. Control /\ Objects
  BY DEF Control, Objects, Sends, Awaiting
<1>3. Attempts /\ AtMostTwice
  <2>1. \A n \in Requests : served[n] = Zero
    BY DEF Zero
  <2> QED
    BY <2>1 DEF Attempts, AtMostTwice, Zero
<1>4. StaleErrorsKnown /\ Expects /\ Fits /\ Own
  BY DEF StaleErrorsKnown, Expects, Fits, Own, Awaiting
<1> QED
  BY <1>1, <1>2, <1>3, <1>4 DEF ClientInv

(* every step keeps it, *)
LEMMA ClientStep == ClientInv /\ [Next]_vars => ClientInv'
BY TypedStep, ControlStep, ObjectsStep, AttemptsStep, StaleStep, ExpectsStep, FitsStep DEF ClientInv

(* and it has the type invariant: attempts are bounded, so their counts are. *)
LEMMA ClientTyped == ClientInv => TypeOK
<1> SUFFICES ASSUME ClientInv PROVE TypeOK
  OBVIOUS
<1>1. Typed /\ AtMostTwice
  BY DEF ClientInv
<1>2. served \in [Requests -> [fresh : 0..1, reused : 0..1, stream : 0..1]]
  <2>1. ASSUME NEW n \in Requests PROVE served[n] \in [fresh : 0..1, reused : 0..1, stream : 0..1]
    <3>1. served[n] \in Counts
      BY <1>1 DEF Typed
    <3>2. served[n].fresh \in 0..1 /\ served[n].reused \in 0..1 /\ served[n].stream \in 0..1
      BY <1>1, <3>1 DEF AtMostTwice, Counts
    <3> QED
      BY <3>1, <3>2 DEF Counts
  <2> QED
    BY <1>1, <2>1 DEF Typed
<1>3. request = Nil \/ request.n \in Requests
  BY <1>1 DEF Typed, RequestObjects
<1>4. response = Nil \/ response.mode \in HeaderModes \cup {"continue", "chunk", "limited", "unlimited", "eof"}
  BY <1>1 DEF Typed, ResponseObjects, Modes
<1> QED
  BY <1>1, <1>2, <1>3, <1>4 DEF Typed, TypeOK, Places, PostOptions

(* Every variable of the client keeps its type, at every place of its calls *)
(* (httpClient.cpp, httpStream.cpp).                                       *)
THEOREM TypeCorrect == Spec => []TypeOK
<1> QED
  BY ClientInit, ClientStep, ClientTyped, PTL DEF Spec

(* A request reaches a server at most once by a kept connection and once by *)
(* a fresh one, however the network fails (sendRequest, createRequest), and *)
(* an error of a kept connection that is not answered by a second attempt  *)
(* is one of the known ones. Who did not ask for 100-continue gets neither *)
(* Expect nor a repetition for 417, but for the two defects named. For any *)
(* user, Careful or not.                                                   *)
THEOREM RepeatedAlways == Spec => []RepeatedRightly
<1>1. ClientInv => RepeatedRightly
  BY DEF ClientInv, RepeatedRightly, ExpectsKnown, Expects
<1> QED
  BY <1>1, ClientInit, ClientStep, PTL DEF Spec

(* A Careful user's request is awaited on a connection to its own site, and *)
(* of its own mode unless currentTls is stale; the wait for an answer to   *)
(* Expect has its timer, but after the end of a chunked response that was  *)
(* left unread (canReuseConnection, createRequest, sendRequest).       *)
THEOREM FitsAlways == ASSUME Careful PROVE Spec => []ConnectionFits
<1>1. ClientInv => ConnectionFits
  <2> SUFFICES ASSUME ClientInv PROVE ConnectionFits
    OBVIOUS
  <2>1. TypeOK /\ Fits /\ Objects /\ Control
    BY ClientTyped DEF ClientInv
  <2>2. ASSUME pc \in {"wait100", "head100", "finish", "load"}, request # Nil PROVE Fit
    BY <2>1, <2>2 DEF Fits, Awaiting
  <2>3. pc = "head100" /\ response.mode = "status" /\ conn.in = <<>> /\ conn.peer = "up" => conn.chunked
    BY <2>1 DEF Fits
  <2> QED
    BY <2>1, <2>2, <2>3 DEF ConnectionFits, Fit
<1> QED
  BY <1>1, ClientInit, ClientStep, PTL DEF Spec

(* What a call returns to a Careful user is the response to the request that *)
(* was opened last: nothing of an earlier request that is left on a kept   *)
(* connection is ever taken for it (skipRemainBody, loadResponse).         *)
THEOREM OwnAlways == ASSUME Careful PROVE Spec => []OwnResponse
<1>1. ClientInv /\ Own /\ [Next]_vars => Own'
  BY OwnStep DEF ClientInv
<1>2. Own => OwnResponse
  BY DEF Own, OwnResponse
<1> QED
  BY <1>1, <1>2, ClientInit, ClientStep, PTL DEF Spec

(* Both: what the run checks of a careful user's responses and connections.*)
THEOREM AlwaysConsistent == ASSUME Careful PROVE Spec => []Consistent
<1>1. OwnResponse /\ ConnectionFits => Consistent
  BY DEF Consistent
<1> QED
  BY <1>1, FitsAlways, OwnAlways, PTL
=============================================================================
