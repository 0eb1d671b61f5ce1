--------------------------- MODULE HttpConn_proofs ---------------------------
(***************************************************************************)
(* Theorems about HttpConn, for any requests, any number of them, and any  *)
(* handlers.                                                               *)
(***************************************************************************)
EXTENDS HttpConn, SequenceTheorems, FiniteSetTheorems, TLAPS

-----------------------------------------------------------------------------
(* The fields. Only a switched connection has a body without an end.       *)

Sound(g) == g \in Fields /\ (g.remain = All => g.switched)

LEMMA RefuseSound ==
    ASSUME NEW g, Sound(g)
    PROVE  /\ Sound(Refuse(g)) /\ ~Refuse(g).needCont
           /\ Refuse(g).method = g.method /\ Refuse(g).handler = g.handler /\ Refuse(g).sent = g.sent
           /\ Refuse(g).close = g.close /\ Refuse(g).outClosed = g.outClosed
<1>1. CASE g.needCont
  <2>1. Refuse(g) = [g EXCEPT !.needCont = FALSE, !.remain = 0, !.chunkedPost = FALSE]
    BY <1>1 DEF Refuse
  <2>2. Refuse(g) \in Fields
    BY <2>1 DEF Sound, Fields
  <2> QED
    BY <2>1, <2>2 DEF Sound, Fields, All
<1>2. CASE ~g.needCont
  BY <1>2 DEF Sound, Refuse
<1> QED
  BY <1>1, <1>2

LEMMA HeadSentSound ==
    ASSUME NEW g, Sound(g), NEW v
    PROVE  /\ Sound(HeadSent(g, v)) /\ ~HeadSent(g, v).needCont
           /\ HeadSent(g, v).method = g.method /\ HeadSent(g, v).handler = g.handler
           /\ HeadSent(g, v).close = g.close /\ HeadSent(g, v).outClosed = g.outClosed
           /\ (HeadSent(g, v).sent <=> v # "cont" \/ g.sent)
<1> DEFINE r == Refuse(g)
           c == [r EXCEPT !.chunked = @ /\ ~g.close /\ v \notin {"length", "switch"}]
<1>1. /\ Sound(r) /\ ~r.needCont /\ r.method = g.method /\ r.handler = g.handler /\ r.sent = g.sent
      /\ r.close = g.close /\ r.outClosed = g.outClosed
  BY RefuseSound
<1> HIDE DEF r
<1>2. /\ Sound(c) /\ ~c.needCont /\ c.method = g.method /\ c.handler = g.handler /\ c.sent = g.sent
      /\ c.close = g.close /\ c.outClosed = g.outClosed
  BY <1>1 DEF Sound, Fields
<1> HIDE DEF c
<1>3. HeadSent(g, v) = (CASE v = "cont"   -> c
                          [] v = "switch" -> [c EXCEPT !.sent = TRUE, !.switched = TRUE, !.remain = All]
                          [] OTHER        -> [c EXCEPT !.sent = TRUE])
  BY DEF HeadSent, c, r
<1>4. CASE v = "cont"
  BY <1>2, <1>3, <1>4 DEF Sound, Fields
<1>5. CASE v = "switch"
  <2> DEFINE d == [c EXCEPT !.sent = TRUE, !.switched = TRUE, !.remain = All]
  <2>1. HeadSent(g, v) = d
    BY <1>3, <1>5
  <2>2. Sound(d)
    BY <1>2 DEF Sound, Fields
  <2>3. /\ d.needCont = c.needCont /\ d.method = c.method /\ d.handler = c.handler
        /\ d.close = c.close /\ d.outClosed = c.outClosed /\ d.sent
    BY <1>2 DEF Sound, Fields
  <2> HIDE DEF d
  <2> QED
    BY <1>2, <1>5, <2>1, <2>2, <2>3
<1>6. CASE v \notin {"cont", "switch"}
  <2>1. HeadSent(g, v) = [c EXCEPT !.sent = TRUE]
    BY <1>3, <1>6
  <2> QED
    BY <1>2, <1>6, <2>1 DEF Sound, Fields
<1> QED
  BY <1>4, <1>5, <1>6

LEMMA ClosedSound ==
    ASSUME NEW g, Sound(g), NEW d, d = [g EXCEPT !.close = TRUE]
    PROVE  /\ Sound(d) /\ d.close /\ d.needCont = g.needCont /\ d.method = g.method
           /\ d.handler = g.handler /\ d.outClosed = g.outClosed /\ d.sent = g.sent
BY DEF Sound, Fields

LEMMA ErrorPageSound ==
    ASSUME NEW g, Sound(g), NEW code, NEW e, e = ErrorPage(g, code)
    PROVE  /\ Sound(e) /\ e.sent /\ (e.needCont => g.sent /\ g.needCont)
           /\ e.method = g.method /\ e.handler = g.handler /\ e.outClosed = g.outClosed
           /\ g.close => e.close
           /\ g.sent \/ code # "empty" => e.close
<1>1. CASE code = "empty" /\ ~g.sent
  <2>1. e = HeadSent(g, "length")
    BY <1>1 DEF ErrorPage
  <2> QED
    BY <1>1, <2>1, HeadSentSound
<1> DEFINE d == [g EXCEPT !.close = TRUE]
<1>2. /\ Sound(d) /\ d.close /\ d.needCont = g.needCont /\ d.method = g.method
      /\ d.handler = g.handler /\ d.outClosed = g.outClosed /\ d.sent = g.sent
  BY ClosedSound
<1>3. CASE g.sent
  <2>1. e = d
    BY <1>3 DEF ErrorPage
  <2> HIDE DEF d
  <2> QED
    BY <1>2, <1>3, <2>1
<1>4. CASE code # "empty" /\ ~g.sent
  <2>1. e = HeadSent(d, "plain")
    BY <1>4 DEF ErrorPage
  <2> HIDE DEF d
  <2> QED
    BY <1>2, <1>4, <2>1, HeadSentSound
<1> QED
  BY <1>1, <1>3, <1>4

LEMMA UseHTTP11Sound ==
    ASSUME NEW g, Sound(g), NEW use \in BOOLEAN, NEW u, u = UseHTTP11(g, use)
    PROVE  /\ Sound(u) /\ (u.close <=> ~use) /\ u.needCont = g.needCont /\ u.method = g.method
           /\ u.handler = g.handler /\ u.outClosed = g.outClosed /\ u.sent = g.sent
BY DEF Sound, Fields, UseHTTP11

LEMMA ClearSound ==
    ASSUME NEW g, Sound(g)
    PROVE  Sound(Clear(g)) /\ ~Clear(g).method /\ ~Clear(g).handler /\ ~Clear(g).sent
<1>1. Clear(g) \in Fields
  BY DEF Sound, Fields, Clear
<1> QED
  BY <1>1 DEF Sound, Fields, Clear, All

-----------------------------------------------------------------------------
(* The output. The operators take their arguments explicitly, so that a    *)
(* step which writes several records can be cut into steps of one each.    *)

Records == [req : 0 .. NReq, what : {"cont", "head", "data", "end"},
            framing : {"none", "chunked", "length", "eof", "switch"}, close : BOOLEAN]

Ordered(o) == \A i, j \in DOMAIN o : i < j =>
    /\ o[i].what = "head" /\ o[j].what = "head" => o[i].req < o[j].req \/ o[j].req = 0
    /\ o[i].req = 0 => o[j].req = 0
    /\ o[j].what = "cont" => o[i].req # o[j].req

(* What has been written when request c is handled with the fields g, at   *)
(* place p. Nothing is of a later request, or of none; without a header    *)
(* out there is no head of this one, and not even 100 Continue while it is *)
(* owed; a head that announces the end is this request's, and g knows.     *)
Past(o, c, g, p) ==
    /\ Ordered(o)
    /\ \A i \in DOMAIN o :
         /\ o[i].req <= c
         /\ o[i].what = "head" /\ o[i].close /\ o[i].req # 0 => o[i].req = c
    /\ p # "removed" => \A i \in DOMAIN o :
         /\ o[i].req # 0
         /\ g.method /\ ~g.sent => o[i].what # "head" \/ o[i].req # c
         /\ g.method /\ ~g.sent /\ (g.handler => g.needCont) => o[i].req # c
         /\ o[i].what = "head" /\ o[i].close => g.method /\ g.close

LEMMA Appended ==
    ASSUME NEW o \in Seq(Records), NEW r \in Records
    PROVE  /\ o \o <<r>> \in Seq(Records)
           /\ Len(o \o <<r>>) = Len(o) + 1
           /\ \A i \in DOMAIN o : (o \o <<r>>)[i] = o[i]
           /\ (o \o <<r>>)[Len(o) + 1] = r
           /\ DOMAIN o = 1 .. Len(o) /\ DOMAIN (o \o <<r>>) = 1 .. Len(o) + 1
OBVIOUS

LEMMA Numbered ==
    ASSUME NEW o \in Seq(Records)
    PROVE  \A i \in DOMAIN o : o[i] \in Records /\ o[i].req \in Nat
<1>1. \A i \in DOMAIN o : o[i] \in Records
  OBVIOUS
<1>2. \A r \in Records : r.req \in Nat
  BY HttpConnAssumption DEF Records
<1> QED
  BY <1>1, <1>2

(* One record more: each of the others is of an earlier request, or of the *)
(* same one and does not clash with it.                                    *)
LEMMA OrderedMore ==
    ASSUME NEW o \in Seq(Records), NEW r \in Records, Ordered(o),
           \A i \in DOMAIN o :
              /\ r.req # 0 => o[i].req # 0 /\ o[i].req <= r.req
              /\ r.what = "head" /\ o[i].what = "head" => o[i].req # r.req \/ r.req = 0
              /\ r.what = "cont" => o[i].req # r.req
    PROVE  Ordered(o \o <<r>>)
<1> DEFINE n == o \o <<r>>
<1>1. /\ \A i \in DOMAIN o : n[i] = o[i]
      /\ n[Len(o) + 1] = r /\ DOMAIN o = 1 .. Len(o) /\ DOMAIN n = 1 .. Len(o) + 1
  BY Appended
<1>2. \A i \in DOMAIN o : o[i].req \in Nat
  BY Numbered
<1>3. r.req \in Nat
  BY HttpConnAssumption DEF Records
<1> HIDE DEF n
<1> SUFFICES ASSUME NEW i \in DOMAIN n, NEW j \in DOMAIN n, i < j
             PROVE  /\ n[i].what = "head" /\ n[j].what = "head" => n[i].req < n[j].req \/ n[j].req = 0
                    /\ n[i].req = 0 => n[j].req = 0
                    /\ n[j].what = "cont" => n[i].req # n[j].req
  BY DEF Ordered, n
<1>4. CASE j = Len(o) + 1
  <2>1. i \in DOMAIN o /\ n[i] = o[i] /\ n[j] = r
    BY <1>1, <1>4
  <2> QED
    BY <1>2, <1>3, <2>1
<1>5. CASE j # Len(o) + 1
  <2>1. i \in DOMAIN o /\ j \in DOMAIN o
    BY <1>1, <1>5
  <2> QED
    BY <1>1, <2>1 DEF Ordered
<1> QED
  BY <1>4, <1>5

(* Nothing is written, and nothing becomes unwritten.                      *)
LEMMA PastQuiet ==
    ASSUME NEW o, NEW c, NEW g, NEW p, NEW g2, NEW p2, Past(o, c, g, p), p # "removed",
           p2 # "removed" =>
              /\ g2.method /\ ~g2.sent => g.method /\ ~g.sent
              /\ g2.method /\ ~g2.sent /\ (g2.handler => g2.needCont) => (g.handler => g.needCont)
              /\ g.method /\ g.close => g2.method /\ g2.close
    PROVE  Past(o, c, g2, p2)
BY DEF Past

(* A request that has not come to its handler has nothing written yet.     *)
LEMMA PastFresh ==
    ASSUME NEW o, NEW c, NEW g, NEW p, NEW g2, NEW p2, Past(o, c, g, p), p # "removed",
           g.method, ~g.sent, ~g.handler
    PROVE  Past(o, c, g2, p2)
BY DEF Past

(* The next request begins.                                                *)
LEMMA PastNext ==
    ASSUME NEW o \in Seq(Records), NEW c \in Nat, NEW g, NEW p, NEW c2 \in Nat, NEW g2, NEW p2,
           Past(o, c, g, p), p # "removed", ~g.method, c < c2
    PROVE  Past(o, c2, g2, p2)
<1>1. \A i \in DOMAIN o : o[i].req \in Nat
  BY Numbered
<1> QED
  BY <1>1 DEF Past

LEMMA PastContinue ==
    ASSUME NEW o \in Seq(Records), NEW c \in Nat, NEW g, NEW p, NEW g2, NEW p2,
           Past(o, c, g, p), p # "removed", g.method, ~g.sent, g.handler => g.needCont,
           NEW r \in Records, r.req = c, r.what = "cont", c # 0,
           ~g2.needCont, g2.handler, g2.method, g.close => g2.close
    PROVE  Past(o \o <<r>>, c, g2, p2)
<1> DEFINE n == o \o <<r>>
<1>1. /\ \A i \in DOMAIN o : n[i] = o[i]
      /\ n[Len(o) + 1] = r /\ DOMAIN o = 1 .. Len(o) /\ DOMAIN n = 1 .. Len(o) + 1
  BY Appended
<1>2. Ordered(n)
  BY OrderedMore DEF Past
<1> HIDE DEF n
<1>3. \A i \in DOMAIN n : (i \in DOMAIN o /\ n[i] = o[i]) \/ n[i] = r
  BY <1>1
<1> QED
  BY <1>2, <1>3 DEF Past, n

(* A head: of request c, or of none when the connection ends with it.      *)
LEMMA PastHead ==
    ASSUME NEW o \in Seq(Records), NEW c \in Nat, NEW g, NEW p, NEW g2, NEW p2,
           Past(o, c, g, p), p # "removed", ~g.sent,
           NEW r \in Records, r.what = "head", r.req = IF g.method THEN c ELSE 0,
           p2 # "removed" => r.req # 0 /\ g2.sent /\ g2.method /\ (g.close \/ r.close => g2.close)
    PROVE  Past(o \o <<r>>, c, g2, p2)
<1> DEFINE n == o \o <<r>>
<1>1. /\ \A i \in DOMAIN o : n[i] = o[i]
      /\ n[Len(o) + 1] = r /\ DOMAIN o = 1 .. Len(o) /\ DOMAIN n = 1 .. Len(o) + 1
  BY Appended
<1>2. Ordered(n)
  BY OrderedMore DEF Past
<1> HIDE DEF n
<1>3. \A i \in DOMAIN n : (i \in DOMAIN o /\ n[i] = o[i]) \/ n[i] = r
  BY <1>1
<1>4. r.req <= c /\ (r.req # 0 => r.req = c)
  OBVIOUS
<1> QED
  BY <1>2, <1>3, <1>4 DEF Past, n

(* A part of a body, after the head.                                       *)
LEMMA PastBody ==
    ASSUME NEW o \in Seq(Records), NEW c \in Nat, NEW g, NEW p, NEW p2,
           Past(o, c, g, p),
           NEW r \in Records, r.what \in {"data", "end"},
           \/ r.req = c /\ c # 0 /\ g.sent /\ \A i \in DOMAIN o : o[i].req # 0
           \/ r.req = 0 /\ p = "removed",
           p = "removed" => p2 = "removed"
    PROVE  Past(o \o <<r>>, c, g, p2)
<1> DEFINE n == o \o <<r>>
<1>1. /\ \A i \in DOMAIN o : n[i] = o[i]
      /\ n[Len(o) + 1] = r /\ DOMAIN o = 1 .. Len(o) /\ DOMAIN n = 1 .. Len(o) + 1
  BY Appended
<1>2. Ordered(n)
  BY OrderedMore DEF Past
<1> HIDE DEF n
<1>3. \A i \in DOMAIN n : (i \in DOMAIN o /\ n[i] = o[i]) \/ n[i] = r
  BY <1>1
<1> QED
  BY <1>2, <1>3 DEF Past, n

-----------------------------------------------------------------------------
(* What the client has been told of request c, x says whether it expects   *)
(* 100 Continue: its header once it is sent or over, and 100 Continue or   *)
(* its header once its handler owes none any more.                         *)

Has(o, c, w) == \E i \in DOMAIN o : o[i].req = c /\ o[i].what = w

Told(o, c, g, p, x) == p # "removed" =>
    /\ c # 0 /\ (g.sent \/ ~g.method) => Has(o, c, "head")
    /\ x /\ g.handler /\ ~g.needCont => Has(o, c, "cont") \/ Has(o, c, "head")

LEMMA HasGrown ==
    ASSUME NEW o \in Seq(Records), NEW q \in Seq(Records), NEW c, NEW w, Has(o, c, w)
    PROVE  Has(o \o q, c, w)
<1>1. PICK i \in DOMAIN o : o[i].req = c /\ o[i].what = w
  BY DEF Has
<1>2. i \in DOMAIN (o \o q) /\ (o \o q)[i] = o[i]
  OBVIOUS
<1> QED
  BY <1>1, <1>2 DEF Has

LEMMA HasAdded ==
    ASSUME NEW o \in Seq(Records), NEW r \in Records
    PROVE  Has(o \o <<r>>, r.req, r.what)
<1>1. Len(o) + 1 \in DOMAIN (o \o <<r>>) /\ (o \o <<r>>)[Len(o) + 1] = r
  OBVIOUS
<1> QED
  BY <1>1 DEF Has

LEMMA ToldByHead ==
    ASSUME NEW o, NEW c, NEW g, NEW p, NEW x, Has(o, c, "head")
    PROVE  Told(o, c, g, p, x)
BY DEF Told

-----------------------------------------------------------------------------
(* The connection's thread *)

(* What the fields are at each place: a request that is handled has been   *)
(* read; between requests and in a header nothing has been sent; what has  *)
(* a header out owes no 100 Continue; only handlers make a connection wait *)
(* for anything but input.                                                 *)
Control(g, p, cm, rt, c) == p # "removed" =>
    /\ g.handler \/ g.sent => g.method
    /\ g.method => c # 0
    /\ g.sent => ~g.needCont
    /\ p \in {"header", "lines", "badversion"} => ~g.handler
    /\ p \in {"lines", "badversion"} => g.method
    /\ p \in {"header", "lines", "badversion", "loop", "parked"} /\ ~g.handler => ~g.sent
    /\ p \in {"handler", "reading", "probing"} => g.handler
    /\ p = "parked" /\ cm # "read" => g.handler
    /\ p = "drain" => g.sent /\ (rt = "handler" => g.handler)
    /\ p \in {"reading", "loop"} \/ (p = "parked" /\ cm = "read") => ~g.handler \/ ~g.needCont

Wires == out \in Seq(Records) /\ flushed \in 0 .. Len(out)
Thread == pc \in Places /\ cmd \in {"read", "write", "sleep"} /\ ret \in {"handler", "finish", "remove"}
Conn == /\ Sound(h) /\ Control(h, pc, cmd, ret, cur)
        /\ Wires /\ Thread
        /\ cur \in 0 .. NReq

(* A handler that sends 100 Continue or Connection: close by itself        *)
(* disturbs the order.                                                     *)
Orderly == Moves \cap {"cont", "connclose"} = {}

(* What each step keeps.                                                   *)
Kept == Conn' /\ (Orderly /\ Past(out, cur, h, pc) => Past(out', cur', h', pc'))
Informs == \A x \in BOOLEAN : Told(out, cur, h, pc, x) => Told(out', cur', h', pc', x)

LEMMA InformsByHead ==
    ASSUME Has(out', cur', "head")
    PROVE  Informs
BY ToldByHead DEF Informs

LEMMA InformsBySent ==
    ASSUME Conn, pc # "removed", h.sent, cur # 0, cur' = cur, NEW q \in Seq(Records), out' = out \o q
    PROVE  Informs
<1> SUFFICES ASSUME NEW x \in BOOLEAN, Told(out, cur, h, pc, x)
             PROVE  Told(out', cur', h', pc', x)
  BY DEF Informs
<1>1. Has(out, cur, "head") /\ out \in Seq(Records)
  BY DEF Told, Conn, Wires
<1>2. Has(out', cur', "head")
  BY <1>1, HasGrown
<1> QED
  BY <1>2, ToldByHead

LEMMA RecTyped ==
    ASSUME Conn, NEW w \in {"cont", "data", "end"}
    PROVE  /\ Rec(w) \in Records /\ Rec(w).what = w /\ Rec(w).req = (IF h.method THEN cur ELSE 0)
           /\ <<Rec(w)>> \in Seq(Records) /\ ~Rec(w).close
<1>1. Who \in 0 .. NReq
  BY HttpConnAssumption DEF Conn, Who
<1> QED
  BY <1>1 DEF Rec, Records, Who

LEMMA HeadTyped ==
    ASSUME Conn, NEW g, NEW v, v # "cont"
    PROVE  /\ HeadRec(g, v) \in Records /\ HeadRec(g, v).what = "head"
           /\ HeadRec(g, v).req = (IF h.method THEN cur ELSE 0)
           /\ HeadRec(g, v).close => v = "connclose" \/ g.close
           /\ <<HeadRec(g, v)>> \in Seq(Records)
<1> DEFINE f == IF v \in {"length", "switch"} THEN v
                ELSE IF g.chunked /\ ~g.close THEN "chunked" ELSE "eof"
           b == v = "connclose" \/ (g.close /\ v # "switch")
<1>1. Who \in 0 .. NReq
  BY HttpConnAssumption DEF Conn, Who
<1>2. HeadRec(g, v) = [req |-> Who, what |-> "head", framing |-> f, close |-> b]
  BY DEF HeadRec
<1>3. f \in {"none", "chunked", "length", "eof", "switch"}
  OBVIOUS
<1>4. b \in BOOLEAN /\ (b => v = "connclose" \/ g.close)
  OBVIOUS
<1> HIDE DEF f, b
<1> QED
  BY <1>1, <1>2, <1>3, <1>4 DEF Records, Who

LEMMA Emitted ==
    ASSUME Conn, NEW recs \in Seq(Records), Emit(recs) \/ EmitFlush(recs)
    PROVE  Wires' /\ out' = out \o recs
<1>1. /\ out \o recs \in Seq(Records) /\ Len(out) <= Len(out \o recs)
      /\ Len(out) \in Nat /\ Len(out \o recs) \in Nat /\ flushed \in 0 .. Len(out)
  BY DEF Conn, Wires
<1>2. CASE Emit(recs)
  <2>1. out' = out \o recs /\ flushed' = flushed
    BY <1>2 DEF Emit
  <2> QED
    BY <1>1, <2>1 DEF Wires
<1>3. CASE EmitFlush(recs)
  <2>1. out' = out \o recs /\ flushed' = Len(out')
    BY <1>3 DEF EmitFlush
  <2> QED
    BY <1>1, <2>1 DEF Wires
<1> QED
  BY <1>2, <1>3

(* The error page: its head and, but for HEAD, a body; nothing when a      *)
(* header is out.                                                          *)
LEMMA ErrorPageWritten ==
    ASSUME Conn, NEW g, Sound(g), g.method = h.method, h.method => cur # 0, NEW code,
           NEW e, e = ErrorPage(g, code)
    PROVE  /\ ErrorPageOut(g, code) \in Seq(Records)
           /\ \A p : pc # "removed" /\ Past(out, cur, g, pc) /\ (p = "removed" \/ h.method)
                  => Past(out \o ErrorPageOut(g, code), cur, e, p)
           /\ h.method /\ ~g.sent => Has(out \o ErrorPageOut(g, code), cur, "head")
<1>1. /\ Sound(e) /\ e.sent /\ e.method = g.method
      /\ g.close => e.close
      /\ g.sent \/ code # "empty" => e.close
  BY ErrorPageSound
<1>2. CASE g.sent
  <2>1. ErrorPageOut(g, code) = <<>> /\ out \o <<>> = out
    BY <1>2 DEF ErrorPageOut, Conn, Wires
  <2> QED
    BY <1>1, <1>2, <2>1, PastQuiet
<1> SUFFICES ASSUME ~g.sent
             PROVE  /\ ErrorPageOut(g, code) \in Seq(Records)
                    /\ \A p : pc # "removed" /\ Past(out, cur, g, pc) /\ (p = "removed" \/ h.method)
                           => Past(out \o ErrorPageOut(g, code), cur, e, p)
                    /\ h.method => Has(out \o ErrorPageOut(g, code), cur, "head")
  BY <1>2
<1>3. out \in Seq(Records) /\ cur \in Nat
  BY HttpConnAssumption DEF Conn, Wires
<1>4. CASE code = "empty"
  <2> DEFINE r == HeadRec(g, "length")
  <2>1. /\ r \in Records /\ r.what = "head" /\ r.req = (IF g.method THEN cur ELSE 0)
        /\ r.close => g.close
        /\ ErrorPageOut(g, code) = <<r>> /\ <<r>> \in Seq(Records)
    BY <1>4, HeadTyped DEF ErrorPageOut
  <2> HIDE DEF r
  <2>2. h.method => Has(out \o <<r>>, cur, "head")
    BY <1>3, <2>1, HasAdded
  <2> QED
    BY <1>1, <1>3, <2>1, <2>2, PastHead
<1>5. CASE code # "empty"
  <2> DEFINE r == HeadRec([g EXCEPT !.close = TRUE], "plain")
             o == out \o <<r>>
  <2>1. /\ r \in Records /\ r.what = "head" /\ r.req = (IF g.method THEN cur ELSE 0)
        /\ <<r>> \in Seq(Records)
    BY HeadTyped
  <2>2. ErrorPageOut(g, code) = <<r>> \o Data(g)
    BY <1>5 DEF ErrorPageOut
  <2> HIDE DEF r
  <2>3. \A p : pc # "removed" /\ Past(out, cur, g, pc) /\ (p = "removed" \/ h.method) => Past(o, cur, e, p)
    BY <1>1, <1>3, <1>5, <2>1, PastHead
  <2>6. h.method => Has(o, cur, "head")
    BY <1>3, <2>1, HasAdded
  <2>4. CASE Data(g) = <<>>
    <3>1. ErrorPageOut(g, code) = <<r>>
      BY <2>1, <2>2, <2>4
    <3> QED
      BY <2>1, <2>3, <2>6, <3>1
  <2>5. CASE Data(g) # <<>>
    <3> DEFINE d == Rec("data")
    <3>1. /\ d \in Records /\ d.what = "data" /\ d.req = (IF g.method THEN cur ELSE 0) /\ <<d>> \in Seq(Records)
      BY RecTyped
    <3>2. ErrorPageOut(g, code) = <<r>> \o <<d>>
      BY <2>2, <2>5 DEF Data
    <3> HIDE DEF d
    <3>3. out \o ErrorPageOut(g, code) = o \o <<d>> /\ o \in Seq(Records) /\ ErrorPageOut(g, code) \in Seq(Records)
      BY <1>3, <2>1, <3>1, <3>2
    <3> HIDE DEF o
    <3>5. h.method => Has(o \o <<d>>, cur, "head")
      BY <2>6, <3>1, <3>3, HasGrown
    <3>4. ASSUME NEW p, pc # "removed", Past(out, cur, g, pc), p = "removed" \/ h.method
          PROVE  Past(o \o <<d>>, cur, e, p)
      <4>1. CASE h.method
        <5>1. Past(o, cur, e, pc)
          BY <2>3, <3>4, <4>1
        <5>2. \A i \in DOMAIN o : o[i].req # 0
          BY <3>4, <5>1 DEF Past
        <5> QED
          BY <1>1, <1>3, <3>1, <3>3, <3>4, <4>1, <5>1, <5>2, PastBody
      <4>2. CASE ~h.method
        <5>1. p = "removed" /\ d.req = 0 /\ Past(o, cur, e, p)
          BY <2>3, <3>1, <3>4, <4>2
        <5> QED
          BY <1>3, <3>1, <3>3, <5>1, PastBody
      <4> QED
        BY <4>1, <4>2
    <3> QED
      BY <3>3, <3>4, <3>5
  <2> QED
    BY <2>4, <2>5
<1> QED
  BY <1>4, <1>5

(* finish() of a response whose header is out.                             *)
LEMMA FinishKept ==
    ASSUME Conn, NEW g, Sound(g), g.sent, g.method, ~g.needCont, cur # 0,
           NEW recs \in Seq(Records), Finish(g, recs), cur' = cur
    PROVE  /\ Conn' /\ out' = out \o recs
           /\ Past(out \o recs, cur, g, "handler") => Past(out', cur', h', pc')
<1>1. Emit(recs) \/ EmitFlush(recs)
  BY DEF Finish, Remove
<1>2. Wires' /\ out' = out \o recs
  BY <1>1, Emitted
<1>3. CASE ~g.outClosed
  <2>1. h' = g /\ pc' = "drain" /\ ret' = "finish" /\ cmd' = cmd
    BY <1>3 DEF Finish, Drain
  <2>2. Conn'
    BY <1>2, <2>1 DEF Conn, Control, Thread, Places
  <2> QED
    BY <1>2, <2>1, <2>2, PastQuiet
<1>4. CASE g.outClosed
  <2>1. h' = Clear(g) /\ cmd' = cmd /\ ret' = ret
    BY <1>4 DEF Finish, Remove, Goto
  <2>2. Sound(h') /\ ~h'.method /\ ~h'.handler /\ ~h'.sent
    BY <2>1, ClearSound
  <2>3. \/ g.close /\ pc' = "removed"
        \/ ~g.close /\ pc' = "loop"
    BY <1>4 DEF Finish, Remove, Goto
  <2>4. Conn'
    BY <1>2, <2>1, <2>2, <2>3 DEF Conn, Control, Thread, Places
  <2> QED
    BY <1>2, <2>2, <2>3, <2>4, PastQuiet
<1> QED
  BY <1>3, <1>4

(* errorPageKA() *)
LEMMA ErrorPageKAKept ==
    ASSUME Conn, pc # "removed", NEW g, Sound(g), g.method, h.method, cur # 0, g.sent => ~g.needCont,
           NEW code, ErrorPageKA(g, code), cur' = cur
    PROVE  /\ Conn' /\ (~g.sent => Has(out', cur, "head"))
           /\ Past(out, cur, g, pc) => Past(out', cur', h', pc')
<1> DEFINE e == ErrorPage(g, code)
           o == ErrorPageOut(g, code)
<1>1. /\ Sound(e) /\ e.sent /\ ~e.needCont /\ e.method
  BY ErrorPageSound
<1>2. /\ o \in Seq(Records) /\ (~g.sent => Has(out \o o, cur, "head"))
      /\ Past(out, cur, g, pc) => Past(out \o o, cur, e, "drain") /\ Past(out \o o, cur, e, "removed")
  BY ErrorPageWritten
<1>3. Emit(o) \/ EmitFlush(o)
  BY DEF ErrorPageKA, Remove
<1>4. h' = (IF g.outClosed THEN Clear(e) ELSE e)
  BY DEF ErrorPageKA
<1>5. /\ cmd' = cmd /\ ret' \in {ret, "remove"}
      /\ \/ g.outClosed /\ pc' = "removed"
         \/ ~g.outClosed /\ pc' = "drain" /\ ret' = "remove"
  BY DEF ErrorPageKA, Remove, Goto, Drain
<1> HIDE DEF e, o
<1>6. Wires' /\ out' = out \o o
  BY <1>2, <1>3, Emitted
<1>7. CASE g.outClosed
  <2>1. Sound(h') /\ pc' = "removed"
    BY <1>1, <1>4, <1>5, <1>7, ClearSound
  <2>2. Conn'
    BY <1>5, <1>6, <2>1 DEF Conn, Control, Thread, Places
  <2>3. ASSUME Past(out, cur, g, pc) PROVE Past(out', cur', h', pc')
    BY <1>2, <1>6, <2>1, <2>3 DEF Past
  <2> QED
    BY <1>2, <1>6, <2>2, <2>3
<1>8. CASE ~g.outClosed
  <2>1. h' = e /\ pc' = "drain" /\ ret' = "remove"
    BY <1>4, <1>5, <1>8
  <2>2. Conn'
    BY <1>1, <1>5, <1>6, <2>1 DEF Conn, Control, Thread, Places
  <2> QED
    BY <1>2, <1>6, <2>1, <2>2
<1> QED
  BY <1>7, <1>8

(* A page is written and the connection removed.                           *)
LEMMA PageAndGone ==
    ASSUME Conn, pc # "removed", NEW g, Sound(g), g.method = h.method, h.method => cur # 0,
           h' = ErrorPage(g, "page"), Remove(ErrorPageOut(g, "page")), cur' = cur
    PROVE  Conn' /\ pc' = "removed" /\ (Past(out, cur, g, pc) => Past(out', cur', h', pc'))
<1> DEFINE o == ErrorPageOut(g, "page")
<1>1. Sound(h')
  BY ErrorPageSound
<1>2. o \in Seq(Records) /\ (Past(out, cur, g, pc) => Past(out \o o, cur, h', "removed"))
  BY ErrorPageWritten
<1>3. EmitFlush(o) /\ pc' = "removed" /\ cmd' = cmd /\ ret' = ret
  BY DEF Remove, Goto
<1> HIDE DEF o
<1>4. Wires' /\ out' = out \o o
  BY <1>2, <1>3, Emitted
<1> QED
  BY <1>1, <1>2, <1>3, <1>4 DEF Conn, Control, Thread, Places

LEMMA ThrowKept ==
    ASSUME Conn, pc # "removed", Throw(h), cur' = cur
    PROVE  Kept /\ Informs
<1> DEFINE u == UseHTTP11(h, FALSE)
<1>1. /\ Sound(u) /\ u.close /\ u.needCont = h.needCont /\ u.method = h.method
      /\ u.handler = h.handler /\ u.sent = h.sent
  BY UseHTTP11Sound DEF Conn
<1>2. h' = ErrorPage(u, "page") /\ Remove(ErrorPageOut(u, "page"))
  BY DEF Throw
<1> HIDE DEF u
<1>3. h.method => cur # 0
  BY DEF Conn, Control
<1>4. Conn' /\ pc' = "removed" /\ (Past(out, cur, u, pc) => Past(out', cur', h', pc'))
  BY <1>1, <1>2, <1>3, PageAndGone
<1>5. Past(out, cur, h, pc) => Past(out, cur, u, pc)
  BY <1>1, PastQuiet
<1> QED
  BY <1>4, <1>5 DEF Kept, Informs, Told

(* What writes nothing.                                                    *)
LEMMA NothingWritten ==
    ASSUME Conn, Emit(<<>>) \/ EmitFlush(<<>>) \/ UNCHANGED <<out, flushed>>
    PROVE  Wires' /\ out' = out /\ <<>> \in Seq(Records)
<1>1. <<>> \in Seq(Records) /\ out \o <<>> = out
  BY DEF Conn, Wires
<1>2. CASE Emit(<<>>) \/ EmitFlush(<<>>)
  BY <1>1, <1>2, Emitted
<1>3. CASE UNCHANGED <<out, flushed>>
  BY <1>1, <1>3 DEF Conn, Wires
<1> QED
  BY <1>2, <1>3

LEMMA QuietKept ==
    ASSUME Conn, pc # "removed", cur' = cur, Wires', out' = out, Thread', Sound(h'),
           Control(h', pc', cmd', ret', cur),
           h'.method = h.method, h'.handler = h.handler, h'.sent = h.sent,
           h'.needCont = h.needCont, h'.close = h.close
    PROVE  Kept /\ Informs
<1>1. Conn'
  BY DEF Conn
<1>2. Past(out, cur, h, pc) => Past(out, cur, h', pc')
  BY PastQuiet
<1>3. Informs
  BY DEF Informs, Told
<1> QED
  BY <1>1, <1>2, <1>3 DEF Kept

-----------------------------------------------------------------------------
(* The steps of the server *)

LEMMA EventKept ==
    ASSUME Conn, EventLoop \/ Timeout
    PROVE  Kept /\ Informs
<1>1. pc \in {"parked", "loop"} /\ cur' = cur
  BY DEF EventLoop, DataReady, LoopAgain, LoopEnds, WriteReady, WakeUp, Timeout, histVars
<1>2. Sound(h) /\ Control(h, pc, cmd, ret, cur) /\ Thread
  BY DEF Conn
<1>3. ASSUME NEW e \in {"request", "data", "write", "wakeup"}, NEW b \in BOOLEAN,
             NEW g, g = [h EXCEPT !.ev = e, !.again = b]
      PROVE  /\ Sound(g) /\ g.method = h.method /\ g.handler = h.handler /\ g.sent = h.sent
             /\ g.needCont = h.needCont /\ g.close = h.close
  BY <1>2, <1>3 DEF Sound, Fields
<1>4. ASSUME NEW g, g = [h EXCEPT !.ev = "request"]
      PROVE  /\ Sound(g) /\ g.method = h.method /\ g.handler = h.handler /\ g.sent = h.sent
             /\ g.needCont = h.needCont /\ g.close = h.close
  BY <1>2, <1>4 DEF Sound, Fields
<1>6. CASE DataReady \/ LoopAgain
  <2>1. DataEvent /\ UNCHANGED <<out, flushed>>
    BY <1>6 DEF DataReady, LoopAgain
  <2>2. Wires' /\ out' = out
    BY <2>1, NothingWritten
  <2>3. cmd = "read" \/ pc = "loop"
    BY <1>6 DEF DataReady, LoopAgain
  <2>4. CASE h.handler
    <3>1. h' = [h EXCEPT !.ev = "data", !.again = FALSE] /\ pc' = "handler" /\ cmd' = cmd /\ ret' = ret
      BY <2>1, <2>4 DEF DataEvent, Activate, Goto
    <3>2. /\ Sound(h') /\ h'.method = h.method /\ h'.handler = h.handler /\ h'.sent = h.sent
          /\ h'.needCont = h.needCont /\ h'.close = h.close
      BY <1>3, <3>1
    <3>3. Thread' /\ Control(h', pc', cmd', ret', cur)
      BY <1>1, <1>2, <2>4, <3>1, <3>2 DEF Thread, Control, Places
    <3> QED
      BY <1>1, <2>2, <3>2, <3>3, QuietKept
  <2>5. CASE ~h.handler
    <3>1. h' = [h EXCEPT !.ev = "request"] /\ pc' = "header" /\ cmd' = cmd /\ ret' = ret
      BY <2>1, <2>5 DEF DataEvent, Goto
    <3>2. /\ Sound(h') /\ h'.method = h.method /\ h'.handler = h.handler /\ h'.sent = h.sent
          /\ h'.needCont = h.needCont /\ h'.close = h.close
      BY <1>4, <3>1
    <3>3. Thread' /\ Control(h', pc', cmd', ret', cur)
      BY <1>1, <1>2, <2>5, <3>1, <3>2 DEF Thread, Control, Places
    <3> QED
      BY <1>1, <2>2, <3>2, <3>3, QuietKept
  <2> QED
    BY <2>4, <2>5
<1>7. CASE LoopEnds \/ Timeout
  <2>1. (EmitFlush(<<>>) \/ UNCHANGED <<out, flushed>>) /\ h' = h
    BY <1>7 DEF LoopEnds, Timeout, Remove
  <2>2. Wires' /\ out' = out
    BY <2>1, NothingWritten
  <2>3. \/ pc = "loop" /\ pc' = "parked" /\ cmd' = "read" /\ ret' = ret
        \/ pc' = "removed" /\ cmd' = cmd /\ ret' = ret
    BY <1>7 DEF LoopEnds, Timeout, Park, Remove, Goto
  <2>4. Thread' /\ Control(h', pc', cmd', ret', cur)
    BY <1>2, <2>1, <2>3 DEF Thread, Control, Places
  <2> QED
    BY <1>1, <1>2, <2>1, <2>2, <2>4, QuietKept
<1>8. CASE WriteReady \/ WakeUp
  <2>1. \E e \in {"write", "wakeup"} : h' = [h EXCEPT !.ev = e, !.again = FALSE]
    BY <1>8 DEF WriteReady, WakeUp, Activate
  <2>2. /\ Sound(h') /\ h'.method = h.method /\ h'.handler = h.handler /\ h'.sent = h.sent
        /\ h'.needCont = h.needCont /\ h'.close = h.close
    BY <1>3, <2>1
  <2>3. pc = "parked" /\ cmd # "read" /\ pc' = "handler" /\ cmd' = cmd /\ ret' = ret
    BY <1>8 DEF WriteReady, WakeUp, Activate, Goto
  <2>4. Wires' /\ out' = out
    BY <1>8, NothingWritten DEF WriteReady, WakeUp
  <2>5. Thread' /\ Control(h', pc', cmd', ret', cur)
    BY <1>2, <2>2, <2>3 DEF Thread, Control, Places
  <2> QED
    BY <1>1, <2>2, <2>3, <2>4, <2>5, QuietKept
<1> QED
  BY <1>6, <1>7, <1>8 DEF EventLoop

LEMMA RequestLineKept ==
    ASSUME Conn, RequestLine, Head(in).req \in 1 .. NReq, cur < Head(in).req
    PROVE  Kept /\ \A x : Told(out', cur', h', pc', x)
<1>1. /\ pc = "header" /\ ~h.method /\ cur' = Head(in).req /\ cur' \in Nat /\ cur' \in 0 .. NReq
      /\ cur' # 0 /\ out' = out /\ flushed' = flushed /\ cmd' = cmd /\ ret' = ret
  BY HttpConnAssumption DEF RequestLine, Goto
<1>2. Sound(h) /\ Control(h, pc, cmd, ret, cur) /\ Thread /\ Wires /\ cur \in Nat
  BY HttpConnAssumption DEF Conn
<1> DEFINE g == [h EXCEPT !.method = TRUE]
           b == kinds[Head(in).req].minor = 1
<1>3. /\ Sound(g) /\ g.method /\ g.handler = h.handler /\ g.sent = h.sent
  BY <1>2 DEF Sound, Fields
<1>4. \/ h' = g /\ pc' = "badversion"
      \/ h' = UseHTTP11(g, b) /\ pc' = "lines"
  BY DEF RequestLine, Goto
<1>5. b \in BOOLEAN
  OBVIOUS
<1> HIDE DEF g, b
<1>6. Sound(h') /\ h'.method /\ h'.handler = h.handler /\ h'.sent = h.sent
  BY <1>3, <1>4, <1>5, UseHTTP11Sound
<1>7. ~h.handler /\ ~h.sent
  BY <1>1, <1>2 DEF Control
<1>8. Conn'
  BY <1>1, <1>2, <1>4, <1>6, <1>7 DEF Conn, Control, Thread, Wires, Places
<1>9. Past(out, cur, h, pc) => Past(out, cur', h', pc')
  BY <1>1, <1>2, PastNext DEF Wires
<1> QED
  BY <1>1, <1>6, <1>7, <1>8, <1>9 DEF Kept, Told

LEMMA BadVersionKept ==
    ASSUME Conn, BadVersion
    PROVE  Kept /\ Informs
<1>1. pc = "badversion" /\ ErrorPageKA(h, "page") /\ cur' = cur
  BY DEF BadVersion, histVars
<1>2. Sound(h) /\ h.method /\ cur # 0 /\ ~h.sent
  BY <1>1 DEF Conn, Control
<1>3. Has(out', cur, "head")
  BY <1>1, <1>2, ErrorPageKAKept
<1> QED
  BY <1>1, <1>2, <1>3, ErrorPageKAKept, ToldByHead DEF Kept, Informs

LEMMA NoHeaderKept ==
    ASSUME Conn, GarbageLine \/ HeaderEof \/ HeaderIncomplete
    PROVE  Kept /\ Informs
<1>1. Sound(h) /\ Control(h, pc, cmd, ret, cur) /\ Thread /\ (pc # "removed" /\ h.method => cur # 0)
  BY DEF Conn, Control
<1>2. CASE GarbageLine \/ HeaderEof
  <2>1. pc = "header" /\ h' = ErrorPage(h, "page") /\ Remove(ErrorPageOut(h, "page")) /\ cur' = cur
    BY <1>2 DEF GarbageLine, HeaderEof, histVars
  <2> QED
    BY <1>1, <2>1, PageAndGone DEF Kept, Informs, Told
<1>3. CASE HeaderIncomplete
  <2>1. pc = "lines" /\ pc' = "loop" /\ cmd' = cmd /\ ret' = ret /\ h' = h /\ cur' = cur
        /\ UNCHANGED <<out, flushed>>
    BY <1>3 DEF HeaderIncomplete, Goto, histVars
  <2>2. Wires' /\ out' = out
    BY <2>1, NothingWritten
  <2>3. Thread' /\ Control(h', pc', cmd', ret', cur)
    BY <1>1, <2>1 DEF Thread, Control, Places
  <2> QED
    BY <1>1, <2>1, <2>2, <2>3, QuietKept
<1> QED
  BY <1>2, <1>3

LEMMA HeaderCompleteKept ==
    ASSUME Conn, HeaderComplete, h.method => cur \in DOMAIN kinds, kinds \in Seq(Kinds)
    PROVE  Kept /\ Told(out', cur', h', pc', kinds[cur].expect = "100")
<1> DEFINE k == kinds[cur]
           g == [h EXCEPT !.outClosed = FALSE, !.inClosed = FALSE,
                          !.head = k.head,
                          !.close = (k.minor = 0 \/ k.close),
                          !.remain = IF k.body = "len" THEN 2 ELSE 0,
                          !.chunkedPost = (k.body = "chunked"),
                          !.needCont = IF k.expect = "other" THEN @ ELSE k.expect = "100"]
           d == [g EXCEPT !.handler = TRUE, !.ev = "request", !.again = FALSE]
<1>1. pc \in {"header", "lines"} /\ h.method /\ cur' = cur
  BY DEF HeaderComplete
<1>2. Sound(h) /\ Control(h, pc, cmd, ret, cur) /\ Thread /\ cur # 0 /\ ~h.sent /\ ~h.handler
  BY <1>1 DEF Conn, Control
<1>3. k \in KindType
  BY <1>1, HttpConnAssumption
<1>4. \/ ErrorPageKA(g, "page")
      \/ Finish(HeadSent(g, "length"), <<HeadRec(g, "length")>>)
      \/ h' = d /\ Emit(<<>>) /\ Goto("handler")
  BY DEF HeaderComplete
<1> HIDE DEF k
<1>5. k.head \in BOOLEAN /\ k.close \in BOOLEAN
  BY <1>3 DEF KindType
<1>6. Sound(g) /\ g.method /\ ~g.sent /\ ~g.handler /\ (k.expect = "100" => g.needCont)
  <2> DEFINE c == k.minor = 0 \/ k.close
             m == IF k.body = "len" THEN 2 ELSE 0
             p == k.body = "chunked"
             n == IF k.expect = "other" THEN h.needCont ELSE k.expect = "100"
  <2>1. c \in BOOLEAN /\ m \in {0, 2} /\ p \in BOOLEAN
    OBVIOUS
  <2>2. n \in BOOLEAN
    BY <1>2 DEF Sound, Fields
  <2>3. g = [h EXCEPT !.outClosed = FALSE, !.inClosed = FALSE, !.head = k.head, !.close = c,
                      !.remain = m, !.chunkedPost = p, !.needCont = n]
    OBVIOUS
  <2> HIDE DEF g, c, m, p, n
  <2> QED
    <3>1. h \in Fields
      BY <1>2 DEF Sound
    <3>2. /\ g.method = h.method /\ g.handler = h.handler /\ g.sent = h.sent /\ g.remain = m
          /\ g.switched = h.switched /\ g.needCont = n
      BY <2>3, <3>1 DEF Fields
    <3>4. k.expect = "100" => n
      BY DEF n
    <3>3. g \in Fields
      <4> DEFINE g1 == [h EXCEPT !.outClosed = FALSE, !.inClosed = FALSE, !.head = k.head]
                 g2 == [g1 EXCEPT !.close = c, !.remain = m]
                 g3 == [g2 EXCEPT !.chunkedPost = p, !.needCont = n]
      <4>1. g1 \in Fields
        BY <1>5, <3>1 DEF Fields
      <4>2. g = g3
        BY <2>3, <3>1 DEF Fields
      <4> HIDE DEF g1
      <4>3. g2 \in Fields
        BY <2>1, <4>1 DEF Fields
      <4> HIDE DEF g2
      <4>4. g3 \in Fields
        BY <2>1, <2>2, <4>3 DEF Fields
      <4> QED
        BY <4>2, <4>4
    <3> QED
      BY <1>1, <1>2, <2>1, <3>2, <3>3, <3>4 DEF Sound, All
<1> HIDE DEF g
<1>7. Past(out, cur, h, pc) => Past(out, cur, g, "handler") /\ Past(out, cur, g, pc)
  BY <1>1, <1>2, PastFresh
<1>8. CASE ErrorPageKA(g, "page")
  <2>1. Kept /\ Has(out', cur', "head")
    BY <1>1, <1>2, <1>6, <1>7, <1>8, ErrorPageKAKept DEF Kept
  <2> QED
    BY <2>1, ToldByHead DEF k
<1>9. CASE Finish(HeadSent(g, "length"), <<HeadRec(g, "length")>>)
  <2> DEFINE e == HeadSent(g, "length")
             r == HeadRec(g, "length")
  <2>1. Sound(e) /\ ~e.needCont /\ e.method /\ e.sent /\ e.close = g.close
    BY <1>6, HeadSentSound
  <2>2. /\ r \in Records /\ r.what = "head" /\ r.req = cur /\ (r.close => g.close)
        /\ <<r>> \in Seq(Records)
    BY <1>1, HeadTyped
  <2> HIDE DEF e, r
  <2>3. out \in Seq(Records) /\ cur \in Nat
    BY HttpConnAssumption DEF Conn, Wires
  <2>4. Past(out, cur, g, pc) => Past(out \o <<r>>, cur, e, "handler")
    BY <1>1, <1>2, <1>6, <2>1, <2>2, <2>3, PastHead
  <2>5. Finish(e, <<r>>)
    BY <1>9 DEF e, r
  <2>6. /\ Conn' /\ (Past(out \o <<r>>, cur, e, "handler") => Past(out', cur', h', pc'))
        /\ out' = out \o <<r>>
    BY <1>1, <1>2, <2>1, <2>2, <2>5, FinishKept
  <2>7. Has(out', cur', "head")
    BY <1>1, <2>2, <2>3, <2>6, HasAdded
  <2> QED
    BY <1>7, <2>4, <2>6, <2>7, ToldByHead DEF Kept, k
<1>10. CASE h' = d /\ Emit(<<>>) /\ Goto("handler")
  <2>1. Sound(h') /\ h'.method /\ ~h'.sent /\ h'.handler /\ h'.needCont = g.needCont
    BY <1>6, <1>10 DEF Sound, Fields
  <2>2. pc' = "handler" /\ cmd' = cmd /\ ret' = ret
    BY <1>10 DEF Goto
  <2>3. Wires' /\ out' = out
    BY <1>10, NothingWritten
  <2>4. Conn'
    BY <1>1, <1>2, <2>1, <2>2, <2>3 DEF Conn, Control, Thread, Places
  <2>5. Past(out, cur, h, pc) => Past(out, cur, h', pc')
    BY <1>1, <1>2, PastFresh
  <2>6. Told(out', cur', h', pc', k.expect = "100")
    BY <1>6, <2>1 DEF Told
  <2> QED
    BY <1>1, <2>3, <2>4, <2>5, <2>6 DEF Kept, k
<1> QED
  BY <1>4, <1>8, <1>9, <1>10 DEF k

LEMMA HandlerFacts ==
    ASSUME Conn, pc = "handler"
    PROVE  /\ Sound(h) /\ Control(h, pc, cmd, ret, cur) /\ Thread /\ Wires
           /\ h.handler /\ h.method /\ cur # 0 /\ (h.sent => ~h.needCont)
           /\ out \in Seq(Records) /\ cur \in Nat
BY HttpConnAssumption DEF Conn, Control, Wires

(* 100 Continue, if it is owed. *)
LEMMA ContinueKept ==
    ASSUME Conn, pc = "handler", ~h.sent, NEW g, g = [h EXCEPT !.needCont = FALSE]
    PROVE  /\ Sound(g) /\ g.method /\ g.handler /\ ~g.sent /\ ~g.needCont /\ g.close = h.close
           /\ (IF h.needCont THEN Continue ELSE <<>>) \in Seq(Records)
           /\ Past(out, cur, h, pc) =>
                Past(out \o (IF h.needCont THEN Continue ELSE <<>>), cur, g, "handler")
           /\ \A x : Told(out, cur, h, pc, x) =>
                Told(out \o (IF h.needCont THEN Continue ELSE <<>>), cur, g, "handler", x)
<1>1. /\ Sound(h) /\ h.handler /\ h.method /\ cur # 0 /\ out \in Seq(Records) /\ cur \in Nat
  BY HandlerFacts
<1>2. Sound(g) /\ g.method /\ g.handler /\ ~g.sent /\ ~g.needCont /\ g.close = h.close
  BY <1>1 DEF Sound, Fields
<1> DEFINE r == Rec("cont")
<1>3. r \in Records /\ r.what = "cont" /\ r.req = cur /\ <<r>> \in Seq(Records) /\ Continue = <<r>>
  BY <1>1, RecTyped DEF Continue
<1> HIDE DEF r
<1>4. CASE h.needCont
  <2>1. Past(out, cur, h, pc) => Past(out \o <<r>>, cur, g, "handler")
    BY <1>1, <1>2, <1>3, <1>4, PastContinue
  <2>2. Has(out \o <<r>>, cur, "cont")
    BY <1>1, <1>3, HasAdded
  <2>3. \A x : Told(out \o <<r>>, cur, g, "handler", x)
    BY <1>2, <2>2 DEF Told
  <2> QED
    BY <1>2, <1>3, <1>4, <2>1, <2>3
<1>5. CASE ~h.needCont
  <2>1. out \o <<>> = out /\ <<>> \in Seq(Records)
    BY <1>1
  <2>2. Past(out, cur, h, pc) => Past(out, cur, g, "handler")
    BY <1>1, <1>2, <1>5, PastQuiet
  <2>3. \A x : Told(out, cur, h, pc, x) => Told(out, cur, g, "handler", x)
    BY <1>1, <1>2, <1>5 DEF Told
  <2> QED
    BY <1>2, <1>5, <2>1, <2>2, <2>3
<1> QED
  BY <1>4, <1>5

LEMMA HandlerReadsKept ==
    ASSUME Conn, HandlerReads
    PROVE  Kept /\ Informs
<1> DEFINE recs == IF h.needCont THEN Continue ELSE <<>>
<1>1. /\ pc = "handler" /\ h' = [h EXCEPT !.needCont = FALSE] /\ Emit(recs) /\ cur' = cur
      /\ pc' = "reading" /\ cmd' = cmd /\ ret' = ret
  BY DEF HandlerReads, Move, Goto, HandlerOnly
<1>2. /\ Sound(h) /\ Thread /\ h.handler /\ h.method /\ cur # 0 /\ (h.sent => ~h.needCont)
      /\ cur \in 0 .. NReq
  BY <1>1, HandlerFacts DEF Conn
<1>3. CASE ~h.sent
  <2>1. /\ Sound(h') /\ h'.method /\ h'.handler /\ ~h'.sent /\ ~h'.needCont
        /\ recs \in Seq(Records)
        /\ Past(out, cur, h, pc) => Past(out \o recs, cur, h', "handler")
        /\ \A x : Told(out, cur, h, pc, x) => Told(out \o recs, cur, h', "handler", x)
    BY <1>1, <1>3, ContinueKept
  <2> HIDE DEF recs
  <2>2. Wires' /\ out' = out \o recs
    BY <1>1, <2>1, Emitted
  <2>3. Conn'
    BY <1>1, <1>2, <2>1, <2>2 DEF Conn, Control, Thread, Places
  <2>4. Past(out', cur, h', "handler") => Past(out', cur, h', pc')
    BY <1>1, PastQuiet
  <2>5. Informs
    BY <1>1, <2>1, <2>2 DEF Informs, Told
  <2> QED
    BY <1>1, <2>1, <2>2, <2>3, <2>4, <2>5 DEF Kept
<1>4. CASE h.sent
  <2>1. recs = <<>>
    BY <1>2, <1>4
  <2> HIDE DEF recs
  <2>2. Wires' /\ out' = out
    BY <1>1, <2>1, NothingWritten
  <2>3. /\ Sound(h') /\ h'.method = h.method /\ h'.handler = h.handler /\ h'.sent = h.sent
        /\ h'.needCont = h.needCont /\ h'.close = h.close
    BY <1>1, <1>2, <1>4 DEF Sound, Fields
  <2>4. Thread' /\ Control(h', pc', cmd', ret', cur)
    BY <1>1, <1>2, <2>3 DEF Thread, Control, Places
  <2> QED
    BY <1>1, <2>2, <2>3, <2>4, QuietKept
<1> QED
  BY <1>3, <1>4

(* A handler's head. *)
LEMMA HeadKept ==
    ASSUME Conn, pc = "handler", ~h.sent, NEW v, v # "cont", NEW g, g = HeadSent(h, v),
           NEW r, r = HeadRec(h, v)
    PROVE  /\ Sound(g) /\ ~g.needCont /\ g.method /\ g.handler /\ g.sent
           /\ <<r>> \in Seq(Records) /\ r \in Records /\ Has(out \o <<r>>, cur, "head")
           /\ v # "connclose" /\ Past(out, cur, h, pc) => Past(out \o <<r>>, cur, g, "handler")
<1>1. /\ Sound(h) /\ h.handler /\ h.method /\ cur # 0 /\ out \in Seq(Records) /\ cur \in Nat
  BY HandlerFacts
<1>2. Sound(g) /\ ~g.needCont /\ g.method /\ g.handler /\ g.sent /\ g.close = h.close
  BY <1>1, HeadSentSound
<1>3. /\ r \in Records /\ r.what = "head" /\ r.req = cur /\ <<r>> \in Seq(Records)
      /\ r.close => v = "connclose" \/ h.close
  BY <1>1, HeadTyped
<1>4. ASSUME v # "connclose", Past(out, cur, h, pc) PROVE Past(out \o <<r>>, cur, g, "handler")
  BY <1>1, <1>2, <1>3, <1>4, PastHead
<1>5. Has(out \o <<r>>, cur, "head")
  BY <1>1, <1>3, HasAdded
<1> QED
  BY <1>2, <1>3, <1>4, <1>5

LEMMA HandlerSendsHeadKept ==
    ASSUME Conn, HandlerSendsHead
    PROVE  Kept /\ Informs
<1>1. PICK v \in {"plain", "length", "connclose", "cont", "switch"} :
         Move(v) /\ ~h.sent /\ h' = HeadSent(h, v) /\ Emit(<<HeadRec(h, v)>>)
  BY DEF HandlerSendsHead
<1>2. pc = "handler" /\ v \in Moves /\ pc' = "handler" /\ cmd' = cmd /\ ret' = ret /\ cur' = cur
  BY <1>1 DEF HandlerSendsHead, Move, Goto, HandlerOnly
<1>3. Sound(h) /\ Thread /\ h.handler /\ h.method /\ cur # 0 /\ cur \in 0 .. NReq
  BY <1>2, HandlerFacts DEF Conn
<1>4. CASE v = "cont"
  <2>1. Sound(h') /\ ~h'.needCont /\ h'.method /\ h'.handler /\ ~h'.sent
    BY <1>1, <1>3, <1>4, HeadSentSound
  <2>2. /\ <<Rec("cont")>> \in Seq(Records) /\ Rec("cont") \in Records
        /\ Rec("cont").req = cur /\ Rec("cont").what = "cont" /\ HeadRec(h, v) = Rec("cont")
    BY <1>3, <1>4, RecTyped DEF HeadRec
  <2>3. Wires' /\ out' = out \o <<Rec("cont")>>
    BY <1>1, <2>2, Emitted
  <2>6. Has(out', cur, "cont")
    BY <2>2, <2>3, HasAdded DEF Conn, Wires
  <2>7. Informs
    BY <1>2, <2>1, <2>6 DEF Informs, Told
  <2>4. Conn'
    BY <1>2, <1>3, <2>1, <2>3 DEF Conn, Control, Thread, Places
  <2>5. ~Orderly
    BY <1>2, <1>4 DEF Orderly
  <2> QED
    BY <2>4, <2>5, <2>7 DEF Kept
<1>5. CASE v # "cont"
  <2>1. /\ Sound(h') /\ ~h'.needCont /\ h'.method /\ h'.handler /\ h'.sent
        /\ <<HeadRec(h, v)>> \in Seq(Records) /\ Has(out \o <<HeadRec(h, v)>>, cur, "head")
        /\ v # "connclose" /\ Past(out, cur, h, pc) => Past(out \o <<HeadRec(h, v)>>, cur, h', "handler")
    BY <1>1, <1>2, <1>5, HeadKept
  <2>2. Wires' /\ out' = out \o <<HeadRec(h, v)>>
    BY <1>1, <2>1, Emitted
  <2>3. Conn'
    BY <1>2, <1>3, <2>1, <2>2 DEF Conn, Control, Thread, Places
  <2>4. Orderly => v # "connclose"
    BY <1>2 DEF Orderly
  <2>5. Informs
    BY <1>2, <2>1, <2>2, InformsByHead
  <2> QED
    BY <1>2, <2>1, <2>2, <2>3, <2>4, <2>5 DEF Kept
<1> QED
  BY <1>4, <1>5

(* What follows a head: some fields change, and perhaps one unit of a body *)
(* is written.                                                             *)
LEMMA BodyKept ==
    ASSUME Conn, NEW o \in Seq(Records), NEW g, Sound(g), g.method, g.sent, ~g.needCont, cur # 0,
           NEW d, Sound(d), d.method, d.sent, ~d.needCont, d.close = g.close, NEW w \in {"data", "end"},
           h.method
    PROVE  /\ Past(o, cur, g, "handler") => Past(o, cur, d, "handler")
           /\ Past(o, cur, g, "handler") => Past(o \o <<Rec(w)>>, cur, d, "handler")
           /\ o \o <<Rec(w)>> \in Seq(Records) /\ <<Rec(w)>> \in Seq(Records)
<1>1. Past(o, cur, g, "handler") => Past(o, cur, d, "handler")
  BY PastQuiet
<1>2. Rec(w) \in Records /\ Rec(w).what = w /\ Rec(w).req = cur /\ <<Rec(w)>> \in Seq(Records)
  BY RecTyped
<1>3. cur \in Nat
  BY HttpConnAssumption DEF Conn
<1>4. ASSUME Past(o, cur, d, "handler") PROVE Past(o \o <<Rec(w)>>, cur, d, "handler")
  <2>1. \A i \in DOMAIN o : o[i].req # 0
    BY <1>4 DEF Past
  <2> QED
    BY <1>2, <1>3, <1>4, <2>1, PastBody
<1> QED
  BY <1>1, <1>2, <1>4

LEMMA HandlerWritesKept ==
    ASSUME Conn, HandlerWrites
    PROVE  Kept /\ Informs
<1> DEFINE g == IF h.sent THEN h ELSE HeadSent(h, "plain")
           first == IF h.sent THEN <<>> ELSE <<HeadRec(h, "plain")>>
<1>1. pc = "handler" /\ pc' = "handler" /\ cmd' = cmd /\ ret' = ret /\ cur' = cur
  BY DEF HandlerWrites, Move, Goto, HandlerOnly
<1>2. /\ Sound(h) /\ Thread /\ h.handler /\ h.method /\ cur # 0 /\ (h.sent => ~h.needCont)
      /\ out \in Seq(Records) /\ cur \in 0 .. NReq
  BY <1>1, HandlerFacts DEF Conn
<1>3. /\ Sound(g) /\ ~g.needCont /\ g.method /\ g.handler /\ g.sent /\ first \in Seq(Records)
      /\ Past(out, cur, h, pc) => Past(out \o first, cur, g, "handler")
      /\ ~h.sent => Has(out \o first, cur, "head")
  <2>1. CASE h.sent
    <3>1. g = h /\ first = <<>> /\ out \o <<>> = out /\ <<>> \in Seq(Records)
      BY <1>2, <2>1
    <3> HIDE DEF g, first
    <3> QED
      BY <1>1, <1>2, <2>1, <3>1
  <2>2. CASE ~h.sent
    <3>1. g = HeadSent(h, "plain") /\ first = <<HeadRec(h, "plain")>>
      BY <2>2
    <3> HIDE DEF g, first
    <3> QED
      BY <1>1, <2>2, <3>1, HeadKept
  <2> QED
    BY <2>1, <2>2
<1>4. PICK d \in {g, [g EXCEPT !.buff = TRUE], [g EXCEPT !.buff = FALSE]} :
         h' = d /\ (Emit(first) \/ Emit(first \o <<Rec("data")>>))
  BY DEF HandlerWrites
<1> HIDE DEF g, first
<1>5. /\ Sound(d) /\ d.method /\ d.handler /\ d.sent /\ ~d.needCont /\ d.close = g.close
  BY <1>3 DEF Sound, Fields
<1>6. out \o first \in Seq(Records)
  BY <1>2, <1>3
<1>7. /\ Past(out \o first, cur, g, "handler") => Past(out \o first, cur, d, "handler")
      /\ Past(out \o first, cur, g, "handler") => Past((out \o first) \o <<Rec("data")>>, cur, d, "handler")
      /\ <<Rec("data")>> \in Seq(Records)
  BY <1>2, <1>3, <1>5, <1>6, BodyKept
<1>8. /\ first \o <<Rec("data")>> \in Seq(Records)
      /\ (out \o first) \o <<Rec("data")>> = out \o (first \o <<Rec("data")>>)
  BY <1>2, <1>3, <1>7
<1>9. Wires' /\ (out' = out \o first \/ out' = out \o (first \o <<Rec("data")>>))
  BY <1>3, <1>4, <1>8, Emitted
<1>10. Conn'
  BY <1>1, <1>2, <1>4, <1>5, <1>9 DEF Conn, Control, Thread, Places
<1>11. Informs
  <2>1. CASE h.sent
    BY <1>1, <1>2, <1>3, <1>8, <1>9, <2>1, InformsBySent
  <2>2. CASE ~h.sent
    <3>1. Has(out \o first, cur, "head") /\ Has((out \o first) \o <<Rec("data")>>, cur, "head")
      BY <1>3, <1>6, <1>7, <2>2, HasGrown
    <3> QED
      BY <1>1, <1>8, <1>9, <3>1, InformsByHead
  <2> QED
    BY <2>1, <2>2
<1> QED
  BY <1>1, <1>3, <1>4, <1>7, <1>8, <1>9, <1>10, <1>11 DEF Kept

LEMMA HandlerErrorPageKept ==
    ASSUME Conn, HandlerErrorPage
    PROVE  Kept /\ Informs
<1>1. PICK code \in PageCode : Finish(ErrorPage(h, code), ErrorPageOut(h, code))
  BY DEF HandlerErrorPage
<1>2. pc = "handler" /\ cur' = cur
  BY DEF HandlerErrorPage, LastMove, HandlerOnly
<1>3. /\ Sound(h) /\ h.method /\ cur # 0 /\ (h.sent => ~h.needCont)
  BY <1>2, HandlerFacts
<1> DEFINE e == ErrorPage(h, code)
           o == ErrorPageOut(h, code)
<1>4. Sound(e) /\ e.sent /\ ~e.needCont /\ e.method
  BY <1>3, ErrorPageSound
<1>5. /\ o \in Seq(Records) /\ (Past(out, cur, h, pc) => Past(out \o o, cur, e, "handler"))
      /\ ~h.sent => Has(out \o o, cur, "head")
  BY <1>2, <1>3, ErrorPageWritten
<1> HIDE DEF e, o
<1>6. Finish(e, o)
  BY <1>1 DEF e, o
<1>7. /\ Conn' /\ (Past(out \o o, cur, e, "handler") => Past(out', cur', h', pc'))
      /\ out' = out \o o
  BY <1>2, <1>3, <1>4, <1>5, <1>6, FinishKept
<1>8. Informs
  <2>1. CASE h.sent
    BY <1>2, <1>3, <1>5, <1>7, <2>1, InformsBySent
  <2>2. CASE ~h.sent
    BY <1>2, <1>5, <1>7, <2>2, InformsByHead
  <2> QED
    BY <2>1, <2>2
<1> QED
  BY <1>5, <1>7, <1>8 DEF Kept

LEMMA HandlerSilentKept ==
    ASSUME Conn, HandlerProbes \/ HandlerClosesOutput \/ ReturnsSleep
    PROVE  Kept /\ Informs
<1>1. /\ pc = "handler" /\ cur' = cur /\ h' = h
      /\ UNCHANGED <<out, flushed>> \/ EmitFlush(<<>>)
      /\ \/ pc' = "probing" /\ cmd' = cmd /\ ret' = ret
         \/ pc' = "parked" /\ cmd' = "sleep" /\ ret' = ret
         \/ pc' = "drain" /\ ret' = "handler" /\ cmd' = cmd /\ h.sent
  BY DEF HandlerProbes, HandlerClosesOutput, ReturnsSleep, Move, HandlerOnly, Goto, Park, Drain
<1>2. Sound(h) /\ Control(h, pc, cmd, ret, cur) /\ Thread /\ h.handler
  BY <1>1, HandlerFacts
<1>3. Wires' /\ out' = out
  BY <1>1, NothingWritten
<1>4. Thread' /\ Control(h', pc', cmd', ret', cur)
  BY <1>1, <1>2 DEF Thread, Control, Places
<1> QED
  BY <1>1, <1>2, <1>3, <1>4, QuietKept

LEMMA ThrowsKept ==
    ASSUME Conn, HandlerThrows \/ ReadThrows
    PROVE  Kept /\ Informs
<1>1. pc # "removed" /\ Throw(h) /\ cur' = cur
  BY DEF HandlerThrows, ReadThrows, LastMove, Needs, Draining
<1> QED
  BY <1>1, ThrowKept

(* A return that ends the request. *)
LEMMA FinalKept ==
    ASSUME Conn, pc = "handler", NEW code, Final(code), cur' = cur
    PROVE  Kept /\ Informs
<1>1. /\ Sound(h) /\ h.handler /\ h.method /\ cur # 0 /\ (h.sent => ~h.needCont)
      /\ out \in Seq(Records)
  BY HandlerFacts
<1>2. CASE h.sent
  <2>1. Finish(h, <<>>) /\ <<>> \in Seq(Records) /\ out \o <<>> = out
    BY <1>1, <1>2 DEF Final
  <2>2. /\ Conn' /\ (Past(out \o <<>>, cur, h, "handler") => Past(out', cur', h', pc'))
        /\ out' = out \o <<>>
    BY <1>1, <1>2, <2>1, FinishKept
  <2>3. Informs
    BY <1>1, <1>2, <2>1, <2>2, InformsBySent
  <2> QED
    BY <2>1, <2>2, <2>3 DEF Kept
<1>3. CASE ~h.sent
  <2>1. ErrorPageKA(h, code)
    BY <1>3 DEF Final
  <2>2. Kept /\ Has(out', cur', "head")
    BY <1>1, <1>3, <2>1, ErrorPageKAKept DEF Kept
  <2> QED
    BY <2>2, InformsByHead
<1> QED
  BY <1>2, <1>3

LEMMA ReturnsFinalKept ==
    ASSUME Conn, ReturnsFinal
    PROVE  Kept /\ Informs
<1>1. pc = "handler" /\ cur' = cur /\ \E code \in PageCode : Final(code)
  BY DEF ReturnsFinal, LastMove, HandlerOnly, PageCode
<1> QED
  BY <1>1, FinalKept

LEMMA ReturnsContinueKept ==
    ASSUME Conn, ReturnsContinue
    PROVE  Kept /\ Informs
<1> DEFINE g == IF h.sent THEN h ELSE [h EXCEPT !.needCont = FALSE]
           recs == IF ~h.sent /\ h.needCont THEN Continue ELSE <<>>
           d == [g EXCEPT !.again = TRUE, !.ev = IF h.sent THEN "eos" ELSE @]
<1>1. pc = "handler" /\ cur' = cur
  BY DEF ReturnsContinue, Move, HandlerOnly
<1>2. /\ Sound(h) /\ Thread /\ h.handler /\ h.method /\ cur # 0 /\ (h.sent => ~h.needCont)
      /\ out \in Seq(Records) /\ cur \in 0 .. NReq
  BY <1>1, HandlerFacts DEF Conn
<1>3. CASE h.again
  <2>1. Final("page")
    BY <1>3 DEF ReturnsContinue
  <2> QED
    BY <1>1, <2>1, FinalKept
<1>4. CASE ~h.again
  <2>1. /\ Emit(recs) /\ cmd' = cmd /\ ret' = ret
        /\ \/ h' = g /\ pc' = "loop"
           \/ h' = d /\ pc' = "handler"
    BY <1>4 DEF ReturnsContinue, Goto
  <2>2. /\ Sound(g) /\ g.method /\ g.handler /\ g.sent = h.sent /\ ~g.needCont /\ g.close = h.close
        /\ recs \in Seq(Records)
        /\ Past(out, cur, h, pc) => Past(out \o recs, cur, g, "handler")
        /\ \A x : Told(out, cur, h, pc, x) => Told(out \o recs, cur, g, "handler", x)
    <3>1. CASE h.sent
      <4>1. g = h /\ recs = <<>> /\ out \o <<>> = out /\ <<>> \in Seq(Records)
        BY <1>2, <3>1
      <4> HIDE DEF g, recs
      <4>2. \A x : Told(out, cur, h, pc, x) => Told(out, cur, g, "handler", x)
        BY <1>1, <4>1 DEF Told
      <4> QED
        BY <1>1, <1>2, <3>1, <4>1, <4>2
    <3>2. CASE ~h.sent
      <4>1. g = [h EXCEPT !.needCont = FALSE] /\ recs = (IF h.needCont THEN Continue ELSE <<>>)
        BY <3>2
      <4> HIDE DEF g, recs
      <4>2. /\ Sound(g) /\ g.method /\ g.handler /\ ~g.sent /\ ~g.needCont /\ g.close = h.close
            /\ recs \in Seq(Records)
        BY <1>1, <3>2, <4>1, ContinueKept
      <4>3. /\ Past(out, cur, h, pc) => Past(out \o recs, cur, g, "handler")
            /\ \A x : Told(out, cur, h, pc, x) => Told(out \o recs, cur, g, "handler", x)
        BY <1>1, <3>2, <4>1, ContinueKept
      <4>4. g.sent = h.sent
        BY <1>2, <3>2, <4>1 DEF Sound, Fields
      <4> QED
        BY <4>2, <4>3, <4>4
    <3> QED
      BY <3>1, <3>2
  <2>3. /\ Sound(d) /\ d.method /\ d.handler /\ d.sent = h.sent /\ ~d.needCont /\ d.close = h.close
    <3> DEFINE e == IF h.sent THEN "eos" ELSE g.ev
    <3>1. g \in Fields /\ e \in {"request", "data", "write", "wakeup", "eos"}
      BY <2>2 DEF Sound, Fields
    <3>2. d = [g EXCEPT !.again = TRUE, !.ev = e]
      OBVIOUS
    <3> HIDE DEF g, d, e
    <3> QED
      BY <2>2, <3>1, <3>2 DEF Sound, Fields
  <2> HIDE DEF g, recs, d
  <2>4. Wires' /\ out' = out \o recs
    BY <2>1, <2>2, Emitted
  <2>5. /\ Sound(h') /\ h'.method /\ h'.handler /\ h'.sent = h.sent /\ ~h'.needCont /\ h'.close = h.close
        /\ pc' \in {"loop", "handler"}
    BY <2>1, <2>2, <2>3
  <2>6. Conn'
    BY <1>1, <1>2, <2>1, <2>4, <2>5 DEF Conn, Control, Thread, Places
  <2>7. Past(out \o recs, cur, g, "handler") => Past(out \o recs, cur, h', pc')
    BY <2>2, <2>5, PastQuiet
  <2>8. Informs
    BY <1>1, <2>2, <2>4, <2>5 DEF Informs, Told
  <2> QED
    BY <1>1, <2>2, <2>4, <2>6, <2>7, <2>8 DEF Kept
<1> QED
  BY <1>3, <1>4

LEMMA ReturnsWaitForWriteKept ==
    ASSUME Conn, ReturnsWaitForWrite
    PROVE  Kept /\ Informs
<1>1. pc = "handler" /\ cur' = cur /\ pc' = "parked" /\ cmd' = "write" /\ ret' = ret
  BY DEF ReturnsWaitForWrite, Move, HandlerOnly, Park
<1>2. /\ Sound(h) /\ Control(h, pc, cmd, ret, cur) /\ Thread /\ h.handler /\ h.method /\ cur # 0
      /\ cur \in 0 .. NReq
  BY <1>1, HandlerFacts DEF Conn
<1>3. CASE h.sent
  <2>1. h' = h /\ Emit(<<>>)
    BY <1>3 DEF ReturnsWaitForWrite
  <2>2. Wires' /\ out' = out
    BY <2>1, NothingWritten
  <2>3. Thread' /\ Control(h', pc', cmd', ret', cur)
    BY <1>1, <1>2, <2>1 DEF Thread, Control, Places
  <2> QED
    BY <1>1, <1>2, <2>1, <2>2, <2>3, QuietKept
<1>4. CASE ~h.sent
  <2>1. h' = HeadSent(h, "plain") /\ Emit(<<HeadRec(h, "plain")>>)
    BY <1>4 DEF ReturnsWaitForWrite
  <2>2. /\ Sound(h') /\ ~h'.needCont /\ h'.method /\ h'.handler /\ h'.sent
        /\ <<HeadRec(h, "plain")>> \in Seq(Records) /\ Has(out \o <<HeadRec(h, "plain")>>, cur, "head")
        /\ Past(out, cur, h, pc) => Past(out \o <<HeadRec(h, "plain")>>, cur, h', "handler")
    BY <1>1, <1>4, <2>1, HeadKept
  <2>3. Wires' /\ out' = out \o <<HeadRec(h, "plain")>>
    BY <2>1, <2>2, Emitted
  <2>4. Conn'
    BY <1>1, <1>2, <2>2, <2>3 DEF Conn, Control, Thread, Places
  <2>5. Past(out', cur, h', "handler") => Past(out', cur, h', pc')
    BY <1>1, PastQuiet
  <2>6. Informs
    BY <1>1, <2>2, <2>3, InformsByHead
  <2> QED
    BY <1>1, <2>2, <2>3, <2>4, <2>5, <2>6 DEF Kept
<1> QED
  BY <1>3, <1>4

(* read(), canRead() and the draining loop, but for its end. *)
LEMMA ReadKept ==
    ASSUME Conn, ReadReturns \/ ReadUnit \/ OpenPostChunk \/ ReadBlocks \/ ReadZero
    PROVE  Kept /\ Informs
<1>1. /\ pc \in {"reading", "probing", "drain"} /\ cur' = cur /\ cmd' = cmd /\ ret' = ret
      /\ pc' = pc \/ (pc # "drain" /\ pc' = "handler")
      /\ UNCHANGED <<out, flushed>> \/ EmitFlush(<<>>)
  BY DEF ReadReturns, ReadUnit, OpenPostChunk, ReadBlocks, ReadZero, Needs, NeedsChunk, Draining, ReadOnly, Goto
<1>2. Sound(h) /\ Control(h, pc, cmd, ret, cur) /\ Thread /\ h \in Fields
  BY DEF Conn, Sound
<1>3. /\ Sound(h') /\ h'.method = h.method /\ h'.handler = h.handler /\ h'.sent = h.sent
      /\ h'.needCont = h.needCont /\ h'.close = h.close
  <2>1. CASE ReadReturns \/ ReadZero
    <3>1. PICK b \in BOOLEAN : h' = [h EXCEPT !.inClosed = b]
      <4>1. h.inClosed \in BOOLEAN /\ h.switched \in BOOLEAN
        BY <1>2 DEF Fields
      <4> QED
        BY <2>1, <4>1 DEF ReadReturns, ReadZero
    <3> QED
      BY <1>2, <3>1 DEF Sound, Fields
  <2>2. CASE ReadUnit
    <3> DEFINE m == IF h.switched THEN h.remain ELSE h.remain - 1
    <3>1. h' = [h EXCEPT !.remain = m] /\ Needs /\ ~NeedsChunk
      BY <2>2 DEF ReadUnit
    <3>2. h.switched \/ h.remain # 0
      BY <3>1 DEF Needs, NeedsChunk, Draining, BodyLeft
    <3>3. m \in {All, 0, 1, 2} /\ (m = All => h.switched)
      BY <1>2, <3>2 DEF Sound, Fields, All
    <3> HIDE DEF m
    <3> QED
      BY <1>2, <3>1, <3>3 DEF Sound, Fields
  <2>3. CASE OpenPostChunk
    <3>1. h' = [h EXCEPT !.remain = 1] \/ h' = [h EXCEPT !.chunkedPost = FALSE, !.inClosed = TRUE]
      BY <2>3 DEF OpenPostChunk
    <3>2. CASE h' = [h EXCEPT !.remain = 1]
      <4>1. h'.remain = 1 /\ h' \in Fields
        BY <1>2, <3>2 DEF Fields
      <4> QED
        BY <1>2, <3>2, <4>1 DEF Sound, Fields, All
    <3>3. CASE h' = [h EXCEPT !.chunkedPost = FALSE, !.inClosed = TRUE]
      BY <1>2, <3>3 DEF Sound, Fields
    <3> QED
      BY <3>1, <3>2, <3>3
  <2>4. CASE ReadBlocks
    BY <1>2, <2>4 DEF ReadBlocks
  <2> QED
    BY <2>1, <2>2, <2>3, <2>4
<1>4. Wires' /\ out' = out
  BY <1>1, NothingWritten
<1>5. Thread' /\ Control(h', pc', cmd', ret', cur)
  BY <1>1, <1>2, <1>3 DEF Thread, Control, Places
<1> QED
  BY <1>1, <1>2, <1>3, <1>4, <1>5, QuietKept

LEMMA ChunkFinishedKept ==
    ASSUME Conn, ChunkFinished
    PROVE  Kept /\ Informs
<1> DEFINE g == [h EXCEPT !.buff = FALSE]
           rest == IF h.buff THEN <<Rec("data")>> ELSE <<>>
           last == IF ~h.chunked THEN <<>> ELSE rest \o <<Rec("end")>>
<1>1. pc = "drain" /\ cur' = cur /\ cmd' = cmd /\ ret' = ret
  BY DEF ChunkFinished, ReadOnly, Goto, Remove
<1>2. /\ Sound(h) /\ Control(h, pc, cmd, ret, cur) /\ Thread /\ h.method /\ h.sent /\ ~h.needCont
      /\ cur # 0 /\ (ret = "handler" => h.handler) /\ out \in Seq(Records) /\ cur \in 0 .. NReq
  BY <1>1 DEF Conn, Control, Wires
<1>3. EmitFlush(last)
  BY DEF ChunkFinished, Remove
<1>4. \/ ret = "handler" /\ h' = [g EXCEPT !.outClosed = TRUE] /\ pc' = "handler"
      \/ ~h.close /\ h' = Clear(g) /\ pc' = "loop"
      \/ h' = Clear(g) /\ pc' = "removed"
  BY DEF ChunkFinished, Remove, Goto
<1>5. last \in Seq(Records) /\ (Past(out, cur, h, pc) => Past(out \o last, cur, h, "handler"))
  <2>1. Past(out, cur, h, pc) => Past(out, cur, h, "handler")
    BY <1>1, PastQuiet
  <2>2. /\ rest \in Seq(Records) /\ out \o rest \in Seq(Records)
        /\ Past(out, cur, h, "handler") => Past(out \o rest, cur, h, "handler")
    <3>1. CASE h.buff
      <4>1. rest = <<Rec("data")>>
        BY <3>1
      <4> HIDE DEF rest
      <4> QED
        BY <1>2, <4>1, BodyKept
    <3>2. CASE ~h.buff
      <4>1. rest = <<>> /\ out \o <<>> = out /\ <<>> \in Seq(Records)
        BY <1>2, <3>2
      <4> HIDE DEF rest
      <4> QED
        BY <1>2, <4>1
    <3> QED
      BY <3>1, <3>2
  <2> HIDE DEF rest
  <2>3. /\ <<Rec("end")>> \in Seq(Records)
        /\ Past(out \o rest, cur, h, "handler") => Past((out \o rest) \o <<Rec("end")>>, cur, h, "handler")
    BY <1>2, <2>2, BodyKept
  <2>4. CASE h.chunked
    <3>1. last = rest \o <<Rec("end")>>
      BY <2>4
    <3> HIDE DEF last
    <3>2. last \in Seq(Records) /\ (out \o rest) \o <<Rec("end")>> = out \o last
      BY <1>2, <2>2, <2>3, <3>1
    <3> QED
      BY <2>1, <2>2, <2>3, <3>2
  <2>5. CASE ~h.chunked
    <3>1. last = <<>>
      BY <2>5
    <3>2. out \o <<>> = out /\ <<>> \in Seq(Records)
      BY <1>2
    <3> HIDE DEF last
    <3> QED
      BY <2>1, <3>1, <3>2
  <2> QED
    BY <2>4, <2>5
<1> HIDE DEF rest, last
<1>6. Wires' /\ out' = out \o last
  BY <1>3, <1>5, Emitted
<1>10. Informs
  BY <1>1, <1>2, <1>5, <1>6, InformsBySent
<1>7. /\ Sound(g) /\ g.method /\ g.sent /\ ~g.needCont /\ g.handler = h.handler /\ g.close = h.close
  BY <1>2 DEF Sound, Fields
<1>8. CASE ret = "handler" /\ h' = [g EXCEPT !.outClosed = TRUE] /\ pc' = "handler"
  <2>1. /\ Sound(h') /\ h'.method /\ h'.sent /\ ~h'.needCont /\ h'.handler /\ h'.close = h.close
    BY <1>2, <1>7, <1>8 DEF Sound, Fields
  <2>2. Conn'
    BY <1>1, <1>2, <1>6, <1>8, <2>1 DEF Conn, Control, Thread, Places
  <2>3. Past(out', cur, h, "handler") => Past(out', cur, h', pc')
    BY <1>2, <2>1, PastQuiet
  <2> QED
    BY <1>1, <1>5, <1>6, <1>10, <2>2, <2>3 DEF Kept
<1>9. CASE h' = Clear(g) /\ (pc' = "removed" \/ (~h.close /\ pc' = "loop"))
  <2>1. Sound(h') /\ ~h'.method /\ ~h'.handler /\ ~h'.sent
    BY <1>7, <1>9, ClearSound
  <2>2. Conn'
    BY <1>1, <1>2, <1>6, <1>9, <2>1 DEF Conn, Control, Thread, Places
  <2>3. Past(out', cur, h, "handler") => Past(out', cur, h', pc')
    BY <1>9, <2>1, PastQuiet
  <2> QED
    BY <1>1, <1>5, <1>6, <1>10, <2>2, <2>3 DEF Kept
<1> QED
  BY <1>4, <1>8, <1>9

-----------------------------------------------------------------------------
(* The client and the input *)

Tokens == [req : 1 .. NReq, what : {"line", "hdrs", "byte", "chunk", "end", "raw"}]

(* The request lines in s: of requests later than c, up to n, in order.    *)
Lines(s, c, n) == \A i \in DOMAIN s : s[i].what = "line" =>
    /\ c < s[i].req /\ s[i].req <= n
    /\ \A j \in DOMAIN s : i < j /\ s[j].what = "line" => s[i].req < s[j].req

Coming == /\ kinds \in Seq(Kinds) /\ Len(kinds) <= NReq
          /\ pos \in Nat /\ (kinds # <<>> => pos # 0)
          /\ closed \in BOOLEAN
          /\ in \in Seq(Tokens) /\ Lines(in, cur, Len(kinds)) /\ cur \in 0 .. Len(kinds)

Counted == ops \in 0 .. MaxOps /\ misframed \subseteq 0 .. NReq /\ threw \subseteq Failures

ConnInv == Conn /\ Coming /\ Counted

LEMMA LinesTaken ==
    ASSUME NEW s \in Seq(Tokens), NEW c \in Nat, NEW n \in Nat, Lines(s, c, n), s # <<>>
    PROVE  /\ Tail(s) \in Seq(Tokens) /\ Lines(Tail(s), c, n) /\ Head(s) \in Tokens
           /\ Head(s).what = "line" =>
                /\ c < Head(s).req /\ Head(s).req <= n
                /\ Lines(Tail(s), Head(s).req, n)
<1>1. /\ Tail(s) \in Seq(Tokens) /\ Head(s) = s[1] /\ s[1] \in Tokens /\ 1 \in DOMAIN s
      /\ \A i \in DOMAIN Tail(s) : i + 1 \in DOMAIN s /\ Tail(s)[i] = s[i + 1] /\ i \in Nat /\ 1 < i + 1
  OBVIOUS
<1>2. \A i, j \in DOMAIN Tail(s) : i < j => i + 1 < j + 1
  BY <1>1
<1>3. Lines(Tail(s), c, n)
  BY <1>1, <1>2 DEF Lines
<1>4. ASSUME s[1].what = "line" PROVE c < s[1].req /\ s[1].req <= n /\ Lines(Tail(s), s[1].req, n)
  BY <1>1, <1>2, <1>4 DEF Lines
<1> QED
  BY <1>1, <1>3, <1>4

LEMMA LinesSent ==
    ASSUME NEW s \in Seq(Tokens), NEW c \in Nat, NEW n \in Nat, Lines(s, c, n), c <= n, NEW t \in Tokens
    PROVE  /\ Append(s, t) \in Seq(Tokens)
           /\ t.what # "line" => Lines(Append(s, t), c, n)
           /\ t.what = "line" /\ t.req = n + 1 => Lines(Append(s, t), c, n + 1)
<1> DEFINE a == Append(s, t)
<1>1. /\ a \in Seq(Tokens) /\ DOMAIN s = 1 .. Len(s) /\ DOMAIN a = 1 .. Len(s) + 1 /\ Len(s) \in Nat
      /\ \A i \in DOMAIN s : a[i] = s[i]
      /\ a[Len(s) + 1] = t
  OBVIOUS
<1>2. \A i \in DOMAIN s : s[i].req \in Nat
  <2>1. \A i \in DOMAIN s : s[i] \in Tokens
    OBVIOUS
  <2>2. \A x \in Tokens : x.req \in Nat
    BY HttpConnAssumption DEF Tokens
  <2> QED
    BY <2>1, <2>2
<1> HIDE DEF a
<1>3. \A i \in DOMAIN a : i \in DOMAIN s \/ i = Len(s) + 1
  BY <1>1
<1>4. ASSUME t.what # "line" PROVE Lines(a, c, n)
  BY <1>1, <1>3, <1>4 DEF Lines
<1>5. ASSUME t.what = "line", t.req = n + 1 PROVE Lines(a, c, n + 1)
  BY <1>1, <1>2, <1>3, <1>5 DEF Lines
<1> QED
  BY <1>1, <1>4, <1>5 DEF a

(* A request goes on with anything but another request line.               *)
LEMMA ScriptTokens ==
    ASSUME NEW k \in KindType, NEW p \in Nat, p # 0, p < Len(Script(k))
    PROVE  Script(k)[p + 1] \in {"hdrs", "byte", "chunk", "end"}
<1>1. CASE k.body = "none"
  <2>1. Script(k) = <<"line", "hdrs">> \o <<>>
    BY <1>1 DEF Script
  <2> QED
    BY <2>1
<1>2. CASE k.body = "len"
  <2>1. Script(k) = <<"line", "hdrs">> \o <<"byte", "byte">>
    BY <1>2 DEF Script
  <2> QED
    BY <2>1
<1>3. CASE k.body = "chunked"
  <2>1. Script(k) = <<"line", "hdrs">> \o <<"chunk", "byte", "chunk", "byte", "end">>
    BY <1>3 DEF Script
  <2> QED
    BY <2>1
<1> QED
  BY <1>1, <1>2, <1>3 DEF KindType

-----------------------------------------------------------------------------
(* The invariant *)

LEMMA ConnInit == Init => ConnInv /\ Past(out, cur, h, pc)
<1> SUFFICES ASSUME Init PROVE ConnInv /\ Past(out, cur, h, pc)
  OBVIOUS
<1>1. PICK c, n, e, p, i, o \in BOOLEAN : \E r \in {0, 1} :
         h = [method |-> FALSE, handler |-> FALSE, sent |-> FALSE,
              chunked |-> FALSE, buff |-> FALSE, close |-> c, needCont |-> n,
              head |-> e, chunkedPost |-> p, remain |-> r, inClosed |-> i,
              outClosed |-> o, switched |-> FALSE, ev |-> "request",
              again |-> FALSE]
  BY DEF Init
<1>2. Sound(h) /\ ~h.method /\ ~h.handler /\ ~h.sent
  BY <1>1 DEF Sound, Fields, All
<1>3. /\ kinds = <<>> /\ pos = 0 /\ closed = FALSE /\ in = <<>> /\ out = <<>> /\ flushed = 0
      /\ pc = "parked" /\ cmd = "read" /\ ret = "finish"
      /\ cur = 0 /\ ops = 0 /\ misframed = {} /\ threw = {}
  BY DEF Init
<1>4. Conn
  BY <1>2, <1>3, HttpConnAssumption DEF Conn, Control, Wires, Thread, Places
<1>5. Coming /\ Counted
  <2>1. Len(kinds) = 0 /\ kinds \in Seq(Kinds) /\ in \in Seq(Tokens) /\ DOMAIN in = {} /\ pos = 0
    BY <1>3
  <2>2. Lines(in, cur, Len(kinds))
    BY <2>1 DEF Lines
  <2>3. NReq \in Nat /\ MaxOps \in Nat
    BY HttpConnAssumption
  <2>4. cur = 0 /\ kinds = <<>> /\ closed \in BOOLEAN
    BY <1>3
  <2>5. Len(kinds) <= NReq /\ cur \in 0 .. Len(kinds) /\ pos \in Nat
    BY <2>1, <2>3, <2>4
  <2>6. Coming
    BY <2>1, <2>2, <2>4, <2>5 DEF Coming
  <2> QED
    BY <1>3, <2>3, <2>6 DEF Counted
<1>6. Past(out, cur, h, pc)
  BY <1>3 DEF Past, Ordered
<1> QED
  BY <1>4, <1>5, <1>6 DEF ConnInv

(* The client of the request being handled knows what it has been told.    *)
Informed == cur # 0 => Told(out, cur, h, pc, kinds[cur].expect = "100")

LEMMA ClientKept ==
    ASSUME ConnInv, ClientNext
    PROVE  ConnInv' /\ Kept /\ (Informed => Informed')
<1>1. UNCHANGED <<out, flushed, h, pc, cmd, ret, cur, ops, misframed, threw>>
  BY DEF ClientNext, ClientBegins, ClientContinues, ClientSendsRaw, ClientCloses, histVars
<1>2. Conn' /\ Kept /\ Counted'
  BY <1>1 DEF ConnInv, Conn, Wires, Thread, Counted, Kept
<1>3. /\ kinds \in Seq(Kinds) /\ Len(kinds) <= NReq /\ pos \in Nat /\ (kinds # <<>> => pos # 0)
      /\ closed \in BOOLEAN /\ in \in Seq(Tokens) /\ Lines(in, cur, Len(kinds)) /\ cur \in 0 .. Len(kinds)
      /\ Len(kinds) \in Nat /\ cur \in Nat /\ cur <= Len(kinds) /\ cur' = cur
  BY <1>1 DEF ConnInv, Coming
<1>4. NReq \in Nat /\ Kinds \subseteq KindType
  BY HttpConnAssumption
<1>8. ASSUME cur # 0 => kinds'[cur] = kinds[cur] PROVE Informed => Informed'
  BY <1>1, <1>8 DEF Informed
<1>5. CASE ClientBegins
  <2> DEFINE t == [req |-> Len(kinds) + 1, what |-> "line"]
  <2>1. PICK k \in Kinds : kinds' = Append(kinds, k)
    BY <1>5 DEF ClientBegins
  <2>2. Len(kinds) < NReq /\ pos' = 1 /\ in' = Append(in, t) /\ closed' = closed
    BY <1>5 DEF ClientBegins, MayBegin, Newest, Send
  <2>3. t \in Tokens /\ t.what = "line" /\ t.req = Len(kinds) + 1
    BY <1>3, <1>4, <2>2 DEF Tokens
  <2> HIDE DEF t
  <2>4. in' \in Seq(Tokens) /\ Lines(in', cur, Len(kinds) + 1)
    BY <1>3, <2>2, <2>3, LinesSent
  <2>5. kinds' \in Seq(Kinds) /\ Len(kinds') = Len(kinds) + 1
    BY <1>3, <2>1
  <2>6. Coming'
    BY <1>3, <1>4, <2>2, <2>4, <2>5 DEF Coming
  <2>7. cur # 0 => kinds'[cur] = kinds[cur]
    BY <1>3, <2>1
  <2> QED
    BY <1>2, <1>8, <2>6, <2>7 DEF ConnInv
<1>6. CASE ClientContinues \/ ClientSendsRaw
  <2>1. PICK w \in {"hdrs", "byte", "chunk", "end", "raw"} : in' = Append(in, [req |-> Len(kinds), what |-> w])
    <3>1. Len(kinds) \in 1 .. Len(kinds)
      BY <1>3, <1>6 DEF ClientContinues, ClientSendsRaw, Newest
    <3>2. kinds[Len(kinds)] \in KindType /\ pos # 0
      BY <1>3, <1>4, <3>1
    <3>3. CASE ClientContinues
      <4>1. /\ pos < Len(Script(kinds[Len(kinds)]))
            /\ in' = Append(in, [req |-> Len(kinds), what |-> Script(kinds[Len(kinds)])[pos + 1]])
        BY <3>3 DEF ClientContinues, Newest, Send
      <4>2. Script(kinds[Len(kinds)])[pos + 1] \in {"hdrs", "byte", "chunk", "end"}
        BY <1>3, <3>2, <4>1, ScriptTokens
      <4> QED
        BY <4>1, <4>2
    <3>4. CASE ClientSendsRaw
      BY <3>4 DEF ClientSendsRaw, Newest, Send
    <3> QED
      BY <1>6, <3>3, <3>4
  <2> DEFINE t == [req |-> Len(kinds), what |-> w]
  <2>2. Len(kinds) > 0 /\ kinds' = kinds /\ closed' = closed /\ pos' = pos + 1 /\ in' = Append(in, t)
    BY <1>6, <2>1 DEF ClientContinues, ClientSendsRaw, Newest
  <2>3. t \in Tokens /\ t.what # "line"
    BY <1>3, <1>4, <2>2 DEF Tokens
  <2> HIDE DEF t
  <2>4. in' \in Seq(Tokens) /\ Lines(in', cur, Len(kinds))
    BY <1>3, <2>2, <2>3, LinesSent
  <2>5. Coming'
    BY <1>3, <2>2, <2>4 DEF Coming
  <2> QED
    BY <1>2, <1>8, <2>2, <2>5 DEF ConnInv
<1>7. CASE ClientCloses
  <2>1. kinds' = kinds /\ pos' = pos /\ in' = in /\ closed' = TRUE
    BY <1>7 DEF ClientCloses
  <2>2. Coming'
    BY <1>3, <2>1 DEF Coming
  <2> QED
    BY <1>2, <1>8, <2>1, <2>2 DEF ConnInv
<1> QED
  BY <1>5, <1>6, <1>7 DEF ClientNext

(* What the server takes from the input.                                   *)
LEMMA InputTaken ==
    ASSUME Coming, UNCHANGED clientVars,
           \/ in' = in /\ cur' = cur
           \/ in # <<>> /\ in' = Tail(in) /\ cur' = cur
           \/ in # <<>> /\ in' = Tail(in) /\ Head(in).what = "line" /\ cur' = Head(in).req
    PROVE  Coming'
<1>1. kinds' = kinds /\ pos' = pos /\ closed' = closed
  BY DEF clientVars
<1>2. /\ in \in Seq(Tokens) /\ Lines(in, cur, Len(kinds)) /\ cur \in Nat /\ Len(kinds) \in Nat /\ cur <= Len(kinds)
  BY DEF Coming
<1>3. ASSUME in # <<>>
      PROVE  /\ Tail(in) \in Seq(Tokens) /\ Lines(Tail(in), cur, Len(kinds)) /\ Head(in).req \in Nat
             /\ Head(in).what = "line" =>
                  cur < Head(in).req /\ Head(in).req <= Len(kinds) /\ Lines(Tail(in), Head(in).req, Len(kinds))
  <2>1. Head(in) \in Tokens
    BY <1>2, <1>3, LinesTaken
  <2>2. Head(in).req \in Nat
    BY <2>1, HttpConnAssumption DEF Tokens
  <2> QED
    BY <1>2, <1>3, <2>2, LinesTaken
<1>4. CASE in' = in /\ cur' = cur
  BY <1>1, <1>4 DEF Coming
<1>5. CASE in # <<>> /\ in' = Tail(in) /\ cur' = cur
  BY <1>1, <1>3, <1>5 DEF Coming
<1>6. CASE in # <<>> /\ in' = Tail(in) /\ Head(in).what = "line" /\ cur' = Head(in).req
  <2>1. cur' \in 0 .. Len(kinds)
    BY <1>2, <1>3, <1>6
  <2> QED
    BY <1>1, <1>3, <1>6, <2>1 DEF Coming
<1> QED
  BY <1>4, <1>5, <1>6

LEMMA CountsKept ==
    ASSUME Counted, cur \in 0 .. NReq,
           ops' \in {ops, 0} \/ (ops < MaxOps /\ ops' = ops + 1),
           misframed' \in {misframed, misframed \cup {cur}}, threw' = threw \/ \E f \in Failures : threw' = threw \cup {f}
    PROVE  Counted'
BY HttpConnAssumption DEF Counted

LEMMA ServerKept ==
    ASSUME ConnInv, ServerNext \/ Timeout \/ ReadThrows
    PROVE  ConnInv' /\ Kept /\ (Informed => Informed')
<1>1. Conn /\ Coming /\ Counted /\ cur \in 0 .. NReq
  BY DEF ConnInv, Conn
<1>8. ASSUME Informs, UNCHANGED clientVars, cur' = cur PROVE Informed => Informed'
  BY <1>8 DEF Informed, Informs, clientVars
<1>2. CASE EventLoop \/ Timeout
  <2>1. Kept /\ Informs
    BY <1>1, <1>2, EventKept
  <2>2. UNCHANGED <<clientVars, in, histVars>>
    BY <1>2 DEF EventLoop, DataReady, LoopAgain, LoopEnds, WriteReady, WakeUp, Timeout
  <2>3. Coming'
    BY <1>1, <2>2, InputTaken DEF histVars
  <2>4. Counted'
    BY <1>1, <2>2, CountsKept DEF histVars
  <2>5. Informed => Informed'
    BY <1>8, <2>1, <2>2 DEF histVars
  <2> QED
    BY <2>1, <2>3, <2>4, <2>5 DEF ConnInv, Kept
<1>3. CASE RequestLine
  <2>1. in # <<>> /\ in' = Tail(in) /\ Head(in).what = "line" /\ cur' = Head(in).req /\ UNCHANGED clientVars
        /\ UNCHANGED <<ops, misframed, threw>>
    BY <1>3 DEF RequestLine
  <2>2. Coming'
    BY <1>1, <2>1, InputTaken
  <2>3. Counted'
    BY <1>1, <2>1, CountsKept
  <2>4. Head(in).req \in 1 .. NReq /\ cur < Head(in).req
    <3>1. in \in Seq(Tokens) /\ Lines(in, cur, Len(kinds)) /\ cur \in Nat /\ Len(kinds) \in Nat
      BY <1>1 DEF Coming
    <3>2. Head(in) \in Tokens /\ cur < Head(in).req
      BY <2>1, <3>1, LinesTaken
    <3> QED
      BY <3>2 DEF Tokens
  <2>5. Kept /\ \A x : Told(out', cur', h', pc', x)
    BY <1>1, <1>3, <2>4, RequestLineKept
  <2> QED
    BY <2>2, <2>3, <2>5 DEF ConnInv, Kept, Informed
<1>4. CASE BadVersion \/ HeaderIncomplete \/ HeaderEof \/ GarbageLine
  <2>1. Kept /\ Informs
    BY <1>1, <1>4, BadVersionKept, NoHeaderKept
  <2>2. UNCHANGED clientVars /\ cur' = cur /\ (in' = in \/ (in # <<>> /\ in' = Tail(in)))
        /\ ops' = ops /\ threw' = threw /\ misframed' \in {misframed, misframed \cup {cur}}
    BY <1>4 DEF BadVersion, HeaderIncomplete, HeaderEof, GarbageLine, histVars
  <2>3. Coming'
    BY <1>1, <2>2, InputTaken
  <2>4. Counted'
    BY <1>1, <2>2, CountsKept
  <2>5. Informed => Informed'
    BY <1>8, <2>1, <2>2
  <2> QED
    BY <2>1, <2>3, <2>4, <2>5 DEF ConnInv, Kept
<1>5. CASE HeaderComplete
  <2>1. UNCHANGED clientVars /\ cur' = cur /\ in # <<>> /\ in' = Tail(in)
        /\ ops' = 0 /\ threw' = threw /\ misframed' = misframed
        /\ pc # "removed"
    BY <1>5 DEF HeaderComplete
  <2>2. Coming'
    BY <1>1, <2>1, InputTaken
  <2>3. Counted'
    BY <1>1, <2>1, CountsKept
  <2>4. kinds \in Seq(Kinds) /\ (h.method => cur \in DOMAIN kinds)
    BY <1>1, <2>1 DEF Coming, Conn, Control
  <2>5. Kept /\ Told(out', cur', h', pc', kinds[cur].expect = "100")
    BY <1>1, <1>5, <2>4, HeaderCompleteKept
  <2> QED
    BY <2>1, <2>2, <2>3, <2>5 DEF ConnInv, Kept, Informed, clientVars
<1>6. CASE Handler \/ ReadThrows
  <2>1. Kept /\ Informs
    BY <1>1, <1>6, HandlerReadsKept, HandlerSilentKept, HandlerSendsHeadKept, HandlerWritesKept,
       HandlerErrorPageKept, ThrowsKept, ReturnsFinalKept, ReturnsContinueKept, ReturnsWaitForWriteKept DEF Handler
  <2>2. UNCHANGED <<clientVars, in, cur, misframed>>
    BY <1>6 DEF Handler, HandlerReads, HandlerProbes, HandlerSendsHead, HandlerWrites, HandlerErrorPage,
       HandlerClosesOutput, HandlerThrows, ReturnsFinal, ReturnsContinue, ReturnsWaitForWrite, ReturnsSleep,
       ReadThrows, HandlerOnly
  <2>3. ops' = ops \/ (ops < MaxOps /\ ops' = ops + 1)
    BY <1>6 DEF Handler, HandlerReads, HandlerProbes, HandlerSendsHead, HandlerWrites, HandlerErrorPage,
       HandlerClosesOutput, HandlerThrows, ReturnsFinal, ReturnsContinue, ReturnsWaitForWrite, ReturnsSleep,
       ReadThrows, Move, LastMove
  <2>0. [req |-> cur, at |-> Len(out), sent |-> h.sent] \in Failures
    BY <1>1 DEF Failures, Conn, Sound, Fields, Wires
  <2>4. threw' = threw \/ \E f \in Failures : threw' = threw \cup {f}
    BY <1>6, <2>0 DEF Handler, HandlerReads, HandlerProbes, HandlerSendsHead, HandlerWrites, HandlerErrorPage,
       HandlerClosesOutput, HandlerThrows, ReturnsFinal, ReturnsContinue, ReturnsWaitForWrite, ReturnsSleep,
       ReadThrows, HandlerOnly, Throw
  <2>5. Coming'
    BY <1>1, <2>2, InputTaken
  <2>6. Counted'
    BY <1>1, <2>2, <2>3, <2>4, CountsKept
  <2>7. Informed => Informed'
    BY <1>8, <2>1, <2>2
  <2> QED
    BY <2>1, <2>5, <2>6, <2>7 DEF ConnInv, Kept
<1>7. CASE Body
  <2>1. Kept /\ Informs
    BY <1>1, <1>7, ReadKept, ChunkFinishedKept DEF Body
  <2>2. UNCHANGED <<clientVars, cur, ops, misframed, threw>> /\ (in' = in \/ (in # <<>> /\ in' = Tail(in)))
    BY <1>7 DEF Body, ReadReturns, ReadUnit, OpenPostChunk, ReadBlocks, ReadZero, ChunkFinished, ReadOnly
  <2>3. Coming'
    BY <1>1, <2>2, InputTaken
  <2>4. Counted'
    BY <1>1, <2>2, CountsKept
  <2>5. Informed => Informed'
    BY <1>8, <2>1, <2>2
  <2> QED
    BY <2>1, <2>3, <2>4, <2>5 DEF ConnInv, Kept
<1> QED
  BY <1>2, <1>3, <1>4, <1>5, <1>6, <1>7 DEF ServerNext, Header

LEMMA ConnStep == ConnInv /\ [Next]_vars => ConnInv' /\ Kept /\ (Informed => Informed')
<1> SUFFICES ASSUME ConnInv, [Next]_vars PROVE ConnInv' /\ Kept /\ (Informed => Informed')
  OBVIOUS
<1>1. CASE ClientNext
  BY <1>1, ClientKept
<1>2. CASE ServerNext \/ Timeout \/ ReadThrows
  BY <1>2, ServerKept
<1>3. CASE UNCHANGED vars
  BY <1>3 DEF vars, ConnInv, Conn, Wires, Thread, Coming, Counted, Kept, Informed
<1> QED
  BY <1>1, <1>2, <1>3 DEF Next

-----------------------------------------------------------------------------
(* What a response consists of                                             *)

(* Every unit of a body has its head ahead of it, with nothing but data    *)
(* between the two; only a chunked one has a last chunk.                   *)
Parts(o) == \A i \in DOMAIN o : o[i].what \in {"data", "end"} =>
    \E j \in DOMAIN o :
       /\ j < i /\ o[j].what = "head" /\ o[j].req = o[i].req
       /\ o[i].what = "end" => o[j].framing = "chunked"
       /\ \A l \in DOMAIN o : j < l /\ l < i => o[l].what = "data"

(* The response that begins with record i has an end that the client can   *)
(* tell, without the end of the connection.                                *)
Whole(o, i) ==
    /\ o[i].framing # "eof"
    /\ o[i].framing = "chunked" =>
         \E l \in DOMAIN o : /\ i < l /\ o[l].what = "end"
                             /\ \A m \in DOMAIN o : i < m /\ m < l => o[m].what # "head"

AllWhole(o) == \A i \in DOMAIN o : o[i].what = "head" => Whole(o, i)

(* Record j is the last head, the response of request c that is being      *)
(* written: g knows its framing, and whether the last chunk is out.        *)
OpenAt(o, j, c, g) ==
    /\ o[j].what = "head" /\ o[j].req = c
    /\ o[j].framing = "chunked" <=> g.chunked
    /\ o[j].framing = "eof" => g.close
    /\ \A i \in DOMAIN o : o[i].what = "head" => i = j \/ (i < j /\ Whole(o, i))
    /\ \A l \in DOMAIN o : j < l => o[l].what = "data" \/ (g.outClosed /\ o[l].what = "end")
    /\ g.outClosed /\ g.chunked => \E l \in DOMAIN o : j < l /\ o[l].what = "end"

(* What the writer keeps while request c is handled with the fields g; the *)
(* requests in s have no body in their responses.                          *)
Writer(o, c, g, s) ==
    /\ Parts(o)
    /\ IF g.sent THEN \E j \in DOMAIN o : OpenAt(o, j, c, g) ELSE AllWhole(o)
    /\ g.method /\ ~(g.sent /\ g.outClosed) =>
         \A i \in DOMAIN o : o[i].what = "end" => o[i].req # c
    /\ \A i \in DOMAIN o : o[i].req <= c /\ (o[i].what = "data" => o[i].req \notin s)
    /\ g.buff => g.sent /\ g.chunked /\ ~g.outClosed /\ c \notin s

(* What is left of it when the connection is gone.                         *)
Gone(o) ==
    /\ Parts(o)
    /\ \A i, j \in DOMAIN o : i < j /\ o[i].what = "head" /\ o[j].what = "head" => Whole(o, i)

LEMMA PartsMore ==
    ASSUME NEW o \in Seq(Records), NEW r \in Records, Parts(o),
           r.what \in {"data", "end"} =>
             \E j \in DOMAIN o :
                /\ o[j].what = "head" /\ o[j].req = r.req
                /\ r.what = "end" => o[j].framing = "chunked"
                /\ \A l \in DOMAIN o : j < l => o[l].what = "data"
    PROVE  Parts(o \o <<r>>)
<1> DEFINE n == o \o <<r>>
<1>1. /\ \A i \in DOMAIN o : n[i] = o[i]
      /\ n[Len(o) + 1] = r /\ DOMAIN o = 1 .. Len(o) /\ DOMAIN n = 1 .. Len(o) + 1
  BY Appended
<1>2. Len(o) \in Nat
  OBVIOUS
<1> HIDE DEF n
<1> SUFFICES ASSUME NEW i \in DOMAIN n, n[i].what \in {"data", "end"}
             PROVE  \E j \in DOMAIN n :
                       /\ j < i /\ n[j].what = "head" /\ n[j].req = n[i].req
                       /\ n[i].what = "end" => n[j].framing = "chunked"
                       /\ \A l \in DOMAIN n : j < l /\ l < i => n[l].what = "data"
  BY DEF Parts, n
<1>3. CASE i = Len(o) + 1
  <2>1. PICK j \in DOMAIN o :
           /\ o[j].what = "head" /\ o[j].req = r.req
           /\ r.what = "end" => o[j].framing = "chunked"
           /\ \A l \in DOMAIN o : j < l => o[l].what = "data"
    BY <1>1, <1>3
  <2>2. j \in DOMAIN n /\ j < i
    BY <1>1, <1>2, <1>3
  <2>3. \A l \in DOMAIN n : l < i => l \in DOMAIN o
    BY <1>1, <1>2, <1>3
  <2> QED
    BY <1>1, <1>3, <2>1, <2>2, <2>3
<1>4. CASE i # Len(o) + 1
  <2>1. i \in DOMAIN o /\ n[i] = o[i] /\ i <= Len(o)
    BY <1>1, <1>2, <1>4
  <2>2. PICK j \in DOMAIN o :
           /\ j < i /\ o[j].what = "head" /\ o[j].req = o[i].req
           /\ o[i].what = "end" => o[j].framing = "chunked"
           /\ \A l \in DOMAIN o : j < l /\ l < i => o[l].what = "data"
    BY <2>1 DEF Parts
  <2>3. j \in DOMAIN n /\ \A l \in DOMAIN n : l < i => l \in DOMAIN o
    BY <1>1, <1>2, <2>1
  <2> QED
    BY <1>1, <2>1, <2>2, <2>3
<1> QED
  BY <1>3, <1>4

LEMMA WholeMore ==
    ASSUME NEW o \in Seq(Records), NEW r \in Records, NEW i \in DOMAIN o, Whole(o, i)
    PROVE  Whole(o \o <<r>>, i)
<1> DEFINE n == o \o <<r>>
<1>1. /\ \A k \in DOMAIN o : n[k] = o[k]
      /\ DOMAIN o = 1 .. Len(o) /\ DOMAIN n = 1 .. Len(o) + 1 /\ Len(o) \in Nat
  BY Appended
<1> HIDE DEF n
<1>2. n[i].framing # "eof"
  BY <1>1 DEF Whole
<1>3. ASSUME n[i].framing = "chunked"
      PROVE  \E l \in DOMAIN n : /\ i < l /\ n[l].what = "end"
                                 /\ \A m \in DOMAIN n : i < m /\ m < l => n[m].what # "head"
  <2>1. PICK l \in DOMAIN o : /\ i < l /\ o[l].what = "end"
                              /\ \A m \in DOMAIN o : i < m /\ m < l => o[m].what # "head"
    BY <1>1, <1>3 DEF Whole
  <2>2. l \in DOMAIN n /\ \A m \in DOMAIN n : m < l => m \in DOMAIN o
    BY <1>1
  <2> QED
    BY <1>1, <2>1, <2>2
<1> QED
  BY <1>2, <1>3 DEF Whole, n

(* Nothing is written.                                                     *)
LEMMA WriterQuiet ==
    ASSUME NEW o, NEW c, NEW g, NEW s, NEW g2, Writer(o, c, g, s),
           g2.sent = g.sent, g2.method => g.method,
           g.sent => g2.chunked = g.chunked /\ g2.outClosed = g.outClosed /\ (g.close => g2.close),
           g2.buff => g2.sent /\ g2.chunked /\ ~g2.outClosed /\ c \notin s
    PROVE  Writer(o, c, g2, s)
<1>1. CASE g.sent
  <2>1. PICK j \in DOMAIN o : OpenAt(o, j, c, g)
    BY <1>1 DEF Writer
  <2>2. OpenAt(o, j, c, g2)
    BY <1>1, <2>1 DEF OpenAt
  <2> QED
    BY <1>1, <2>2 DEF Writer
<1>2. CASE ~g.sent
  BY <1>2 DEF Writer
<1> QED
  BY <1>1, <1>2

LEMMA WriterGone ==
    ASSUME NEW o, NEW c, NEW g, NEW s, Writer(o, c, g, s), o \in Seq(Records)
    PROVE  Gone(o)
<1>1. CASE g.sent
  <2>1. PICK j \in DOMAIN o : OpenAt(o, j, c, g)
    BY <1>1 DEF Writer
  <2>2. ASSUME NEW i \in DOMAIN o, NEW k \in DOMAIN o, i < k, o[i].what = "head", o[k].what = "head"
        PROVE  Whole(o, i)
    <3>1. (i = j \/ (i < j /\ Whole(o, i))) /\ (k = j \/ k < j)
      BY <2>1, <2>2 DEF OpenAt
    <3>2. i \in Nat /\ j \in Nat /\ k \in Nat
      OBVIOUS
    <3> QED
      BY <2>2, <3>1, <3>2
  <2> QED
    BY <2>2 DEF Gone, Writer
<1>2. CASE ~g.sent
  BY <1>2 DEF Writer, Gone, AllWhole
<1> QED
  BY <1>1, <1>2

(* 100 Continue.                                                           *)
LEMMA WriterContinue ==
    ASSUME NEW o \in Seq(Records), NEW c, NEW g, NEW s, NEW g2, Writer(o, c, g, s), ~g.sent,
           NEW r \in Records, r.what = "cont", r.req = c, c \in Nat, ~g2.sent, g2.method => g.method, ~g2.buff
    PROVE  Writer(o \o <<r>>, c, g2, s)
<1> DEFINE n == o \o <<r>>
<1>1. /\ \A i \in DOMAIN o : n[i] = o[i]
      /\ n[Len(o) + 1] = r /\ DOMAIN o = 1 .. Len(o) /\ DOMAIN n = 1 .. Len(o) + 1
  BY Appended
<1>2. Parts(n)
  BY PartsMore DEF Writer
<1>3. \A i \in DOMAIN o : Whole(o, i) => Whole(n, i)
  BY WholeMore
<1> HIDE DEF n
<1>4. \A i \in DOMAIN n : (i \in DOMAIN o /\ n[i] = o[i]) \/ n[i] = r
  BY <1>1
<1>5. AllWhole(n)
  BY <1>3, <1>4 DEF Writer, AllWhole
<1> QED
  BY <1>2, <1>4, <1>5 DEF Writer, n

(* A head, of request c.                                                   *)
LEMMA WriterHead ==
    ASSUME NEW o \in Seq(Records), NEW c \in Nat, NEW g, NEW s, NEW g2, Writer(o, c, g, s), ~g.sent, g.method,
           NEW r \in Records, r.what = "head", r.req = c, g2.sent, ~g2.outClosed, ~g2.buff,
           r.framing = "chunked" <=> g2.chunked, r.framing = "eof" => g2.close
    PROVE  Writer(o \o <<r>>, c, g2, s)
<1> DEFINE n == o \o <<r>>
<1>1. /\ \A i \in DOMAIN o : n[i] = o[i]
      /\ n[Len(o) + 1] = r /\ DOMAIN o = 1 .. Len(o) /\ DOMAIN n = 1 .. Len(o) + 1 /\ Len(o) \in Nat
  BY Appended
<1>2. Parts(n)
  BY PartsMore DEF Writer
<1>3. \A i \in DOMAIN o : Whole(o, i) => Whole(n, i)
  BY WholeMore
<1> HIDE DEF n
<1>4. \A i \in DOMAIN n : (i \in DOMAIN o /\ n[i] = o[i]) \/ n[i] = r
  BY <1>1
<1> DEFINE j == Len(o) + 1
<1>5. j \in DOMAIN n /\ n[j] = r /\ \A i \in DOMAIN n : i <= j /\ (i # j => i \in DOMAIN o /\ i < j)
  BY <1>1
<1>6. ASSUME NEW i \in DOMAIN n, n[i].what = "head" PROVE i = j \/ (i < j /\ Whole(n, i))
  BY <1>1, <1>3, <1>5, <1>6 DEF Writer, AllWhole
<1>7. \A l \in DOMAIN n : ~(j < l)
  BY <1>1
<1> HIDE DEF j
<1>8. OpenAt(n, j, c, g2)
  BY <1>5, <1>6, <1>7 DEF OpenAt
<1> QED
  BY <1>2, <1>4, <1>5, <1>8 DEF Writer, n

(* A unit of the body, or the last chunk.                                  *)
LEMMA WriterBody ==
    ASSUME NEW o \in Seq(Records), NEW c \in Nat, NEW g, NEW s, NEW g2, Writer(o, c, g, s), g.sent, ~g.outClosed,
           NEW r \in Records, r.req = c, r.what \in {"data", "end"},
           r.what = "data" => c \notin s /\ ~g2.outClosed,
           r.what = "end" => g.chunked /\ g2.outClosed /\ ~g2.buff,
           g2.sent, g2.chunked = g.chunked, g.close => g2.close, g2.method => g.method,
           g2.buff => g2.chunked
    PROVE  Writer(o \o <<r>>, c, g2, s)
<1> DEFINE n == o \o <<r>>
<1>1. /\ \A i \in DOMAIN o : n[i] = o[i]
      /\ n[Len(o) + 1] = r /\ DOMAIN o = 1 .. Len(o) /\ DOMAIN n = 1 .. Len(o) + 1 /\ Len(o) \in Nat
  BY Appended
<1>2. PICK j \in DOMAIN o : OpenAt(o, j, c, g)
  BY DEF Writer
<1>3. Parts(n)
  BY <1>2, PartsMore DEF Writer, OpenAt
<1>4. \A i \in DOMAIN o : Whole(o, i) => Whole(n, i)
  BY WholeMore
<1> HIDE DEF n
<1>5. \A i \in DOMAIN n : (i \in DOMAIN o /\ n[i] = o[i]) \/ (i = Len(o) + 1 /\ n[i] = r)
  BY <1>1
<1>6. j \in DOMAIN n /\ n[j] = o[j] /\ j < Len(o) + 1 /\ Len(o) + 1 \in DOMAIN n
  BY <1>1
<1>7. \A i \in DOMAIN n : n[i].what = "head" => i = j \/ (i < j /\ Whole(n, i))
  BY <1>2, <1>4, <1>5 DEF OpenAt
<1>8. \A l \in DOMAIN n : j < l => n[l].what = "data" \/ (g2.outClosed /\ n[l].what = "end")
  BY <1>2, <1>5 DEF OpenAt
<1>9. g2.outClosed /\ g2.chunked => \E l \in DOMAIN n : j < l /\ n[l].what = "end"
  BY <1>1, <1>6
<1>10. OpenAt(n, j, c, g2)
  BY <1>2, <1>6, <1>7, <1>8, <1>9 DEF OpenAt
<1>11. \A i \in DOMAIN n : n[i].req <= c /\ (n[i].what = "data" => n[i].req \notin s)
  BY <1>5 DEF Writer
<1>12. g2.method /\ ~g2.outClosed => \A i \in DOMAIN n : n[i].what = "end" => n[i].req # c
  BY <1>5 DEF Writer
<1> QED
  BY <1>3, <1>6, <1>10, <1>11, <1>12 DEF Writer, n

(* The output of a response without a last chunk is closed.                *)
LEMMA WriterClosed ==
    ASSUME NEW o, NEW c, NEW g, NEW s, NEW g2, Writer(o, c, g, s), g.sent, ~g.chunked, ~g.outClosed,
           g2.sent, g2.chunked = g.chunked, g2.outClosed, ~g2.buff, g.close => g2.close
    PROVE  Writer(o, c, g2, s)
<1>1. PICK j \in DOMAIN o : OpenAt(o, j, c, g)
  BY DEF Writer
<1>2. OpenAt(o, j, c, g2)
  BY <1>1 DEF OpenAt
<1> QED
  BY <1>2 DEF Writer

(* The request is over, and the connection goes on.                        *)
LEMMA WriterOver ==
    ASSUME NEW o \in Seq(Records), NEW c, NEW g, NEW s, NEW g2, Writer(o, c, g, s), g.sent, g.outClosed, ~g.close,
           ~g2.sent, ~g2.method, ~g2.buff
    PROVE  Writer(o, c, g2, s)
<1>1. PICK j \in DOMAIN o : OpenAt(o, j, c, g)
  BY DEF Writer
<1>2. ASSUME o[j].framing = "chunked"
      PROVE  \E l \in DOMAIN o : /\ j < l /\ o[l].what = "end"
                                 /\ \A m \in DOMAIN o : j < m /\ m < l => o[m].what # "head"
  <2>1. PICK l \in DOMAIN o : j < l /\ o[l].what = "end"
    BY <1>1, <1>2 DEF OpenAt
  <2>2. \A m \in DOMAIN o : j < m => o[m].what # "head"
    BY <1>1 DEF OpenAt
  <2> QED
    BY <2>1, <2>2
<1>3. Whole(o, j)
  BY <1>1, <1>2 DEF OpenAt, Whole
<1>4. AllWhole(o)
  BY <1>1, <1>3 DEF OpenAt, AllWhole
<1> QED
  BY <1>4 DEF Writer

(* The next request begins.                                                *)
LEMMA WriterNext ==
    ASSUME NEW o \in Seq(Records), NEW c \in Nat, NEW g, NEW s, NEW c2 \in Nat, NEW g2, Writer(o, c, g, s), ~g.sent,
           c < c2, ~g2.sent, ~g2.buff
    PROVE  Writer(o, c2, g2, s)
<1>1. \A i \in DOMAIN o : o[i].req \in Nat
  BY Numbered
<1> QED
  BY <1>1 DEF Writer

(* A last page, which may be of no request.                                *)
LEMMA GoneHead ==
    ASSUME NEW o \in Seq(Records), Parts(o), AllWhole(o), NEW r \in Records, r.what = "head"
    PROVE  Gone(o \o <<r>>)
<1> DEFINE n == o \o <<r>>
<1>1. /\ \A i \in DOMAIN o : n[i] = o[i]
      /\ n[Len(o) + 1] = r /\ DOMAIN o = 1 .. Len(o) /\ DOMAIN n = 1 .. Len(o) + 1 /\ Len(o) \in Nat
  BY Appended
<1>2. Parts(n)
  BY PartsMore
<1>3. \A i \in DOMAIN o : Whole(o, i) => Whole(n, i)
  BY WholeMore
<1> HIDE DEF n
<1>4. \A i, j \in DOMAIN n : i < j => i \in DOMAIN o /\ n[i] = o[i]
  BY <1>1
<1> QED
  BY <1>2, <1>3, <1>4 DEF Gone, AllWhole, n

LEMMA GoneData ==
    ASSUME NEW o \in Seq(Records), Gone(o), NEW r \in Records, r.what = "data",
           o # <<>>, o[Len(o)].what = "head", o[Len(o)].req = r.req
    PROVE  Gone(o \o <<r>>)
<1> DEFINE n == o \o <<r>>
<1>1. /\ \A i \in DOMAIN o : n[i] = o[i]
      /\ n[Len(o) + 1] = r /\ DOMAIN o = 1 .. Len(o) /\ DOMAIN n = 1 .. Len(o) + 1 /\ Len(o) \in Nat
  BY Appended
<1>2. Len(o) \in DOMAIN o /\ \A l \in DOMAIN o : ~(Len(o) < l)
  BY <1>1
<1>3. Parts(n)
  BY <1>2, PartsMore DEF Gone
<1>4. \A i \in DOMAIN o : Whole(o, i) => Whole(n, i)
  BY WholeMore
<1> HIDE DEF n
<1>5. \A i \in DOMAIN n : (i \in DOMAIN o /\ n[i] = o[i]) \/ n[i] = r
  BY <1>1
<1> QED
  BY <1>3, <1>4, <1>5 DEF Gone, n

-----------------------------------------------------------------------------
(* The framing, step by step                                               *)

(* What the fields say about the framing at each place, when the request   *)
(* is k: HEAD is what the client sent; a header that may still announce a  *)
(* chunked body, or else the end of the connection, is the only choice a   *)
(* handler has; and what is drained is not closed yet.                     *)
Framed(g, p, k) ==
    /\ g.handler => g.head = k.head /\ k.minor # 2
    /\ p = "badversion" => k.minor = 2
    /\ g.method /\ ~g.handler /\ p \in {"header", "lines", "loop", "parked"} =>
         (k.minor = 0 \/ g.chunked) /\ k.minor # 2
    /\ g.handler /\ ~g.sent => ~g.outClosed /\ (g.close \/ g.chunked)
    /\ p = "drain" => ~g.outClosed

(* A handler that failed has its last chunk out already, or never gets it, *)
(* nor anything else behind a header of its own.                           *)
Failed(o, g, t) ==
    \A f \in t :
        \/ g.outClosed
        \/ /\ Has(o, f.req, "head") /\ ~Has(o, f.req, "end")
           /\ f.sent => Len(o) = f.at

Framing ==
    IF pc = "removed" THEN Gone(out) /\ Failed(out, h, threw)
    ELSE Writer(out, cur, h, Bare) /\ Framed(h, pc, kinds[cur]) /\ threw = {}

LEMMA HeadFields ==
    ASSUME NEW g, Sound(g), NEW v, NEW e, e = HeadSent(g, v)
    PROVE  /\ e.chunked = (g.chunked /\ ~g.close /\ v \notin {"length", "switch"})
           /\ e.buff = g.buff /\ e.head = g.head
<1> DEFINE r == Refuse(g)
           b == r.chunked /\ ~g.close /\ v \notin {"length", "switch"}
           c == [r EXCEPT !.chunked = b]
<1>1. Sound(r)
  BY RefuseSound
<1>2. r.chunked = g.chunked /\ r.buff = g.buff /\ r.head = g.head
  BY DEF Refuse, Sound, Fields
<1>3. HeadSent(g, v) = (CASE v = "cont"   -> c
                          [] v = "switch" -> [c EXCEPT !.sent = TRUE, !.switched = TRUE, !.remain = All]
                          [] OTHER        -> [c EXCEPT !.sent = TRUE])
  BY DEF HeadSent
<1> HIDE DEF r
<1>4. b \in BOOLEAN /\ b = (g.chunked /\ ~g.close /\ v \notin {"length", "switch"})
  BY <1>2
<1> HIDE DEF b
<1>5. c \in Fields /\ c.chunked = b /\ c.buff = g.buff /\ c.head = g.head
  BY <1>1, <1>2, <1>4 DEF Sound, Fields
<1> HIDE DEF c
<1>6. CASE v = "switch"
  BY <1>3, <1>4, <1>5, <1>6 DEF Fields
<1>7. CASE v # "switch"
  <2>1. e = c \/ e = [c EXCEPT !.sent = TRUE]
    BY <1>3, <1>7
  <2> QED
    BY <1>4, <1>5, <2>1 DEF Fields
<1> QED
  BY <1>6, <1>7

LEMMA HeadRecFields ==
    ASSUME NEW g, NEW v, v # "cont"
    PROVE  /\ HeadRec(g, v).framing = "chunked" <=> g.chunked /\ ~g.close /\ v \notin {"length", "switch"}
           /\ HeadRec(g, v).framing = "eof" => v \notin {"length", "switch"} /\ (g.chunked => g.close)
BY DEF HeadRec

(* A head of the request that is handled. *)
LEMMA HeadFramed ==
    ASSUME Conn, h.method, NEW g, Sound(g), g.method, ~g.sent, ~g.outClosed, NEW s, Writer(out, cur, g, s),
           NEW v, v # "cont", v \notin {"length", "switch"} => g.close \/ g.chunked,
           NEW e, e = HeadSent(g, v), NEW r, r = HeadRec(g, v)
    PROVE  /\ Writer(out \o <<r>>, cur, e, s) /\ r \in Records /\ <<r>> \in Seq(Records)
           /\ Sound(e) /\ e.method /\ e.sent /\ ~e.outClosed /\ e.handler = g.handler /\ e.head = g.head
           /\ e.close = g.close
<1>1. out \in Seq(Records) /\ cur \in Nat
  BY HttpConnAssumption DEF Conn, Wires
<1>2. /\ Sound(e) /\ e.method /\ e.sent /\ ~e.outClosed /\ e.handler = g.handler /\ e.close = g.close
  BY HeadSentSound
<1>3. /\ e.chunked = (g.chunked /\ ~g.close /\ v \notin {"length", "switch"})
      /\ e.buff = g.buff /\ e.head = g.head
  BY HeadFields
<1>4. /\ r \in Records /\ r.what = "head" /\ r.req = cur /\ <<r>> \in Seq(Records)
  BY HeadTyped
<1>5. /\ r.framing = "chunked" <=> e.chunked
      /\ r.framing = "eof" => e.close
  BY <1>2, <1>3, HeadRecFields
<1>6. ~g.buff
  BY DEF Writer
<1> QED
  BY <1>1, <1>2, <1>3, <1>4, <1>5, <1>6, WriterHead

(* The error page. *)
LEMMA PageFramed ==
    ASSUME Conn, pc # "removed", NEW g, Sound(g), g.method = h.method, h.method => cur # 0,
           NEW s, Writer(out, cur, g, s), ~g.head => cur \notin s,
           NEW code, NEW e, e = ErrorPage(g, code)
    PROVE  /\ ErrorPageOut(g, code) \in Seq(Records)
           /\ Gone(out \o ErrorPageOut(g, code))
           /\ h.method /\ (~g.sent => ~g.outClosed) => Writer(out \o ErrorPageOut(g, code), cur, e, s)
           /\ ~g.sent => e.head = g.head
<1>1. out \in Seq(Records) /\ cur \in Nat
  BY HttpConnAssumption DEF Conn, Wires
<1> DEFINE d == [g EXCEPT !.close = TRUE]
<1>2. /\ Sound(d) /\ d.close /\ d.method = g.method
      /\ d.handler = g.handler /\ d.outClosed = g.outClosed /\ d.sent = g.sent
  BY ClosedSound
<1>3. d.chunked = g.chunked /\ d.buff = g.buff /\ d.head = g.head
  BY DEF Sound, Fields
<1>4. Writer(out, cur, d, s)
  <2> HIDE DEF d
  <2>1. d.buff => d.sent /\ d.chunked /\ ~d.outClosed /\ cur \notin s
    BY <1>2, <1>3 DEF Writer
  <2> QED
    BY <1>2, <1>3, <2>1, WriterQuiet
<1>5. CASE g.sent
  <2>1. ErrorPageOut(g, code) = <<>> /\ out \o <<>> = out /\ e = d /\ <<>> \in Seq(Records)
    BY <1>1, <1>5 DEF ErrorPageOut, ErrorPage
  <2>2. Gone(out)
    BY <1>1, WriterGone
  <2> HIDE DEF d
  <2> QED
    BY <1>4, <1>5, <2>1, <2>2
<1> SUFFICES ASSUME ~g.sent
             PROVE  /\ ErrorPageOut(g, code) \in Seq(Records)
                    /\ Gone(out \o ErrorPageOut(g, code))
                    /\ h.method /\ ~g.outClosed => Writer(out \o ErrorPageOut(g, code), cur, e, s)
                    /\ e.head = g.head
  BY <1>5
<1>6. Parts(out) /\ AllWhole(out)
  BY DEF Writer
<1>7. CASE code = "empty"
  <2> DEFINE r == HeadRec(g, "length")
  <2>1. e = HeadSent(g, "length") /\ ErrorPageOut(g, code) = <<r>>
    BY <1>7 DEF ErrorPage, ErrorPageOut
  <2>2. r \in Records /\ r.what = "head" /\ <<r>> \in Seq(Records)
    BY HeadTyped
  <2>3. h.method /\ ~g.outClosed => Writer(out \o <<r>>, cur, e, s)
    BY <2>1, HeadFramed
  <2>5. e.head = g.head
    BY <2>1, HeadFields
  <2> HIDE DEF r
  <2>4. Gone(out \o <<r>>)
    BY <1>1, <1>6, <2>2, GoneHead
  <2> QED
    BY <2>1, <2>2, <2>3, <2>4, <2>5
<1>8. CASE code # "empty"
  <2> DEFINE r == HeadRec(d, "plain")
             o == out \o <<r>>
  <2>1. e = HeadSent(d, "plain") /\ ErrorPageOut(g, code) = <<r>> \o Data(g)
    BY <1>8 DEF ErrorPage, ErrorPageOut
  <2> HIDE DEF d
  <2>2. r \in Records /\ r.what = "head" /\ <<r>> \in Seq(Records) /\ r.req = (IF h.method THEN cur ELSE 0)
    BY HeadTyped
  <2>3. h.method /\ ~g.outClosed => Writer(o, cur, e, s) /\ e.sent /\ ~e.outClosed /\ e.close
    BY <1>2, <1>4, <2>1, HeadFramed
  <2>4. e.head = g.head
    BY <1>2, <1>3, <2>1, HeadFields
  <2> HIDE DEF r
  <2>5. Gone(o)
    BY <1>1, <1>6, <2>2, GoneHead
  <2>6. CASE g.head
    <3>1. ErrorPageOut(g, code) = <<r>>
      BY <2>1, <2>2, <2>6 DEF Data
    <3> QED
      BY <2>2, <2>3, <2>4, <2>5, <3>1
  <2>7. CASE ~g.head
    <3> DEFINE t == Rec("data")
    <3>1. /\ t \in Records /\ t.what = "data" /\ t.req = (IF h.method THEN cur ELSE 0) /\ <<t>> \in Seq(Records)
      BY RecTyped
    <3>2. ErrorPageOut(g, code) = <<r>> \o <<t>>
      BY <2>1, <2>7 DEF Data
    <3> HIDE DEF t
    <3>3. /\ out \o ErrorPageOut(g, code) = o \o <<t>> /\ o \in Seq(Records) /\ ErrorPageOut(g, code) \in Seq(Records)
          /\ o # <<>> /\ o[Len(o)] = r
      BY <1>1, <2>2, <3>1, <3>2
    <3> HIDE DEF o
    <3>4. Gone(o \o <<t>>)
      BY <2>2, <2>5, <3>1, <3>3, GoneData
    <3>5. ASSUME h.method, ~g.outClosed PROVE Writer(o \o <<t>>, cur, e, s)
      <4>1. Writer(o, cur, e, s) /\ e.sent /\ ~e.outClosed /\ (e.buff => e.chunked)
        BY <2>3, <3>5 DEF Writer
      <4> QED
        BY <1>1, <2>7, <3>1, <3>3, <3>5, <4>1, WriterBody
    <3> QED
      BY <2>4, <3>3, <3>4, <3>5
  <2> QED
    BY <2>6, <2>7
<1> QED
  BY <1>7, <1>8

(* clear() *)
LEMMA ClearFramed ==
    ASSUME NEW o \in Seq(Records), NEW c, NEW g, Sound(g), NEW s, Writer(o, c, g, s), g.sent, g.outClosed,
           ~g.close, NEW d, d = Clear(g), NEW k
    PROVE  Writer(o, c, d, s) /\ Framed(d, "loop", k)
<1>1. ~d.method /\ ~d.handler /\ ~d.sent
  BY ClearSound
<1>2. d.buff = g.buff /\ ~g.buff
  BY DEF Clear, Sound, Fields, Writer
<1>3. Writer(o, c, d, s)
  BY <1>1, <1>2, WriterOver
<1> QED
  BY <1>1, <1>3 DEF Framed

LEMMA FinishFramed ==
    ASSUME Conn, NEW g, Sound(g), g.sent, g.method, NEW recs \in Seq(Records), Finish(g, recs),
           out' = out \o recs, NEW s, Writer(out \o recs, cur, g, s), NEW k, g.handler => g.head = k.head /\ k.minor # 2
    PROVE  /\ pc' = "removed" => Gone(out')
           /\ pc' # "removed" => Writer(out', cur, h', s) /\ Framed(h', pc', k)
<1>1. out' \in Seq(Records)
  BY DEF Conn, Wires
<1>2. Gone(out')
  BY <1>1, WriterGone
<1>3. CASE ~g.outClosed
  <2>1. h' = g /\ pc' = "drain"
    BY <1>3 DEF Finish, Drain
  <2> QED
    BY <1>2, <1>3, <2>1 DEF Framed
<1>4. CASE g.outClosed
  <2>1. h' = Clear(g) /\ (pc' = "removed" \/ (~g.close /\ pc' = "loop"))
    BY <1>4 DEF Finish, Remove, Goto
  <2> QED
    BY <1>1, <1>2, <1>4, <2>1, ClearFramed
<1> QED
  BY <1>3, <1>4

LEMMA ErrorPageKAFramed ==
    ASSUME Conn, pc # "removed", h.method, NEW g, Sound(g), g.method, cur # 0, NEW s, Writer(out, cur, g, s),
           ~g.head => cur \notin s, NEW code, ErrorPageKA(g, code),
           NEW k, g.handler => g.head = k.head /\ k.minor # 2
    PROVE  /\ pc' = "removed" => Gone(out')
           /\ pc' # "removed" => Writer(out', cur, h', s) /\ Framed(h', pc', k)
<1> DEFINE e == ErrorPage(g, code)
           o == ErrorPageOut(g, code)
<1>1. Emit(o) \/ EmitFlush(o)
  BY DEF ErrorPageKA, Remove
<1>2. (g.outClosed /\ pc' = "removed") \/ (~g.outClosed /\ h' = e /\ pc' = "drain")
  BY DEF ErrorPageKA, Remove, Goto, Drain
<1>3. /\ o \in Seq(Records) /\ Gone(out \o o)
      /\ ~g.outClosed => Writer(out \o o, cur, e, s)
      /\ ~g.sent => e.head = g.head
  BY PageFramed
<1>4. e.sent /\ e.handler = g.handler /\ e.outClosed = g.outClosed
  BY ErrorPageSound
<1>5. g.sent => e.head = g.head
  BY DEF ErrorPage, Sound, Fields
<1> HIDE DEF e, o
<1>6. out' = out \o o
  BY <1>1, <1>3, Emitted
<1> QED
  BY <1>2, <1>3, <1>4, <1>5, <1>6 DEF Framed

(* Nothing is written, and nothing about the response changes.             *)
SameResponse(g, d) ==
    /\ d.method = g.method /\ d.handler = g.handler /\ d.sent = g.sent /\ d.close = g.close
    /\ d.chunked = g.chunked /\ d.buff = g.buff /\ d.head = g.head /\ d.outClosed = g.outClosed

LEMMA QuietFramed ==
    ASSUME Conn, Framing, pc # "removed", UNCHANGED <<kinds, cur, threw, out>>, SameResponse(h, h'),
           Framed(h, pc', kinds[cur])
    PROVE  Framing'
<1>1. out \in Seq(Records) /\ Bare' = Bare
  BY DEF Conn, Wires, Bare
<1>2. Writer(out, cur, h, Bare) /\ threw = {}
  BY DEF Framing
<1>3. h.buff => h.sent /\ h.chunked /\ ~h.outClosed /\ cur \notin Bare
  BY <1>2 DEF Writer
<1>4. Writer(out, cur, h', Bare)
  BY <1>2, <1>3, WriterQuiet DEF SameResponse
<1>5. Gone(out)
  BY <1>1, <1>2, WriterGone
<1>6. Framed(h', pc', kinds[cur])
  BY DEF SameResponse, Framed
<1>7. Failed(out, h', {})
  BY DEF Failed
<1> QED
  BY <1>1, <1>2, <1>4, <1>5, <1>6, <1>7 DEF Framing

LEMMA EventFramed ==
    ASSUME Conn, Framing, EventLoop \/ Timeout \/ HeaderIncomplete
    PROVE  Framing'
<1>1. /\ pc \in {"parked", "loop", "lines"} /\ UNCHANGED <<kinds, cur, threw>>
      /\ Emit(<<>>) \/ EmitFlush(<<>>) \/ UNCHANGED <<out, flushed>>
  BY DEF EventLoop, DataReady, LoopAgain, LoopEnds, WriteReady, WakeUp, Timeout, HeaderIncomplete, histVars, clientVars, Remove
<1>2. h \in Fields /\ Control(h, pc, cmd, ret, cur) /\ Framed(h, pc, kinds[cur])
  BY <1>1 DEF Conn, Sound, Framing
<1>3. out' = out
  BY <1>1, NothingWritten
<1>4. \/ h' = h /\ pc' \in {"parked", "loop", "removed"}
      \/ h' = [h EXCEPT !.ev = "request"] /\ pc' = "header"
      \/ (\E e \in {"data", "write", "wakeup"} : h' = [h EXCEPT !.ev = e, !.again = FALSE]) /\ pc' = "handler"
  BY DEF EventLoop, DataReady, LoopAgain, LoopEnds, WriteReady, WakeUp, Timeout, HeaderIncomplete,
     DataEvent, Activate, Goto, Park, Remove
<1>5. SameResponse(h, h')
  BY <1>2, <1>4 DEF SameResponse, Fields
<1>6. Framed(h, pc', kinds[cur])
  BY <1>1, <1>2, <1>4 DEF Framed
<1> QED
  BY <1>1, <1>3, <1>5, <1>6, QuietFramed

LEMMA ReadFramed ==
    ASSUME Conn, Framing, ReadReturns \/ ReadUnit \/ OpenPostChunk \/ ReadBlocks \/ ReadZero
    PROVE  Framing'
<1>1. /\ pc \in {"reading", "probing", "drain"} /\ UNCHANGED <<kinds, cur, threw>>
      /\ pc' = pc \/ (pc # "drain" /\ pc' = "handler")
      /\ UNCHANGED <<out, flushed>> \/ EmitFlush(<<>>)
  BY DEF ReadReturns, ReadUnit, OpenPostChunk, ReadBlocks, ReadZero, Needs, NeedsChunk, Draining, ReadOnly, Goto, clientVars
<1>2. h \in Fields /\ Control(h, pc, cmd, ret, cur) /\ Framed(h, pc, kinds[cur])
  BY <1>1 DEF Conn, Sound, Framing
<1>3. out' = out
  BY <1>1, NothingWritten
<1>4. \/ \E m : h' = [h EXCEPT !.remain = m]
      \/ \E b : h' = [h EXCEPT !.inClosed = b]
      \/ h' = [h EXCEPT !.chunkedPost = FALSE, !.inClosed = TRUE]
      \/ h' = h
  BY DEF ReadReturns, ReadUnit, OpenPostChunk, ReadBlocks, ReadZero
<1>5. SameResponse(h, h')
  BY <1>2, <1>4 DEF SameResponse, Fields
<1>6. Framed(h, pc', kinds[cur])
  BY <1>1, <1>2 DEF Framed
<1> QED
  BY <1>1, <1>3, <1>5, <1>6, QuietFramed

LEMMA HandlerSilentFramed ==
    ASSUME Conn, Framing, HandlerProbes \/ HandlerClosesOutput \/ ReturnsSleep
    PROVE  Framing'
<1>1. /\ pc = "handler" /\ UNCHANGED <<kinds, cur, threw>> /\ h' = h
      /\ UNCHANGED <<out, flushed>> \/ EmitFlush(<<>>)
      /\ pc' \in {"probing", "parked"} \/ (pc' = "drain" /\ ~h.outClosed)
  BY DEF HandlerProbes, HandlerClosesOutput, ReturnsSleep, Move, HandlerOnly, Goto, Park, Drain, clientVars
<1>2. h.handler /\ Framed(h, pc, kinds[cur])
  BY <1>1, HandlerFacts DEF Framing
<1>3. out' = out
  BY <1>1, NothingWritten
<1>4. SameResponse(h, h') /\ Framed(h, pc', kinds[cur])
  BY <1>1, <1>2 DEF SameResponse, Framed
<1> QED
  BY <1>1, <1>3, <1>4, QuietFramed

LEMMA RequestLineFramed ==
    ASSUME ConnInv, Framing, RequestLine
    PROVE  Framing'
<1>1. /\ pc = "header" /\ ~h.method /\ cur' = Head(in).req /\ out' = out /\ UNCHANGED <<kinds, threw>>
      /\ in # <<>> /\ Head(in).what = "line"
  BY DEF RequestLine, clientVars
<1>2. Sound(h) /\ ~h.sent /\ ~h.handler /\ out \in Seq(Records) /\ cur \in Nat
  BY <1>1, HttpConnAssumption DEF ConnInv, Conn, Control, Wires
<1>3. cur < Head(in).req /\ Head(in).req \in Nat
  <2>1. in \in Seq(Tokens) /\ Lines(in, cur, Len(kinds)) /\ Len(kinds) \in Nat
    BY DEF ConnInv, Coming
  <2>2. Head(in) \in Tokens /\ cur < Head(in).req
    BY <1>1, <1>2, <2>1, LinesTaken
  <2> QED
    BY <2>2, HttpConnAssumption DEF Tokens
<1> DEFINE k == kinds[Head(in).req]
           g == [h EXCEPT !.method = TRUE]
<1>4. \/ k.minor = 2 /\ h' = g /\ pc' = "badversion"
      \/ k.minor # 2 /\ h' = [g EXCEPT !.chunked = (k.minor = 1), !.close = ~(k.minor = 1)] /\ pc' = "lines"
  BY DEF RequestLine, Goto, UseHTTP11
<1>5. k.minor \in {0, 1, 2}
  <2>1. Head(in).req \in DOMAIN kinds
    <3>1. in \in Seq(Tokens) /\ Lines(in, cur, Len(kinds)) /\ Len(kinds) \in Nat /\ kinds \in Seq(Kinds)
      BY DEF ConnInv, Coming
    <3>2. Head(in).req <= Len(kinds)
      BY <1>1, <1>2, <3>1, LinesTaken
    <3> QED
      BY <1>2, <1>3, <3>1, <3>2
  <2>2. k \in KindType
    BY <2>1, HttpConnAssumption DEF ConnInv, Coming
  <2> QED
    BY <2>2 DEF KindType
<1> HIDE DEF k
<1>6. /\ ~h'.sent /\ ~h'.handler /\ h'.buff = h.buff
      /\ pc' = "lines" => (h'.chunked <=> k.minor = 1)
  BY <1>2, <1>4 DEF Sound, Fields
<1>7. ~h.buff
  BY <1>1, <1>2 DEF Framing, Writer
<1>8. Bare' = Bare
  BY <1>1 DEF Bare
<1>9. Writer(out, cur', h', Bare)
  BY <1>1, <1>2, <1>3, <1>6, <1>7, WriterNext DEF Framing
<1>10. Framed(h', pc', k)
  BY <1>4, <1>5, <1>6 DEF Framed
<1>11. k = kinds[cur]'
  BY <1>1 DEF k
<1> QED
  BY <1>1, <1>4, <1>8, <1>9, <1>10, <1>11 DEF Framing

LEMMA NoHeaderFramed ==
    ASSUME Conn, Framing, GarbageLine \/ HeaderEof
    PROVE  Framing'
<1>1. /\ pc = "header" /\ h' = ErrorPage(h, "page") /\ Remove(ErrorPageOut(h, "page"))
      /\ UNCHANGED <<threw, cur, kinds>>
  BY DEF GarbageLine, HeaderEof, histVars, clientVars
<1>2. Sound(h) /\ (h.method => cur # 0) /\ ~h.sent /\ threw = {}
  BY <1>1 DEF Conn, Control, Framing
<1>3. EmitFlush(ErrorPageOut(h, "page")) /\ pc' = "removed"
  BY <1>1 DEF Remove, Goto
<1>4. Writer(out, cur, h, {})
  BY <1>1, <1>2 DEF Framing, Writer
<1>5. ErrorPageOut(h, "page") \in Seq(Records) /\ Gone(out \o ErrorPageOut(h, "page"))
  BY <1>1, <1>2, <1>4, PageFramed
<1>6. out' = out \o ErrorPageOut(h, "page")
  BY <1>3, <1>5, Emitted
<1> QED
  BY <1>1, <1>2, <1>3, <1>5, <1>6 DEF Framing, Failed

(* What Finish and ErrorPageKA leave is the invariant.                     *)
LEMMA FramingLeft ==
    ASSUME Framing, pc # "removed", UNCHANGED <<kinds, cur, threw>>,
           pc' = "removed" => Gone(out'),
           pc' # "removed" => Writer(out', cur, h', Bare) /\ Framed(h', pc', kinds[cur])
    PROVE  Framing'
<1>1. Bare' = Bare /\ threw' = {} /\ cur' = cur /\ kinds' = kinds
  BY DEF Bare, Framing
<1> QED
  BY <1>1 DEF Framing, Failed

LEMMA BadVersionFramed ==
    ASSUME Conn, Framing, BadVersion
    PROVE  Framing'
<1>1. pc = "badversion" /\ ErrorPageKA(h, "page") /\ UNCHANGED <<kinds, cur, threw>>
  BY DEF BadVersion, histVars, clientVars
<1>2. Sound(h) /\ h.method /\ ~h.handler /\ cur # 0 /\ Writer(out, cur, h, Bare) /\ cur \notin Bare
  BY <1>1 DEF Conn, Control, Framing, Framed, Bare
<1>3. /\ pc' = "removed" => Gone(out')
      /\ pc' # "removed" => Writer(out', cur, h', Bare) /\ Framed(h', pc', kinds[cur])
  BY <1>1, <1>2, ErrorPageKAFramed
<1> QED
  BY <1>1, <1>3, FramingLeft

LEMMA HeaderCompleteFramed ==
    ASSUME ConnInv, Framing, HeaderComplete
    PROVE  Framing'
<1> DEFINE k == kinds[cur]
           n == IF k.expect = "other" THEN h.needCont ELSE k.expect = "100"
           m == IF k.body = "len" THEN 2 ELSE 0
           g == [h EXCEPT !.outClosed = FALSE, !.inClosed = FALSE,
                          !.head = k.head,
                          !.close = (k.minor = 0 \/ k.close),
                          !.remain = IF k.body = "len" THEN 2 ELSE 0,
                          !.chunkedPost = (k.body = "chunked"),
                          !.needCont = IF k.expect = "other" THEN @ ELSE k.expect = "100"]
           d == [g EXCEPT !.handler = TRUE, !.ev = "request", !.again = FALSE]
<1>1. pc \in {"header", "lines"} /\ h.method /\ UNCHANGED <<kinds, cur, threw>>
  BY DEF HeaderComplete, clientVars
<1>2. /\ Sound(h) /\ cur # 0 /\ cur \in 0 .. Len(kinds) /\ ~h.sent /\ ~h.handler /\ Conn /\ out \in Seq(Records)
  BY <1>1 DEF ConnInv, Conn, Control, Coming, Wires
<1>3. k \in KindType
  <2>1. cur \in DOMAIN kinds /\ kinds \in Seq(Kinds)
    BY <1>2 DEF ConnInv, Coming
  <2> QED
    BY <2>1, HttpConnAssumption
<1>4. \/ ErrorPageKA(g, "page")
      \/ Finish(HeadSent(g, "length"), <<HeadRec(g, "length")>>)
      \/ h' = d /\ Emit(<<>>) /\ Goto("handler")
  BY DEF HeaderComplete
<1>5. Writer(out, cur, h, Bare) /\ Framed(h, pc, k) /\ (cur \in Bare => k.head)
  BY <1>1 DEF Framing, Bare
<1> HIDE DEF k
<1>6. /\ Sound(g) /\ g.method /\ ~g.sent /\ ~g.handler /\ ~g.outClosed /\ g.head = k.head
      /\ g.close = (k.minor = 0 \/ k.close) /\ g.chunked = h.chunked /\ g.buff = h.buff
      /\ g.sent = h.sent /\ g.method = h.method
  <2> DEFINE c == k.minor = 0 \/ k.close
             p == k.body = "chunked"
             g1 == [h EXCEPT !.outClosed = FALSE, !.inClosed = FALSE, !.head = k.head]
             g2 == [g1 EXCEPT !.close = c, !.remain = m]
             g3 == [g2 EXCEPT !.chunkedPost = p, !.needCont = n]
  <2>1. c \in BOOLEAN /\ m \in {0, 2} /\ p \in BOOLEAN /\ n \in BOOLEAN /\ h \in Fields /\ k.head \in BOOLEAN
    BY <1>2, <1>3 DEF Sound, Fields, KindType
  <2>2. g = g3
    BY <2>1 DEF Fields
  <2> HIDE DEF c, m, p, n, g
  <2>3. /\ g1 \in Fields /\ g1.outClosed = FALSE /\ g1.head = k.head /\ g1.method = h.method /\ g1.sent = h.sent
        /\ g1.handler = h.handler /\ g1.chunked = h.chunked /\ g1.buff = h.buff
    BY <2>1 DEF Fields
  <2> HIDE DEF g1
  <2>4. /\ g2 \in Fields /\ g2.outClosed = FALSE /\ g2.head = k.head /\ g2.method = h.method /\ g2.sent = h.sent
        /\ g2.handler = h.handler /\ g2.chunked = h.chunked /\ g2.buff = h.buff /\ g2.close = c /\ g2.remain = m
    BY <2>1, <2>3 DEF Fields
  <2> HIDE DEF g2
  <2>5. /\ g3 \in Fields /\ g3.outClosed = FALSE /\ g3.head = k.head /\ g3.method = h.method /\ g3.sent = h.sent
        /\ g3.handler = h.handler /\ g3.chunked = h.chunked /\ g3.buff = h.buff /\ g3.close = c /\ g3.remain = m
    BY <2>1, <2>4 DEF Fields
  <2> HIDE DEF g3
  <2> QED
    BY <1>1, <1>2, <2>1, <2>2, <2>5 DEF Sound, All, c
<1> HIDE DEF g
<1>7. ~h.buff
  BY <1>2, <1>5 DEF Writer
<1>8. Writer(out, cur, g, Bare)
  BY <1>1, <1>2, <1>5, <1>6, <1>7, WriterQuiet
<1>9. k.minor # 2 /\ (g.close \/ g.chunked)
  BY <1>1, <1>2, <1>5, <1>6 DEF Framed
<1>10. CASE ErrorPageKA(g, "page")
  <2>1. /\ pc' = "removed" => Gone(out')
        /\ pc' # "removed" => Writer(out', cur, h', Bare) /\ Framed(h', pc', k)
    BY <1>1, <1>2, <1>5, <1>6, <1>8, <1>10, ErrorPageKAFramed
  <2> QED
    BY <1>1, <2>1, FramingLeft DEF k
<1>11. CASE Finish(HeadSent(g, "length"), <<HeadRec(g, "length")>>)
  <2> DEFINE e == HeadSent(g, "length")
             r == HeadRec(g, "length")
  <2>1. Writer(out \o <<r>>, cur, e, Bare) /\ <<r>> \in Seq(Records) /\ Sound(e) /\ e.method /\ e.sent /\ ~e.handler
    BY <1>1, <1>2, <1>6, <1>8, HeadFramed
  <2> HIDE DEF e, r
  <2>2. Finish(e, <<r>>)
    BY <1>11 DEF e, r
  <2>3. Emit(<<r>>) \/ EmitFlush(<<r>>)
    BY <2>2 DEF Finish, Remove
  <2>4. out' = out \o <<r>>
    BY <1>2, <2>1, <2>3, Emitted
  <2>5. /\ pc' = "removed" => Gone(out')
        /\ pc' # "removed" => Writer(out', cur, h', Bare) /\ Framed(h', pc', k)
    BY <1>2, <2>1, <2>2, <2>4, FinishFramed
  <2> QED
    BY <1>1, <2>5, FramingLeft DEF k
<1>12. CASE h' = d /\ Emit(<<>>) /\ Goto("handler")
  <2>1. /\ h'.method = g.method /\ h'.sent = g.sent /\ h'.handler /\ h'.outClosed = g.outClosed /\ h'.buff = g.buff
        /\ h'.head = g.head /\ h'.close = g.close /\ h'.chunked = g.chunked
    BY <1>6, <1>12 DEF Sound, Fields
  <2>2. out' = out /\ pc' = "handler"
    BY <1>2, <1>12, NothingWritten DEF Goto
  <2>3. Writer(out, cur, h', Bare)
    BY <1>6, <1>7, <1>8, <2>1, WriterQuiet
  <2>4. Framed(h', pc', k)
    BY <1>6, <1>9, <2>1, <2>2 DEF Framed
  <2> QED
    BY <1>1, <2>2, <2>3, <2>4, FramingLeft DEF k
<1> QED
  BY <1>4, <1>10, <1>11, <1>12 DEF k

LEMMA HandlerFramedFacts ==
    ASSUME Conn, Framing, pc = "handler"
    PROVE  /\ Sound(h) /\ h.handler /\ h.method /\ cur # 0 /\ (h.sent => ~h.needCont)
           /\ out \in Seq(Records) /\ cur \in Nat /\ h \in Fields
           /\ Writer(out, cur, h, Bare) /\ Framed(h, "handler", kinds[cur]) /\ threw = {}
           /\ h.head = kinds[cur].head /\ kinds[cur].minor # 2
           /\ (~h.head => cur \notin Bare)
           /\ ~h.sent => ~h.outClosed /\ (h.close \/ h.chunked)
BY HandlerFacts DEF Framing, Framed, Bare, Sound

(* 100 Continue, if it is owed, before a header. *)
LEMMA ContinueFramed ==
    ASSUME Conn, Framing, pc = "handler", NEW recs, recs = (IF ~h.sent /\ h.needCont THEN Continue ELSE <<>>),
           NEW g, SameResponse(h, g)
    PROVE  recs \in Seq(Records) /\ Writer(out \o recs, cur, g, Bare)
<1>1. /\ h.method /\ cur # 0 /\ out \in Seq(Records) /\ cur \in Nat /\ Writer(out, cur, h, Bare)
  BY HandlerFramedFacts
<1>2. h.buff => h.sent /\ h.chunked /\ ~h.outClosed /\ cur \notin Bare
  BY <1>1 DEF Writer
<1>3. CASE ~h.sent /\ h.needCont
  <2> DEFINE r == Rec("cont")
  <2>1. r \in Records /\ r.what = "cont" /\ r.req = cur /\ <<r>> \in Seq(Records) /\ recs = <<r>>
    BY <1>1, <1>3, RecTyped DEF Continue
  <2> HIDE DEF r
  <2>2. ~g.sent /\ ~g.buff /\ (g.method => h.method)
    BY <1>2, <1>3 DEF SameResponse
  <2>3. Writer(out \o <<r>>, cur, g, Bare)
    BY <1>1, <1>3, <2>1, <2>2, WriterContinue
  <2> QED
    BY <2>1, <2>3
<1>4. CASE ~(~h.sent /\ h.needCont)
  <2>1. recs = <<>> /\ out \o <<>> = out /\ <<>> \in Seq(Records)
    BY <1>1, <1>4
  <2>2. Writer(out, cur, g, Bare)
    BY <1>1, <1>2, WriterQuiet DEF SameResponse
  <2> QED
    BY <2>1, <2>2
<1> QED
  BY <1>3, <1>4

LEMMA HandlerReadsFramed ==
    ASSUME Conn, Framing, HandlerReads
    PROVE  Framing'
<1> DEFINE recs == IF h.needCont THEN Continue ELSE <<>>
           q == IF ~h.sent /\ h.needCont THEN Continue ELSE <<>>
<1>1. /\ pc = "handler" /\ h' = [h EXCEPT !.needCont = FALSE] /\ Emit(recs) /\ pc' = "reading"
      /\ UNCHANGED <<kinds, cur, threw>>
  BY DEF HandlerReads, Move, Goto, HandlerOnly, clientVars
<1>2. h \in Fields /\ (h.sent => ~h.needCont) /\ Framed(h, "handler", kinds[cur])
  BY <1>1, HandlerFramedFacts
<1>3. recs = q
  BY <1>2
<1> HIDE DEF recs
<1>4. SameResponse(h, h')
  BY <1>1, <1>2 DEF SameResponse, Fields
<1>5. q \in Seq(Records) /\ Writer(out \o q, cur, h', Bare)
  BY <1>1, <1>4, ContinueFramed
<1> HIDE DEF q
<1>6. out' = out \o q
  BY <1>1, <1>3, <1>5, Emitted
<1>7. Framed(h', pc', kinds[cur])
  BY <1>1, <1>2, <1>4 DEF Framed, SameResponse
<1> QED
  BY <1>1, <1>5, <1>6, <1>7, FramingLeft

LEMMA HandlerSendsHeadFramed ==
    ASSUME Conn, Framing, HandlerSendsHead
    PROVE  Framing'
<1>1. PICK v \in {"plain", "length", "connclose", "cont", "switch"} :
         Move(v) /\ ~h.sent /\ h' = HeadSent(h, v) /\ Emit(<<HeadRec(h, v)>>)
  BY DEF HandlerSendsHead
<1>2. pc = "handler" /\ pc' = "handler" /\ UNCHANGED <<kinds, cur, threw>>
  BY <1>1 DEF HandlerSendsHead, Move, Goto, HandlerOnly, clientVars
<1>3. /\ Sound(h) /\ h.handler /\ h.method /\ cur # 0 /\ out \in Seq(Records) /\ cur \in Nat
      /\ Writer(out, cur, h, Bare) /\ Framed(h, "handler", kinds[cur])
      /\ h.head = kinds[cur].head /\ kinds[cur].minor # 2
      /\ ~h.outClosed /\ (h.close \/ h.chunked)
  BY <1>1, <1>2, HandlerFramedFacts
<1>4. CASE v = "cont"
  <2> DEFINE r == Rec("cont")
  <2>1. r \in Records /\ r.what = "cont" /\ r.req = cur /\ <<r>> \in Seq(Records) /\ HeadRec(h, v) = r
    BY <1>3, <1>4, RecTyped DEF HeadRec
  <2> HIDE DEF r
  <2>2. /\ h'.method /\ h'.handler /\ ~h'.sent /\ h'.close = h.close /\ h'.outClosed = h.outClosed
        /\ h'.chunked = (h.chunked /\ ~h.close) /\ h'.buff = h.buff /\ h'.head = h.head
    BY <1>1, <1>3, <1>4, HeadSentSound, HeadFields
  <2>3. ~h'.buff
    BY <1>1, <1>3, <2>2 DEF Writer
  <2>4. Writer(out \o <<r>>, cur, h', Bare)
    BY <1>1, <1>3, <2>1, <2>2, <2>3, WriterContinue
  <2>5. out' = out \o <<r>>
    BY <1>1, <2>1, Emitted
  <2>6. Framed(h', pc', kinds[cur])
    BY <1>2, <1>3, <2>2 DEF Framed
  <2> QED
    BY <1>2, <2>4, <2>5, <2>6, FramingLeft
<1>5. CASE v # "cont"
  <2> DEFINE r == HeadRec(h, v)
             g == HeadSent(h, v)
  <2>0. /\ v \notin {"length", "switch"} => h.close \/ h.chunked
        /\ Sound(h) /\ h.method /\ ~h.sent /\ ~h.outClosed /\ Writer(out, cur, h, Bare)
    BY <1>1, <1>3
  <2>1. /\ Writer(out \o <<r>>, cur, g, Bare) /\ r \in Records /\ <<r>> \in Seq(Records)
        /\ g.method /\ g.sent /\ ~g.outClosed /\ g.handler = h.handler /\ g.head = h.head
    BY <1>5, <2>0, HeadFramed
  <2>2. Emit(<<r>>) /\ h' = g
    BY <1>1
  <2> HIDE DEF r, g
  <2>3. out' = out \o <<r>>
    BY <2>1, <2>2, Emitted
  <2>4. Framed(h', pc', kinds[cur])
    BY <1>2, <1>3, <2>1, <2>2 DEF Framed
  <2> QED
    BY <1>2, <2>1, <2>2, <2>3, <2>4, FramingLeft
<1> QED
  BY <1>4, <1>5

LEMMA HandlerWritesFramed ==
    ASSUME Conn, Framing, HandlerWrites
    PROVE  Framing'
<1> DEFINE g == IF h.sent THEN h ELSE HeadSent(h, "plain")
           first == IF h.sent THEN <<>> ELSE <<HeadRec(h, "plain")>>
           r == Rec("data")
<1>1. pc = "handler" /\ pc' = "handler" /\ UNCHANGED <<kinds, cur, threw>> /\ ~h.outClosed
  BY DEF HandlerWrites, Move, Goto, HandlerOnly, clientVars
<1>2. /\ Sound(h) /\ h.handler /\ h.method /\ cur # 0 /\ out \in Seq(Records) /\ cur \in Nat
      /\ Writer(out, cur, h, Bare) /\ h.head = kinds[cur].head /\ kinds[cur].minor # 2
      /\ (~h.head => cur \notin Bare)
      /\ ~h.sent => ~h.outClosed /\ (h.close \/ h.chunked)
  BY <1>1, HandlerFramedFacts
<1>3. /\ Writer(out \o first, cur, g, Bare) /\ first \in Seq(Records)
      /\ Sound(g) /\ g.method /\ g.sent /\ ~g.outClosed /\ g.handler /\ g.head = h.head
  <2>1. CASE h.sent
    <3>1. g = h /\ first = <<>> /\ out \o <<>> = out /\ <<>> \in Seq(Records)
      BY <1>2, <2>1
    <3> HIDE DEF g, first
    <3> QED
      BY <1>1, <1>2, <2>1, <3>1
  <2>2. CASE ~h.sent
    <3>1. g = HeadSent(h, "plain") /\ first = <<HeadRec(h, "plain")>>
      BY <2>2
    <3> HIDE DEF g, first
    <3> QED
      BY <1>1, <1>2, <2>2, <3>1, HeadFramed
  <2> QED
    BY <2>1, <2>2
<1>4. \/ h' = g /\ Emit(first)
      \/ /\ ~h.head
         /\ \/ ~g.chunked /\ h' = g /\ Emit(first \o <<r>>)
            \/ g.chunked /\ h' = [g EXCEPT !.buff = TRUE] /\ Emit(first)
            \/ g.chunked /\ h' = [g EXCEPT !.buff = FALSE] /\ Emit(first \o <<r>>)
  BY DEF HandlerWrites
<1>5. r \in Records /\ r.what = "data" /\ r.req = cur /\ <<r>> \in Seq(Records)
  BY <1>2, RecTyped
<1> HIDE DEF g, first, r
<1>6. /\ first \o <<r>> \in Seq(Records) /\ out \o first \in Seq(Records)
      /\ (out \o first) \o <<r>> = out \o (first \o <<r>>)
  BY <1>2, <1>3, <1>5
<1>7. /\ h'.method = g.method /\ h'.handler = g.handler /\ h'.sent = g.sent /\ h'.close = g.close
      /\ h'.chunked = g.chunked /\ h'.head = g.head /\ h'.outClosed = g.outClosed
      /\ h'.buff => g.buff \/ (g.chunked /\ ~h.head)
  BY <1>3, <1>4 DEF Sound, Fields
<1>8. g.buff => g.chunked /\ cur \notin Bare
  BY <1>3 DEF Writer
<1>9. Framed(h', pc', kinds[cur])
  BY <1>1, <1>2, <1>3, <1>7 DEF Framed
<1>10. CASE Emit(first)
  <2>1. out' = out \o first
    BY <1>3, <1>10, Emitted
  <2>2. Writer(out \o first, cur, h', Bare)
    BY <1>2, <1>3, <1>7, <1>8, WriterQuiet
  <2> QED
    BY <1>1, <1>9, <2>1, <2>2, FramingLeft
<1>11. CASE Emit(first \o <<r>>) /\ ~h.head
  <2>1. out' = out \o (first \o <<r>>)
    BY <1>6, <1>11, Emitted
  <2>2. Writer((out \o first) \o <<r>>, cur, h', Bare)
    BY <1>2, <1>3, <1>5, <1>6, <1>7, <1>8, <1>11, WriterBody
  <2> QED
    BY <1>1, <1>6, <1>9, <2>1, <2>2, FramingLeft
<1> QED
  BY <1>4, <1>10, <1>11

LEMMA HandlerErrorPageFramed ==
    ASSUME Conn, Framing, HandlerErrorPage
    PROVE  Framing'
<1>1. PICK code \in PageCode : Finish(ErrorPage(h, code), ErrorPageOut(h, code))
  BY DEF HandlerErrorPage
<1>2. pc = "handler" /\ UNCHANGED <<kinds, cur, threw>>
  BY DEF HandlerErrorPage, LastMove, HandlerOnly, clientVars
<1>3. /\ Sound(h) /\ h.method /\ cur # 0 /\ Writer(out, cur, h, Bare) /\ h.head = kinds[cur].head
      /\ kinds[cur].minor # 2 /\ (~h.head => cur \notin Bare) /\ (~h.sent => ~h.outClosed)
  BY <1>2, HandlerFramedFacts
<1> DEFINE e == ErrorPage(h, code)
           o == ErrorPageOut(h, code)
<1>4. e.sent /\ e.method = h.method /\ Sound(e)
  BY <1>3, ErrorPageSound
<1>5. o \in Seq(Records) /\ Writer(out \o o, cur, e, Bare) /\ (~h.sent => e.head = h.head)
  BY <1>2, <1>3, PageFramed
<1>6. h.sent => e.head = h.head
  BY <1>3 DEF ErrorPage, Sound, Fields
<1> HIDE DEF e, o
<1>7. Finish(e, o)
  BY <1>1 DEF e, o
<1>8. Emit(o) \/ EmitFlush(o)
  BY <1>7 DEF Finish, Remove
<1>9. out' = out \o o
  BY <1>5, <1>8, Emitted
<1>10. /\ pc' = "removed" => Gone(out')
       /\ pc' # "removed" => Writer(out', cur, h', Bare) /\ Framed(h', pc', kinds[cur])
  BY <1>3, <1>4, <1>5, <1>6, <1>7, <1>9, FinishFramed
<1> QED
  BY <1>2, <1>10, FramingLeft

(* A return that ends the request. *)
LEMMA FinalFramed ==
    ASSUME Conn, Framing, pc = "handler", NEW code, Final(code), UNCHANGED <<kinds, cur, threw>>
    PROVE  Framing'
<1>1. /\ Sound(h) /\ h.method /\ cur # 0 /\ out \in Seq(Records) /\ Writer(out, cur, h, Bare)
      /\ h.head = kinds[cur].head /\ kinds[cur].minor # 2 /\ (~h.head => cur \notin Bare)
  BY HandlerFramedFacts
<1>2. CASE h.sent
  <2>1. Finish(h, <<>>) /\ <<>> \in Seq(Records) /\ out \o <<>> = out
    BY <1>1, <1>2 DEF Final
  <2>2. Emit(<<>>) \/ EmitFlush(<<>>)
    BY <2>1 DEF Finish, Remove
  <2>3. out' = out \o <<>>
    BY <2>1, <2>2, Emitted
  <2>4. /\ pc' = "removed" => Gone(out')
        /\ pc' # "removed" => Writer(out', cur, h', Bare) /\ Framed(h', pc', kinds[cur])
    BY <1>1, <1>2, <2>1, <2>3, FinishFramed
  <2> QED
    BY <2>4, FramingLeft
<1>3. CASE ~h.sent
  <2>1. ErrorPageKA(h, code)
    BY <1>3 DEF Final
  <2>2. /\ pc' = "removed" => Gone(out')
        /\ pc' # "removed" => Writer(out', cur, h', Bare) /\ Framed(h', pc', kinds[cur])
    BY <1>1, <2>1, ErrorPageKAFramed
  <2> QED
    BY <2>2, FramingLeft
<1> QED
  BY <1>2, <1>3

LEMMA ReturnsFinalFramed ==
    ASSUME Conn, Framing, ReturnsFinal
    PROVE  Framing'
<1>1. pc = "handler" /\ UNCHANGED <<kinds, cur, threw>> /\ \E code \in PageCode : Final(code)
  BY DEF ReturnsFinal, LastMove, HandlerOnly, PageCode, clientVars
<1> QED
  BY <1>1, FinalFramed

LEMMA ReturnsContinueFramed ==
    ASSUME Conn, Framing, ReturnsContinue
    PROVE  Framing'
<1> DEFINE g == IF h.sent THEN h ELSE [h EXCEPT !.needCont = FALSE]
           recs == IF ~h.sent /\ h.needCont THEN Continue ELSE <<>>
           e == IF h.sent THEN "eos" ELSE g.ev
           d == [g EXCEPT !.again = TRUE, !.ev = e]
<1>1. pc = "handler" /\ UNCHANGED <<kinds, cur, threw>>
  BY DEF ReturnsContinue, Move, HandlerOnly, clientVars
<1>2. h \in Fields /\ Framed(h, "handler", kinds[cur]) /\ h.handler
  BY <1>1, HandlerFramedFacts
<1>3. CASE h.again
  <2>1. Final("page")
    BY <1>3 DEF ReturnsContinue
  <2> QED
    BY <1>1, <2>1, FinalFramed
<1>4. CASE ~h.again
  <2>1. Emit(recs) /\ ((h' = g /\ pc' = "loop") \/ (h' = d /\ pc' = "handler"))
    BY <1>4 DEF ReturnsContinue, Goto
  <2>2. g \in Fields /\ SameResponse(h, g)
    <3>1. g = h \/ g = [h EXCEPT !.needCont = FALSE]
      OBVIOUS
    <3> HIDE DEF g
    <3> QED
      BY <1>2, <3>1 DEF SameResponse, Fields
  <2> HIDE DEF g
  <2>3. SameResponse(h, d)
    BY <2>2 DEF SameResponse, Fields
  <2> HIDE DEF d
  <2>4. recs \in Seq(Records) /\ Writer(out \o recs, cur, g, Bare) /\ Writer(out \o recs, cur, d, Bare)
    BY <1>1, <2>2, <2>3, ContinueFramed
  <2> HIDE DEF recs
  <2>5. out' = out \o recs
    BY <2>1, <2>4, Emitted
  <2>6. Writer(out', cur, h', Bare) /\ SameResponse(h, h') /\ pc' \in {"loop", "handler"}
    BY <2>1, <2>2, <2>3, <2>4, <2>5
  <2>7. Framed(h', pc', kinds[cur])
    BY <1>2, <2>6 DEF Framed, SameResponse
  <2> QED
    BY <1>1, <2>6, <2>7, FramingLeft
<1> QED
  BY <1>3, <1>4

LEMMA ReturnsWaitForWriteFramed ==
    ASSUME Conn, Framing, ReturnsWaitForWrite
    PROVE  Framing'
<1>1. pc = "handler" /\ pc' = "parked" /\ UNCHANGED <<kinds, cur, threw>>
  BY DEF ReturnsWaitForWrite, Move, HandlerOnly, Park, clientVars
<1>2. /\ Sound(h) /\ h.handler /\ h.method /\ Writer(out, cur, h, Bare) /\ Framed(h, "handler", kinds[cur])
      /\ h.head = kinds[cur].head /\ kinds[cur].minor # 2
      /\ ~h.sent => ~h.outClosed /\ (h.close \/ h.chunked)
  BY <1>1, HandlerFramedFacts
<1>3. CASE h.sent
  <2>1. h' = h /\ Emit(<<>>)
    BY <1>3 DEF ReturnsWaitForWrite
  <2>2. out' = out
    BY <2>1, NothingWritten
  <2>3. SameResponse(h, h') /\ Framed(h, pc', kinds[cur])
    BY <1>1, <1>2, <2>1 DEF SameResponse, Framed
  <2> QED
    BY <1>1, <2>2, <2>3, QuietFramed
<1>4. CASE ~h.sent
  <2> DEFINE g == HeadSent(h, "plain")
             r == HeadRec(h, "plain")
  <2>1. h' = g /\ Emit(<<r>>)
    BY <1>4 DEF ReturnsWaitForWrite
  <2>2. /\ Writer(out \o <<r>>, cur, g, Bare) /\ <<r>> \in Seq(Records)
        /\ g.method /\ g.sent /\ ~g.outClosed /\ g.handler /\ g.head = h.head
    BY <1>2, <1>4, HeadFramed
  <2> HIDE DEF g, r
  <2>3. out' = out \o <<r>>
    BY <2>1, <2>2, Emitted
  <2>4. Framed(h', pc', kinds[cur])
    BY <1>1, <1>2, <2>1, <2>2 DEF Framed
  <2> QED
    BY <1>1, <2>1, <2>2, <2>3, <2>4, FramingLeft
<1> QED
  BY <1>3, <1>4

(* An exception: the last chunk is out already, or never gets there. *)
LEMMA ThrowsFramed ==
    ASSUME Conn, Framing, HandlerThrows \/ ReadThrows
    PROVE  Framing'
<1>1. pc \in {"handler", "reading", "probing", "drain"} /\ Throw(h) /\ UNCHANGED <<kinds, cur>>
  BY DEF HandlerThrows, ReadThrows, LastMove, Needs, Draining, clientVars
<1>2. /\ Sound(h) /\ Control(h, pc, cmd, ret, cur) /\ h.method /\ cur # 0 /\ out \in Seq(Records)
      /\ Writer(out, cur, h, Bare) /\ Framed(h, pc, kinds[cur]) /\ threw = {}
      /\ (~h.sent => ~h.outClosed)
  BY <1>1 DEF Conn, Control, Wires, Framing, Framed
<1> DEFINE u == UseHTTP11(h, FALSE)
           o == ErrorPageOut(u, "page")
<1>3. /\ Sound(u) /\ u.close /\ u.method = h.method /\ u.outClosed = h.outClosed /\ u.sent = h.sent
  BY <1>2, UseHTTP11Sound
<1>4. u.chunked = FALSE /\ u.buff = h.buff /\ u.head = h.head
  BY <1>2 DEF Sound, Fields, UseHTTP11
<1>5. h' = ErrorPage(u, "page") /\ EmitFlush(o) /\ pc' = "removed" 
      /\ threw' = {[req |-> cur, at |-> Len(out), sent |-> h.sent]}
  BY <1>1, <1>2 DEF Throw, Remove, Goto
<1>6. CASE h.sent
  <2>1. o = <<>> /\ out \o <<>> = out /\ <<>> \in Seq(Records)
    <3>1. o = <<>>
      BY <1>3, <1>6 DEF ErrorPageOut
    <3> HIDE DEF o
    <3> QED
      BY <1>2, <3>1
  <2> HIDE DEF o, u
  <2>2. out' = out
    BY <1>5, <2>1, Emitted
  <2>3. Gone(out)
    BY <1>2, WriterGone
  <2>4. ~h.outClosed => Has(out, cur, "head") /\ ~Has(out, cur, "end")
    BY <1>2, <1>6 DEF Writer, OpenAt, Has
  <2>5. h'.outClosed = h.outClosed
    BY <1>3, <1>5, ErrorPageSound
  <2> QED
    BY <1>5, <2>2, <2>3, <2>4, <2>5 DEF Framing, Failed
<1>7. CASE ~h.sent
  <2>1. ~u.buff /\ Writer(out, cur, u, {})
    <3> HIDE DEF u
    <3>1. ~u.buff
      BY <1>2, <1>4, <1>7 DEF Writer
    <3>2. Writer(out, cur, h, {})
      BY <1>2 DEF Writer
    <3> QED
      BY <1>3, <1>7, <3>1, <3>2, WriterQuiet
  <2> DEFINE e == ErrorPage(u, "page")
  <2>2. e.sent /\ e.method = u.method /\ e.outClosed = u.outClosed
    BY <1>3, ErrorPageSound
  <2>3. o \in Seq(Records) /\ Gone(out \o o) /\ Writer(out \o o, cur, e, {})
    <3> HIDE DEF u
    <3> QED
      BY <1>1, <1>2, <1>3, <2>1, PageFramed
  <2>4. h' = e
    BY <1>5
  <2> HIDE DEF o, u, e
  <2>5. out' = out \o o
    BY <1>5, <2>3, Emitted
  <2>6. Has(out \o o, cur, "head") /\ ~Has(out \o o, cur, "end")
    BY <1>2, <1>3, <1>7, <2>2, <2>3 DEF Writer, OpenAt, Has
  <2> QED
    BY <1>5, <1>7, <2>3, <2>5, <2>6 DEF Framing, Failed
<1> QED
  BY <1>6, <1>7

LEMMA ChunkFinishedFramed ==
    ASSUME Conn, Framing, ChunkFinished
    PROVE  Framing'
<1> DEFINE g == [h EXCEPT !.buff = FALSE]
           d == [g EXCEPT !.outClosed = TRUE]
           rest == IF h.buff THEN <<Rec("data")>> ELSE <<>>
           last == IF ~h.chunked THEN <<>> ELSE rest \o <<Rec("end")>>
<1>1. pc = "drain" /\ UNCHANGED <<kinds, cur, threw>>
  BY DEF ChunkFinished, ReadOnly, clientVars
<1>2. /\ Sound(h) /\ Control(h, pc, cmd, ret, cur) /\ h.method /\ h.sent /\ cur # 0 /\ cur \in Nat
      /\ out \in Seq(Records) /\ Writer(out, cur, h, Bare) /\ Framed(h, pc, kinds[cur]) /\ ~h.outClosed
      /\ (h.buff => h.chunked /\ cur \notin Bare)
  BY <1>1, HttpConnAssumption DEF Conn, Control, Wires, Framing, Framed, Writer
<1>3. EmitFlush(last)
  BY DEF ChunkFinished, Remove
<1>4. \/ h' = d /\ pc' = "handler"
      \/ ~h.close /\ h' = Clear(g) /\ pc' = "loop"
      \/ h' = Clear(g) /\ pc' = "removed"
  BY DEF ChunkFinished, Remove, Goto
<1>5. /\ Sound(g) /\ g.sent /\ g.method /\ g.close = h.close /\ ~g.buff /\ g.outClosed = h.outClosed
      /\ g.chunked = h.chunked /\ g.handler = h.handler /\ g.head = h.head
  BY <1>2 DEF Sound, Fields
<1> HIDE DEF g
<1>7. /\ Sound(d) /\ d.sent /\ d.method /\ d.close = h.close /\ ~d.buff /\ d.outClosed
      /\ d.chunked = h.chunked /\ d.handler = h.handler /\ d.head = h.head
  BY <1>5 DEF Sound, Fields
<1> HIDE DEF d
<1>8. /\ rest \in Seq(Records) /\ out \o rest \in Seq(Records)
      /\ Writer(out \o rest, cur, g, Bare)
  <2>1. CASE h.buff
    <3> DEFINE r == Rec("data")
    <3>1. r \in Records /\ r.what = "data" /\ r.req = cur /\ <<r>> \in Seq(Records) /\ rest = <<r>>
      BY <1>2, <2>1, RecTyped
    <3> HIDE DEF r, rest
    <3>2. Writer(out \o <<r>>, cur, g, Bare)
      BY <1>2, <1>5, <2>1, <3>1, WriterBody
    <3> QED
      BY <1>2, <3>1, <3>2
  <2>2. CASE ~h.buff
    <3>1. rest = <<>> /\ out \o <<>> = out /\ <<>> \in Seq(Records)
      BY <1>2, <2>2
    <3>2. Writer(out, cur, g, Bare)
      BY <1>2, <1>5, WriterQuiet
    <3> HIDE DEF rest
    <3> QED
      BY <1>2, <3>1, <3>2
  <2> QED
    BY <2>1, <2>2
<1>9. last \in Seq(Records) /\ Writer(out \o last, cur, d, Bare)
  <2>1. CASE h.chunked
    <3> DEFINE r == Rec("end")
    <3>1. r \in Records /\ r.what = "end" /\ r.req = cur /\ <<r>> \in Seq(Records) /\ last = rest \o <<r>>
      BY <1>2, <2>1, RecTyped
    <3> HIDE DEF r, rest, last
    <3>2. Writer((out \o rest) \o <<r>>, cur, d, Bare)
      BY <1>2, <1>5, <1>7, <1>8, <2>1, <3>1, WriterBody
    <3>3. last \in Seq(Records) /\ (out \o rest) \o <<r>> = out \o last
      BY <1>2, <1>8, <3>1
    <3> QED
      BY <3>2, <3>3
  <2>2. CASE ~h.chunked
    <3>1. last = <<>> /\ out \o <<>> = out /\ <<>> \in Seq(Records)
      BY <1>2, <2>2
    <3> HIDE DEF rest, last
    <3>2. Writer(out, cur, d, Bare)
      BY <1>2, <1>7, <2>2, WriterClosed
    <3> QED
      BY <3>1, <3>2
  <2> QED
    BY <2>1, <2>2
<1> HIDE DEF rest, last
<1>10. out' = out \o last
  BY <1>3, <1>9, Emitted
<1>11. out \o last \in Seq(Records)
  BY <1>2, <1>9
<1>12. CASE h' = d /\ pc' = "handler"
  <2>1. Framed(h', pc', kinds[cur])
    BY <1>1, <1>2, <1>7, <1>12 DEF Framed
  <2> QED
    BY <1>1, <1>9, <1>10, <1>12, <2>1, FramingLeft
<1>13. CASE ~h.close /\ h' = Clear(g) /\ pc' = "loop"
  <2>1. ~h'.sent /\ ~h'.method /\ ~h'.handler
    BY <1>5, <1>13, ClearSound
  <2>2. ~h'.buff
    BY <1>5, <1>13 DEF Clear, Sound, Fields
  <2>3. Writer(out \o last, cur, h', Bare)
    BY <1>7, <1>9, <1>11, <1>13, <2>1, <2>2, WriterOver
  <2>4. Framed(h', pc', kinds[cur])
    BY <1>13, <2>1 DEF Framed
  <2> QED
    BY <1>1, <1>10, <1>13, <2>3, <2>4, FramingLeft
<1>14. CASE pc' = "removed"
  <2>1. Gone(out \o last)
    BY <1>9, <1>11, WriterGone
  <2> QED
    BY <1>1, <1>10, <1>14, <2>1, FramingLeft
<1> QED
  BY <1>4, <1>12, <1>13, <1>14

LEMMA ClientFramed ==
    ASSUME ConnInv, Framing, ClientNext
    PROVE  Framing'
<1>1. UNCHANGED <<out, flushed, h, pc, cmd, ret, cur, ops, misframed, threw>>
  BY DEF ClientNext, ClientBegins, ClientContinues, ClientSendsRaw, ClientCloses, histVars
<1>2. kinds' = kinds \/ \E k \in Kinds : kinds' = Append(kinds, k)
  BY DEF ClientNext, ClientBegins, ClientContinues, ClientSendsRaw, ClientCloses
<1>3. kinds \in Seq(Kinds) /\ cur \in 0 .. Len(kinds) /\ out \in Seq(Records)
  BY DEF ConnInv, Conn, Wires, Coming
<1>4. \A r \in DOMAIN kinds : kinds'[r] = kinds[r]
  BY <1>2, <1>3
<1>5. DOMAIN kinds = 1 .. Len(kinds) /\ Len(kinds) \in Nat /\ \A i \in DOMAIN out : out[i].req \in Nat
  BY <1>3, Numbered
<1>6. CASE pc = "removed"
  BY <1>1, <1>6 DEF Framing
<1>7. CASE pc # "removed"
  <2>1. Writer(out, cur, h, Bare) /\ Framed(h, pc, kinds[cur]) /\ threw = {} /\ Control(h, pc, cmd, ret, cur)
    BY <1>7 DEF Framing, ConnInv, Conn
  <2>2. \A r \in Nat : r <= cur /\ r \notin Bare => r \notin Bare'
    <3> SUFFICES ASSUME NEW r \in Nat, r <= cur, r \in Bare' PROVE r \in Bare
      OBVIOUS
    <3>1. r \in DOMAIN kinds' /\ kinds'[r].head /\ kinds'[r].minor # 2
      BY DEF Bare
    <3>2. r # 0
      BY <1>2, <1>3, <3>1
    <3>3. r \in DOMAIN kinds
      BY <1>3, <1>5, <3>2
    <3> QED
      BY <1>4, <3>1, <3>3 DEF Bare
  <2>3. Writer(out, cur, h, Bare')
    BY <1>3, <1>5, <2>1, <2>2 DEF Writer
  <2>4. h.method => cur \in DOMAIN kinds
    BY <1>3, <1>5, <1>7, <2>1 DEF Control
  <2>5. Framed(h, pc, kinds'[cur])
    BY <1>4, <1>7, <2>1, <2>4 DEF Framed, Control
  <2> QED
    BY <1>1, <1>7, <2>1, <2>3, <2>5 DEF Framing
<1> QED
  BY <1>6, <1>7

LEMMA FramingInit == Init => Framing
<1> SUFFICES ASSUME Init PROVE Framing
  OBVIOUS
<1>1. /\ ~h.method /\ ~h.handler /\ ~h.sent /\ ~h.buff
      /\ out = <<>> /\ pc = "parked" /\ threw = {} /\ DOMAIN out = {}
  BY DEF Init
<1>2. Writer(out, cur, h, Bare)
  BY <1>1 DEF Writer, Parts, AllWhole
<1>3. Framed(h, pc, kinds[cur])
  BY <1>1 DEF Framed
<1> QED
  BY <1>1, <1>2, <1>3 DEF Framing

LEMMA FramingStep == ConnInv /\ Framing /\ [Next]_vars => Framing'
<1> SUFFICES ASSUME ConnInv, Framing, [Next]_vars PROVE Framing'
  OBVIOUS
<1>1. Conn
  BY DEF ConnInv
<1>2. CASE ClientNext
  BY <1>2, ClientFramed
<1>3. CASE EventLoop \/ Timeout \/ HeaderIncomplete
  BY <1>1, <1>3, EventFramed
<1>4. CASE RequestLine \/ BadVersion \/ HeaderComplete \/ GarbageLine \/ HeaderEof
  BY <1>1, <1>4, RequestLineFramed, BadVersionFramed, HeaderCompleteFramed, NoHeaderFramed
<1>5. CASE Handler \/ ReadThrows
  BY <1>1, <1>5, HandlerReadsFramed, HandlerSilentFramed, HandlerSendsHeadFramed, HandlerWritesFramed,
     HandlerErrorPageFramed, ThrowsFramed, ReturnsFinalFramed, ReturnsContinueFramed,
     ReturnsWaitForWriteFramed DEF Handler
<1>6. CASE Body
  BY <1>1, <1>6, ReadFramed, ChunkFinishedFramed DEF Body
<1>7. CASE UNCHANGED vars
  BY <1>7 DEF vars, Framing, Bare
<1> QED
  BY <1>2, <1>3, <1>4, <1>5, <1>6, <1>7 DEF Next, ServerNext, Header

-----------------------------------------------------------------------------
(* Waiting for input                                                       *)

(* A connection that waits for an event of its input has written out all   *)
(* it buffered.                                                            *)
Flushed == pc = "parked" /\ cmd = "read" => flushed = Len(out)

(* The client leaves off right behind a request line: the last token sent  *)
(* is one, or the server waits for the rest of the header.                 *)
Behind ==
    /\ in # <<>> /\ in[Len(in)].what = "line" => pos = 1
    /\ pc \in {"header", "lines", "loop", "parked"} /\ h.method /\ ~h.handler /\ in = <<>> => pos = 1

(* Where the other steps leave the thread: not in a header, and not        *)
(* waiting for one that has begun.                                         *)
LEMMA Elsewhere ==
    ASSUME Conn, Conn',
           BadVersion \/ HeaderComplete \/ GarbageLine \/ HeaderEof \/ Handler \/ Body \/ Timeout \/ ReadThrows
    PROVE  /\ pc' \notin {"header", "lines"}
           /\ pc' = "parked" => cmd' # "read" /\ h'.handler
           /\ pc' = "loop" => ~h'.method \/ h'.handler
<1>1. /\ h \in Fields /\ h' \in Fields /\ (pc' = "parked" /\ cmd' # "read" => h'.handler)
      /\ pc = "handler" => h.handler
  BY DEF Conn, Sound, Control
<1>2. ASSUME NEW g, h' = Clear(g) PROVE ~h'.method
  BY <1>1, <1>2 DEF Clear, Fields
<1>3. ASSUME NEW g, NEW recs, Finish(g, recs)
      PROVE  pc' \in {"drain", "removed", "loop"} /\ (pc' = "loop" => ~h'.method)
  BY <1>2, <1>3 DEF Finish, Remove, Goto, Drain
<1>4. ASSUME NEW g, NEW code, ErrorPageKA(g, code) PROVE pc' \in {"drain", "removed"}
  BY <1>4 DEF ErrorPageKA, Remove, Goto, Drain
<1>5. ASSUME NEW code, Final(code)
      PROVE  pc' \in {"drain", "removed", "loop"} /\ (pc' = "loop" => ~h'.method)
  BY <1>3, <1>4, <1>5 DEF Final
<1>6. CASE BadVersion \/ GarbageLine \/ HeaderEof \/ Timeout \/ ReadThrows \/ HandlerThrows
  BY <1>4, <1>6 DEF BadVersion, GarbageLine, HeaderEof, Timeout, ReadThrows, HandlerThrows, Throw, Remove, Goto
<1>7. CASE HeaderComplete
  <2>1. \/ \E g, code : ErrorPageKA(g, code)
        \/ \E g, recs : Finish(g, recs)
        \/ pc' = "handler"
    BY <1>7 DEF HeaderComplete, Goto
  <2> QED
    BY <1>3, <1>4, <2>1
<1>8. CASE HandlerErrorPage \/ ReturnsFinal
  BY <1>3, <1>5, <1>8 DEF HandlerErrorPage, ReturnsFinal
<1>9. CASE ReturnsContinue
  <2>1. CASE h.again
    <3>1. Final("page")
      BY <1>9, <2>1 DEF ReturnsContinue
    <3> QED
      BY <1>5, <3>1
  <2>2. CASE ~h.again
    <3>1. h.handler
      BY <1>1, <1>9 DEF ReturnsContinue, Move
    <3>2. \/ pc' = "handler"
          \/ pc' = "loop" /\ h' = (IF h.sent THEN h ELSE [h EXCEPT !.needCont = FALSE])
      BY <1>9, <2>2 DEF ReturnsContinue, Goto
    <3> QED
      BY <1>1, <3>1, <3>2 DEF Fields
  <2> QED
    BY <2>1, <2>2
<1>10. CASE ReturnsWaitForWrite \/ ReturnsSleep
  BY <1>1, <1>10 DEF ReturnsWaitForWrite, ReturnsSleep, Park
<1>11. CASE HandlerReads \/ HandlerProbes \/ HandlerSendsHead \/ HandlerWrites \/ HandlerClosesOutput
  BY <1>11 DEF HandlerReads, HandlerProbes, HandlerSendsHead, HandlerWrites, HandlerClosesOutput, Goto, Drain
<1>12. CASE ReadReturns \/ ReadUnit \/ OpenPostChunk \/ ReadBlocks \/ ReadZero
  BY <1>12 DEF ReadReturns, ReadUnit, OpenPostChunk, ReadBlocks, ReadZero, Needs, Draining, Goto
<1>13. CASE ChunkFinished
  <2>1. pc' \in {"handler", "loop", "removed"} /\ (pc' = "loop" => \E g : h' = Clear(g))
    BY <1>13 DEF ChunkFinished, Remove, Goto
  <2> QED
    BY <1>2, <2>1
<1> QED
  BY <1>6, <1>7, <1>8, <1>9, <1>10, <1>11, <1>12, <1>13 DEF Handler, Body

LEMMA ScriptLength ==
    ASSUME NEW k \in KindType
    PROVE  Len(Script(k)) \in Nat /\ Len(Script(k)) > 1
<1>1. k.body \in {"none", "len", "chunked"}
  BY DEF KindType
<1>2. \/ Script(k) = <<"line", "hdrs">> \o <<>>
      \/ Script(k) = <<"line", "hdrs">> \o <<"byte", "byte">>
      \/ Script(k) = <<"line", "hdrs">> \o <<"chunk", "byte", "chunk", "byte", "end">>
  BY <1>1 DEF Script
<1> QED
  BY <1>2

LEMMA WaitStep ==
    ASSUME ConnInv, ConnInv', [Next]_vars, Flushed, Behind
    PROVE  Flushed' /\ Behind'
<1>1. /\ Conn /\ Conn' /\ in \in Seq(Tokens) /\ kinds \in Seq(Kinds) /\ Len(kinds) \in Nat /\ pos \in Nat
      /\ Kinds \subseteq KindType
  BY HttpConnAssumption DEF ConnInv, Coming
<1>2. CASE ClientNext
  <2>1. UNCHANGED <<out, flushed, h, pc, cmd>>
    BY <1>2 DEF ClientNext, ClientBegins, ClientContinues, ClientSendsRaw, ClientCloses
  <2>2. Flushed'
    BY <2>1 DEF Flushed
  <2>3. CASE ClientCloses
    <3>1. in' = in /\ pos' = pos
      BY <2>3 DEF ClientCloses
    <3> QED
      BY <2>1, <2>2, <3>1 DEF Behind
  <2>4. ASSUME NEW t, in' = Append(in, t), t.what = "line" => pos' = 1
        PROVE  Behind'
    <3>1. in' # <<>> /\ in'[Len(in')] = t
      BY <1>1, <2>4
    <3> QED
      BY <2>4, <3>1 DEF Behind
  <2>5. CASE ClientBegins
    BY <2>2, <2>4, <2>5 DEF ClientBegins, Send
  <2>6. CASE ClientContinues \/ ClientSendsRaw
    <3>1. Len(kinds) \in DOMAIN kinds /\ kinds[Len(kinds)] \in KindType
      BY <1>1, <2>6 DEF ClientContinues, ClientSendsRaw, Newest
    <3>2. \E w \in {"hdrs", "byte", "chunk", "end", "raw"} : in' = Append(in, [req |-> Newest, what |-> w])
      <4>1. CASE ClientSendsRaw
        BY <4>1 DEF ClientSendsRaw, Send
      <4>2. CASE ClientContinues
        <5>1. pos # 0
          BY <1>1, <3>1 DEF ConnInv, Coming
        <5>2. /\ pos < Len(Script(kinds[Len(kinds)]))
              /\ in' = Append(in, [req |-> Newest, what |-> Script(kinds[Len(kinds)])[pos + 1]])
          BY <4>2 DEF ClientContinues, Send, Newest
        <5> QED
          BY <1>1, <3>1, <5>1, <5>2, ScriptTokens
      <4> QED
        BY <2>6, <4>1, <4>2
    <3> QED
      BY <2>2, <2>4, <3>2
  <2> QED
    BY <1>2, <2>3, <2>5, <2>6, <2>2 DEF ClientNext
<1>3. ASSUME UNCHANGED clientVars, in' = in \/ (in # <<>> /\ in' = Tail(in))
      PROVE  in' # <<>> /\ in'[Len(in')].what = "line" => pos' = 1
  <2>1. CASE in' = in
    BY <1>3, <2>1 DEF Behind, clientVars
  <2>2. CASE in # <<>> /\ in' = Tail(in)
    <3>1. in' # <<>> => in'[Len(in')] = in[Len(in)]
      BY <1>1, <2>2
    <3> QED
      BY <1>3, <2>2, <3>1 DEF Behind, clientVars
  <2> QED
    BY <1>3, <2>1, <2>2
<1>4. CASE EventLoop
  <2>1. UNCHANGED clientVars /\ in' = in /\ pc \in {"parked", "loop"}
    BY <1>4 DEF EventLoop, DataReady, LoopAgain, LoopEnds, WriteReady, WakeUp
  <2>2. pc' = "parked" => EmitFlush(<<>>)
    BY <1>4 DEF EventLoop, DataReady, LoopAgain, LoopEnds, WriteReady, WakeUp, DataEvent, Activate, Goto
  <2>3. Flushed'
    BY <2>2 DEF Flushed, EmitFlush
  <2>4. pc' = "handler" \/ (h'.method = h.method /\ h'.handler = h.handler)
    <3>1. h \in Fields
      BY <1>1 DEF Conn, Sound
    <3>2. pc' = "handler" \/ h' \in {h, [h EXCEPT !.ev = "request"]}
      BY <1>4 DEF EventLoop, DataReady, LoopAgain, LoopEnds, WriteReady, WakeUp, DataEvent, Activate, Goto
    <3> QED
      BY <3>1, <3>2 DEF Fields
  <2>5. in' # <<>> /\ in'[Len(in')].what = "line" => pos' = 1
    BY <1>3, <2>1
  <2> QED
    BY <2>1, <2>3, <2>4, <2>5 DEF Behind, clientVars
<1>5. CASE RequestLine
  <2>1. /\ UNCHANGED clientVars /\ in # <<>> /\ in' = Tail(in) /\ Head(in).what = "line"
        /\ pc' \in {"badversion", "lines"}
    BY <1>5 DEF RequestLine, Goto
  <2>2. in' # <<>> /\ in'[Len(in')].what = "line" => pos' = 1
    BY <1>3, <2>1
  <2>3. in' = <<>> => pos' = 1
    <3>1. Tail(in) = <<>> => in[Len(in)] = Head(in)
      <4>1. Len(Tail(in)) = Len(in) - 1 /\ Len(in) \in Nat /\ Head(in) = in[1]
        BY <1>1, <2>1
      <4>2. Len(<<>>) = 0
        OBVIOUS
      <4>3. ASSUME NEW t, t = Tail(in), t = <<>> PROVE Len(in) = 1
        <5>1. Len(t) = 0
          BY <4>2, <4>3
        <5>2. Len(t) = Len(in) - 1
          BY <4>1, <4>3
        <5> QED
          BY <4>1, <5>1, <5>2
      <4> QED
        BY <4>1, <4>3
    <3> QED
      BY <2>1, <3>1 DEF Behind, clientVars
  <2> QED
    BY <2>1, <2>2, <2>3 DEF Behind, Flushed
<1>6. CASE HeaderIncomplete
  <2>1. UNCHANGED <<clientVars, in, h>> /\ pc = "lines" /\ pc' = "loop"
    BY <1>6 DEF HeaderIncomplete, Goto
  <2> QED
    BY <2>1 DEF Behind, Flushed, clientVars
<1>7. CASE BadVersion \/ HeaderComplete \/ GarbageLine \/ HeaderEof \/ Handler \/ Body \/ Timeout \/ ReadThrows
  <2>1. UNCHANGED clientVars /\ (in' = in \/ (in # <<>> /\ in' = Tail(in)))
    BY <1>7 DEF BadVersion, HeaderComplete, GarbageLine, HeaderEof, Timeout, ReadThrows,
       Handler, HandlerReads, HandlerProbes, HandlerSendsHead, HandlerWrites, HandlerErrorPage,
       HandlerClosesOutput, HandlerThrows, ReturnsFinal, ReturnsContinue, ReturnsWaitForWrite, ReturnsSleep,
       HandlerOnly, Body, ReadReturns, ReadUnit, OpenPostChunk, ReadBlocks, ReadZero, ChunkFinished, ReadOnly
  <2>2. in' # <<>> /\ in'[Len(in')].what = "line" => pos' = 1
    BY <1>3, <2>1
  <2> QED
    BY <1>1, <1>7, <2>2, Elsewhere DEF Behind, Flushed
<1>8. CASE UNCHANGED vars
  BY <1>8 DEF vars, Behind, Flushed
<1> QED
  BY <1>2, <1>4, <1>5, <1>6, <1>7, <1>8 DEF Next, ServerNext, Header

-----------------------------------------------------------------------------
(* The input. These operators, too, take their arguments explicitly.       *)

(* Of request k the client sends, in the end, the header alone when it has *)
(* a body that waits for 100 Continue and w, whether that is out, is false.*)
Owes(k, w) == k.expect = "100" /\ k.body # "none" /\ ~w
Upto(k, w) == IF Owes(k, w) THEN 2 ELSE Len(Script(k))

(* The tokens a + 1 .. a + n of s are those of request r in it, which is   *)
(* k, and c of that request have been there before.                        *)
Stretch(s, k, r, a, n, c) ==
    /\ a + n <= Len(s)
    /\ \A i \in DOMAIN s :
         /\ s[i].req = r <=> a < i /\ i <= a + n
         /\ s[i].req = r => s[i].what = Script(k)[c + (i - a)]

(* m tokens of request r have been sent when the client has begun ks and   *)
(* sent p of the newest: all of them if it is not the newest, and a body   *)
(* that is held back then has been answered in o.                          *)
SentOf(o, ks, p, r, m) ==
    /\ m <= Upto(ks[r], Has(o, r, "cont"))
    /\ r = Len(ks) => m = p
    /\ r # Len(ks) => /\ m = Upto(ks[r], Has(o, r, "cont"))
                      /\ Owes(ks[r], Has(o, r, "cont")) => Has(o, r, "head")

(* What g says of the rest of request k's body when c of its tokens have   *)
(* been read and w is whether 100 Continue is out.                         *)
Rest(g, k, w, c) ==
    IF k.expect = "100" /\ g.sent /\ ~w THEN c = 2 /\ g.remain = 0 /\ ~g.chunkedPost
    ELSE /\ k.body = "none" => c = 2 /\ g.remain = 0 /\ ~g.chunkedPost
         /\ k.body = "len" => c \in {2, 3, 4} /\ g.remain = 4 - c /\ ~g.chunkedPost
         /\ k.body = "chunked" =>
              IF g.chunkedPost THEN (c \in {2, 4, 6} /\ g.remain = 0) \/ (c \in {3, 5} /\ g.remain = 1)
              ELSE c = 7 /\ g.remain = 0

(* What the fields say at place p of request k, of which c tokens have     *)
(* been read: its request line alone before its handler is chosen, and all *)
(* of it, but for chunks, when it is over.                                 *)
Parsed(g, p, k, w, c) ==
    /\ ~g.method => k.body = "chunked" \/ c = Upto(k, w)
    /\ g.method /\ ~g.handler /\ p # "drain" => c = 1
    /\ g.handler \/ (p = "drain" /\ ~g.close) => Rest(g, k, w, c)
    /\ g.handler /\ g.outClosed /\ ~g.close => k.body = "chunked" \/ g.remain = 0
    /\ g.handler /\ g.needCont => k.expect = "100"

Arriving ==
    /\ \A i \in DOMAIN in : cur <= in[i].req /\ in[i].req <= Len(kinds)
    /\ \A i, j \in DOMAIN in : i < j => in[i].req <= in[j].req
    /\ \A r \in 1 .. Len(kinds) : cur < r =>
         \E a, n \in Nat : n # 0 /\ Stretch(in, kinds[r], r, a, n, 0) /\ SentOf(out, kinds, pos, r, n)

Parsing ==
    cur # 0 => \E n, c \in Nat :
        /\ Stretch(in, kinds[cur], cur, 0, n, c) /\ SentOf(out, kinds, pos, cur, c + n)
        /\ Parsed(h, pc, kinds[cur], Has(out, cur, "cont"), c)

Stream == (pc # "removed" \/ h.handler) /\ ~h.switched => Arriving /\ Parsing

(* A connection that has switched protocols never comes to another request.*)
Switched(g) == g.switched /\ g.handler /\ g.sent /\ g.remain = All /\ (g.outClosed => g.close)

(* The heads that are out have a framing, and that of a switch is there    *)
(* only on a connection that has switched.                                 *)
HeadsOf(o, s) == \A i \in DOMAIN o : o[i].what = "head" =>
    o[i].framing # "none" /\ (o[i].framing = "switch" => s)

Switch == pc # "removed" \/ h.handler =>
    /\ h.switched => Switched(h)
    /\ HeadsOf(out, h.switched)
    /\ \A r \in 1 .. cur : r < cur => Has(out, r, "head")
    /\ h.handler => cur # 0 /\ (h.sent \/ ~Has(out, cur, "head"))

(* Only the rest of a chunked body is ever read as a request.              *)
Misread == \A r \in misframed : r \in 1 .. Len(kinds) /\ kinds[r].body = "chunked"

LEMMA ScriptIs ==
    ASSUME NEW k \in KindType
    PROVE  /\ Script(k)[1] = "line" /\ Script(k)[2] = "hdrs"
           /\ k.body = "none" => Len(Script(k)) = 2
           /\ k.body = "len" => Len(Script(k)) = 4 /\ Script(k)[3] = "byte" /\ Script(k)[4] = "byte"
           /\ k.body = "chunked" =>
                /\ Len(Script(k)) = 7
                /\ Script(k)[3] = "chunk" /\ Script(k)[4] = "byte"
                /\ Script(k)[5] = "chunk" /\ Script(k)[6] = "byte" /\ Script(k)[7] = "end"
           /\ k.body \in {"none", "len", "chunked"}
           /\ Len(Script(k)) \in Nat /\ Len(Script(k)) > 1
<1>1. CASE k.body = "none"
  <2>1. Script(k) = <<"line", "hdrs">> \o <<>>
    BY <1>1 DEF Script
  <2> QED
    BY <1>1, <2>1
<1>2. CASE k.body = "len"
  <2>1. Script(k) = <<"line", "hdrs">> \o <<"byte", "byte">>
    BY <1>2 DEF Script
  <2> QED
    BY <1>2, <2>1
<1>3. CASE k.body = "chunked"
  <2>1. Script(k) = <<"line", "hdrs">> \o <<"chunk", "byte", "chunk", "byte", "end">>
    BY <1>3 DEF Script
  <2> QED
    BY <1>3, <2>1
<1> QED
  BY <1>1, <1>2, <1>3 DEF KindType

(* A token is taken. *)
LEMMA Taken ==
    ASSUME NEW s \in Seq(Tokens), s # <<>>
    PROVE  /\ Head(s) = s[1] /\ 1 \in DOMAIN s /\ Len(s) \in Nat
           /\ Tail(s) \in Seq(Tokens) /\ Len(Tail(s)) = Len(s) - 1
           /\ \A i \in DOMAIN Tail(s) : i \in Nat /\ i # 0 /\ i + 1 \in DOMAIN s /\ Tail(s)[i] = s[i + 1]
OBVIOUS

LEMMA StretchFirst ==
    ASSUME NEW s \in Seq(Tokens), s # <<>>, NEW k, NEW r, NEW n \in Nat, NEW c \in Nat, Stretch(s, k, r, 0, n, c)
    PROVE  /\ Head(s).req = r <=> n # 0
           /\ Head(s).req = r => /\ Head(s).what = Script(k)[c + 1]
                                 /\ n - 1 \in Nat /\ c + 1 \in Nat /\ (c + 1) + (n - 1) = c + n
                                 /\ Stretch(Tail(s), k, r, 0, n - 1, c + 1)
<1> DEFINE t == Tail(s)
<1>1. /\ Head(s) = s[1] /\ 1 \in DOMAIN s /\ Len(s) \in Nat /\ Len(t) = Len(s) - 1
      /\ \A i \in DOMAIN t : i \in Nat /\ i # 0 /\ i + 1 \in DOMAIN s /\ t[i] = s[i + 1]
  BY Taken
<1> HIDE DEF t
<1>2. s[1].req = r <=> n # 0
  BY <1>1 DEF Stretch
<1>3. ASSUME s[1].req = r
      PROVE  /\ s[1].what = Script(k)[c + 1] /\ n - 1 \in Nat /\ Stretch(t, k, r, 0, n - 1, c + 1)
  <2>1. s[1].what = Script(k)[c + (1 - 0)] /\ c + (1 - 0) = c + 1 /\ n - 1 \in Nat
    BY <1>1, <1>2, <1>3 DEF Stretch
  <2>2. 0 + n <= Len(s)
    BY DEF Stretch
  <2>3. ASSUME NEW i \in DOMAIN t
        PROVE  /\ t[i].req = r <=> 0 < i /\ i <= n - 1
               /\ t[i].req = r => t[i].what = Script(k)[(c + 1) + (i - 0)]
    <3>1. /\ i \in Nat /\ i # 0 /\ i + 1 \in DOMAIN s /\ t[i] = s[i + 1]
          /\ c + ((i + 1) - 0) = (c + 1) + (i - 0)
      BY <1>1
    <3>2. s[i + 1].req = r <=> 0 < i + 1 /\ i + 1 <= n
      BY <3>1 DEF Stretch
    <3>3. s[i + 1].req = r => s[i + 1].what = Script(k)[c + ((i + 1) - 0)]
      BY <3>1 DEF Stretch
    <3> QED
      BY <3>1, <3>2, <3>3
  <2> QED
    BY <1>1, <2>1, <2>2, <2>3 DEF Stretch
<1> QED
  BY <1>1, <1>2, <1>3 DEF t

LEMMA StretchLater ==
    ASSUME NEW s \in Seq(Tokens), s # <<>>, NEW k, NEW r, NEW a \in Nat, NEW n \in Nat, n # 0, NEW c \in Nat,
           Stretch(s, k, r, a, n, c), Head(s).req # r
    PROVE  a - 1 \in Nat /\ Stretch(Tail(s), k, r, a - 1, n, c)
<1> DEFINE t == Tail(s)
<1>1. /\ Head(s) = s[1] /\ 1 \in DOMAIN s /\ Len(s) \in Nat /\ Len(t) = Len(s) - 1
      /\ \A i \in DOMAIN t : i \in Nat /\ i # 0 /\ i + 1 \in DOMAIN s /\ t[i] = s[i + 1]
  BY Taken
<1> HIDE DEF t
<1>2. a # 0
  BY <1>1 DEF Stretch
<1>3. ASSUME NEW i \in DOMAIN t
      PROVE  /\ t[i].req = r <=> a - 1 < i /\ i <= (a - 1) + n
             /\ t[i].req = r => t[i].what = Script(k)[c + (i - (a - 1))]
  <2>1. /\ i \in Nat /\ i + 1 \in DOMAIN s /\ t[i] = s[i + 1]
        /\ c + ((i + 1) - a) = c + (i - (a - 1))
    BY <1>1
  <2>2. s[i + 1].req = r <=> a < i + 1 /\ i + 1 <= a + n
    BY <2>1 DEF Stretch
  <2>3. s[i + 1].req = r => s[i + 1].what = Script(k)[c + ((i + 1) - a)]
    BY <2>1 DEF Stretch
  <2> QED
    BY <2>1, <2>2, <2>3
<1>4. (a - 1) + n <= Len(t)
  BY <1>1, <1>2 DEF Stretch
<1> QED
  BY <1>2, <1>3, <1>4 DEF Stretch, t

LEMMA InputFacts ==
    ASSUME ConnInv
    PROVE  /\ in \in Seq(Tokens) /\ out \in Seq(Records) /\ kinds \in Seq(Kinds) /\ pos \in Nat
           /\ Len(kinds) \in Nat /\ cur \in Nat /\ cur <= Len(kinds) /\ Len(kinds) <= NReq
           /\ \A r \in 1 .. Len(kinds) : r \in DOMAIN kinds /\ kinds[r] \in KindType
           /\ \A i \in DOMAIN in : in[i].req \in Nat /\ in[i].req # 0
<1>1. /\ in \in Seq(Tokens) /\ out \in Seq(Records) /\ kinds \in Seq(Kinds) /\ pos \in Nat
      /\ cur \in 0 .. Len(kinds) /\ Kinds \subseteq KindType /\ Len(kinds) <= NReq /\ Len(kinds) \in Nat
  BY HttpConnAssumption DEF ConnInv, Conn, Coming, Wires
<1>2. \A i \in DOMAIN in : in[i] \in Tokens
  BY <1>1
<1>3. \A x \in Tokens : x.req \in Nat /\ x.req # 0
  BY HttpConnAssumption DEF Tokens
<1>4. \A r \in 1 .. Len(kinds) : r \in DOMAIN kinds /\ kinds[r] \in KindType
  BY <1>1
<1> QED
  BY <1>1, <1>2, <1>3, <1>4

LEMMA UptoIs ==
    ASSUME NEW k \in KindType, NEW w
    PROVE  /\ Upto(k, w) \in Nat /\ Upto(k, w) > 1 /\ Upto(k, w) <= Len(Script(k))
           /\ Len(Script(k)) \in Nat
           /\ Owes(k, w) => Upto(k, w) = 2 /\ Len(Script(k)) > 2
           /\ ~Owes(k, w) => Upto(k, w) = Len(Script(k))
BY ScriptIs DEF Upto, Owes

(* When the input goes on with another request, all of this one is there.  *)
LEMMA NoMore ==
    ASSUME ConnInv, Arriving, cur # 0, in # <<>>, NEW n \in Nat, NEW c \in Nat,
           Stretch(in, kinds[cur], cur, 0, n, c), SentOf(out, kinds, pos, cur, c + n), Head(in).req # cur
    PROVE  /\ n = 0 /\ c = Upto(kinds[cur], Has(out, cur, "cont"))
           /\ Owes(kinds[cur], Has(out, cur, "cont")) => Has(out, cur, "head")
<1>1. /\ in \in Seq(Tokens) /\ cur \in Nat /\ Len(kinds) \in Nat
      /\ \A i \in DOMAIN in : in[i].req \in Nat /\ in[i].req # 0
  BY InputFacts
<1>2. n = 0
  BY <1>1, StretchFirst
<1>3. 1 \in DOMAIN in /\ Head(in) = in[1]
  BY <1>1, Taken
<1>4. cur # Len(kinds)
  BY <1>1, <1>3 DEF Arriving
<1> QED
  BY <1>2, <1>4 DEF SentOf

(* Something is written, and nothing that changes what the client sends of *)
(* request r.                                                              *)
LEMMA SentStill ==
    ASSUME NEW o \in Seq(Records), NEW q \in Seq(Records), NEW ks, NEW p, NEW r, NEW m, SentOf(o, ks, p, r, m),
           Has(o \o q, r, "cont") <=> Has(o, r, "cont")
    PROVE  SentOf(o \o q, ks, p, r, m)
<1>1. Has(o, r, "head") => Has(o \o q, r, "head")
  BY HasGrown
<1>2. CASE Has(o, r, "cont")
  BY <1>1, <1>2 DEF SentOf, Upto, Owes
<1>3. CASE ~Has(o, r, "cont")
  BY <1>1, <1>3 DEF SentOf, Upto, Owes
<1> QED
  BY <1>2, <1>3

(* Nothing has been written of a request that has not begun.               *)
LEMMA NothingAhead ==
    ASSUME NEW o \in Seq(Records), NEW c \in Nat, NEW g, NEW p, Past(o, c, g, p), NEW r, r > c, r \in Nat, NEW w
    PROVE  ~Has(o, r, w)
<1>1. \A i \in DOMAIN o : o[i].req \in Nat
  BY Numbered
<1>2. \A i \in DOMAIN o : o[i].req <= c
  BY DEF Past
<1> QED
  BY <1>1, <1>2 DEF Has

(* What is written for a request leaves the later ones as they are.        *)
LEMMA ArrivingStill ==
    ASSUME ConnInv, Arriving, Past(out, cur, h, pc), Past(out', cur', h', pc'),
           in' = in, cur' = cur, UNCHANGED clientVars, NEW q \in Seq(Records), out' = out \o q
    PROVE  Arriving'
<1>1. out \in Seq(Records) /\ cur \in Nat /\ Len(kinds) \in Nat /\ out' \in Seq(Records)
  BY InputFacts
<1>2. kinds' = kinds /\ pos' = pos
  BY DEF clientVars
<1>3. ASSUME NEW r \in 1 .. Len(kinds), cur < r
      PROVE  \E a, n \in Nat : n # 0 /\ Stretch(in, kinds[r], r, a, n, 0) /\ SentOf(out', kinds, pos, r, n)
  <2>1. r \in Nat /\ r > cur /\ r > cur' /\ cur' \in Nat
    BY <1>1, <1>3
  <2>2. ~Has(out, r, "cont") /\ ~Has(out', r, "cont")
    BY <1>1, <2>1, NothingAhead
  <2>3. PICK a, n \in Nat : n # 0 /\ Stretch(in, kinds[r], r, a, n, 0) /\ SentOf(out, kinds, pos, r, n)
    BY <1>3 DEF Arriving
  <2>4. SentOf(out', kinds, pos, r, n)
    BY <1>1, <2>2, <2>3, SentStill
  <2> QED
    BY <2>3, <2>4
<1>4. /\ \A i \in DOMAIN in' : cur' <= in'[i].req /\ in'[i].req <= Len(kinds')
      /\ \A i, j \in DOMAIN in' : i < j => in'[i].req <= in'[j].req
  BY <1>2 DEF Arriving
<1> QED
  BY <1>2, <1>3, <1>4 DEF Arriving

-----------------------------------------------------------------------------
(* Requests, as the server reads and answers them                          *)

(* All records but 100 Continue and the head of a switch.                  *)
Answers == {r \in Records : /\ r.what # "cont"
                            /\ r.what = "head" => r.framing \notin {"none", "switch"}}

LEMMA AnswersAdded ==
    ASSUME NEW o \in Seq(Records), NEW q \in Seq(Answers), NEW r
    PROVE  q \in Seq(Records) /\ (Has(o \o q, r, "cont") <=> Has(o, r, "cont"))
<1>1. /\ q \in Seq(Records) /\ DOMAIN o = 1 .. Len(o) /\ DOMAIN q = 1 .. Len(q)
      /\ Len(o) \in Nat /\ Len(q) \in Nat /\ DOMAIN (o \o q) = 1 .. Len(o) + Len(q)
      /\ \A i \in DOMAIN o : (o \o q)[i] = o[i]
      /\ \A i \in DOMAIN (o \o q) : i \notin DOMAIN o => i - Len(o) \in DOMAIN q /\ (o \o q)[i] = q[i - Len(o)]
  BY DEF Answers
<1>2. \A i \in DOMAIN q : q[i].what # "cont"
  <2>1. \A i \in DOMAIN q : q[i] \in Answers
    OBVIOUS
  <2> QED
    BY <2>1 DEF Answers
<1>3. \A i \in DOMAIN (o \o q) : (o \o q)[i].what = "cont" => i \in DOMAIN o
  BY <1>1, <1>2
<1>4. Has(o \o q, r, "cont") => Has(o, r, "cont")
  BY <1>1, <1>3 DEF Has
<1> QED
  BY <1>1, <1>4, HasGrown

(* The connection is there and has not switched protocols.                 *)
Live ==
    /\ ConnInv /\ Past(out, cur, h, pc) /\ Informed /\ pc # "removed" /\ ~h.switched
    /\ Arriving /\ Parsing

(* The fields change, and perhaps something is written, but no input is    *)
(* taken: what has been read of the request is what had been.              *)
LEMMA InRequest ==
    ASSUME Live, Past(out', cur', h', pc'), in' = in, cur' = cur, UNCHANGED clientVars,
           NEW q \in Seq(Answers), out' = out \o q,
           NEW w, w = Has(out, cur, "cont"), NEW k, k = kinds[cur],
           \A c \in Nat : cur # 0 /\ k \in KindType /\ c <= Upto(k, w) /\ Parsed(h, pc, k, w, c)
                            => Parsed(h', pc', k, w, c)
    PROVE  Arriving' /\ Parsing'
<1>1. out \in Seq(Records) /\ cur \in Nat /\ Len(kinds) \in Nat /\ (cur # 0 => k \in KindType)
  BY InputFacts DEF Live
<1>2. q \in Seq(Records) /\ (Has(out', cur, "cont") <=> w)
  BY <1>1, AnswersAdded
<1>3. kinds' = kinds /\ pos' = pos
  BY DEF clientVars
<1>4. Arriving'
  BY <1>2, ArrivingStill DEF Live
<1>5. ASSUME cur # 0
      PROVE  \E n, c \in Nat :
               /\ Stretch(in', kinds'[cur'], cur', 0, n, c) /\ SentOf(out', kinds', pos', cur', c + n)
               /\ Parsed(h', pc', kinds'[cur'], Has(out', cur', "cont"), c)
  <2>1. PICK n, c \in Nat :
          /\ Stretch(in, kinds[cur], cur, 0, n, c) /\ SentOf(out, kinds, pos, cur, c + n)
          /\ Parsed(h, pc, kinds[cur], Has(out, cur, "cont"), c)
    BY <1>5 DEF Live, Parsing
  <2>2. c + n <= Upto(k, w) /\ Upto(k, w) \in Nat
    BY <1>1, <1>5, <2>1, UptoIs DEF SentOf
  <2>3. c <= Upto(k, w)
    BY <2>2
  <2>4. Parsed(h', pc', k, w, c)
    BY <1>1, <1>5, <2>1, <2>3
  <2>5. SentOf(out', kinds, pos, cur, c + n)
    BY <1>1, <1>2, <2>1, SentStill
  <2>6. Parsed(h', pc', k, Has(out', cur, "cont"), c)
    <3>1. CASE w
      BY <1>2, <2>4, <3>1 DEF Parsed, Rest, Upto, Owes
    <3>2. CASE ~w
      BY <1>2, <2>4, <3>2 DEF Parsed, Rest, Upto, Owes
    <3> QED
      BY <3>1, <3>2
  <2> QED
    BY <1>3, <2>1, <2>5, <2>6
<1> QED
  BY <1>4, <1>5 DEF Parsing

(* Nothing changes that says how much of a request has been read.          *)
SameRequest(g, d) ==
    /\ d.method = g.method /\ d.handler = g.handler /\ d.sent = g.sent /\ d.close = g.close
    /\ d.remain = g.remain /\ d.chunkedPost = g.chunkedPost /\ d.outClosed = g.outClosed
    /\ d.needCont => g.needCont

LEMMA QuietStream ==
    ASSUME Live, Past(out', cur', h', pc'), in' = in, cur' = cur, UNCHANGED clientVars,
           NEW q \in Seq(Answers), out' = out \o q, SameRequest(h, h'),
           h.handler \/ (pc = "drain" <=> pc' = "drain")
    PROVE  Arriving' /\ Parsing'
<1>1. ASSUME NEW k, NEW w, NEW c, Parsed(h, pc, k, w, c)
      PROVE  Parsed(h', pc', k, w, c)
  BY <1>1 DEF Parsed, Rest, SameRequest
<1> QED
  BY <1>1, InRequest

LEMMA NoAnswer ==
    ASSUME Conn, Emit(<<>>) \/ EmitFlush(<<>>) \/ UNCHANGED <<out, flushed>>
    PROVE  <<>> \in Seq(Answers) /\ out' = out \o <<>>
<1>1. out' = out /\ out \in Seq(Records)
  BY NothingWritten DEF Conn, Wires
<1> QED
  BY <1>1

LEMMA EventStream ==
    ASSUME Live, Past(out', cur', h', pc'), EventLoop \/ Timeout \/ HeaderIncomplete
    PROVE  Arriving' /\ Parsing'
<1>1. /\ pc \in {"parked", "loop", "lines"} /\ in' = in /\ cur' = cur /\ UNCHANGED clientVars
      /\ Emit(<<>>) \/ EmitFlush(<<>>) \/ UNCHANGED <<out, flushed>>
  BY DEF EventLoop, DataReady, LoopAgain, LoopEnds, WriteReady, WakeUp, Timeout, HeaderIncomplete, histVars, clientVars, Remove
<1>2. h \in Fields /\ Conn
  BY DEF Live, ConnInv, Conn, Sound
<1>3. <<>> \in Seq(Answers) /\ out' = out \o <<>>
  BY <1>1, <1>2, NoAnswer
<1>4. /\ pc' # "drain"
      /\ \/ h' = h
         \/ h' = [h EXCEPT !.ev = "request"]
         \/ \E e \in {"data", "write", "wakeup"} : h' = [h EXCEPT !.ev = e, !.again = FALSE]
  BY DEF EventLoop, DataReady, LoopAgain, LoopEnds, WriteReady, WakeUp, Timeout, HeaderIncomplete,
     DataEvent, Activate, Goto, Park, Remove
<1>5. SameRequest(h, h')
  BY <1>2, <1>4 DEF SameRequest, Fields
<1> QED
  BY <1>1, <1>3, <1>4, <1>5, QuietStream

LEMMA HandlerSilentStream ==
    ASSUME Live, Past(out', cur', h', pc'), HandlerProbes \/ HandlerClosesOutput \/ ReturnsSleep
    PROVE  Arriving' /\ Parsing'
<1>1. /\ pc = "handler" /\ in' = in /\ cur' = cur /\ UNCHANGED clientVars /\ h' = h
      /\ UNCHANGED <<out, flushed>> \/ EmitFlush(<<>>)
  BY DEF HandlerProbes, HandlerClosesOutput, ReturnsSleep, Move, HandlerOnly
<1>2. h.handler /\ Conn
  BY <1>1, HandlerFacts DEF Live, ConnInv
<1>3. <<>> \in Seq(Answers) /\ out' = out \o <<>>
  BY <1>1, <1>2, NoAnswer
<1>4. SameRequest(h, h')
  BY <1>1 DEF SameRequest
<1> QED
  BY <1>1, <1>2, <1>3, <1>4, QuietStream

LEMMA ReadSilentStream ==
    ASSUME Live, Past(out', cur', h', pc'), ReadReturns \/ ReadBlocks \/ ReadZero
    PROVE  Arriving' /\ Parsing'
<1>1. /\ pc \in {"reading", "probing", "drain"} /\ in' = in /\ cur' = cur /\ UNCHANGED clientVars
      /\ pc' = pc \/ (pc # "drain" /\ pc' = "handler")
      /\ UNCHANGED <<out, flushed>> \/ EmitFlush(<<>>)
  BY DEF ReadReturns, ReadBlocks, ReadZero, Needs, Draining, ReadOnly, Goto
<1>2. h \in Fields /\ Conn
  BY DEF Live, ConnInv, Conn, Sound
<1>3. <<>> \in Seq(Answers) /\ out' = out \o <<>>
  BY <1>1, <1>2, NoAnswer
<1>4. h' = h \/ \E b : h' = [h EXCEPT !.inClosed = b]
  BY DEF ReadReturns, ReadBlocks, ReadZero
<1>5. SameRequest(h, h')
  BY <1>2, <1>4 DEF SameRequest, Fields
<1> QED
  BY <1>1, <1>3, <1>5, QuietStream

(* What has been read of a request when a head is sent: permission that is *)
(* still owed is refused with it, and nothing more is expected.            *)
Answering(g, e) ==
    /\ e.method = g.method /\ e.handler = g.handler /\ e.outClosed = g.outClosed
    /\ e.sent /\ ~e.needCont /\ (g.close => e.close) /\ e.switched = g.switched
    /\ e.remain = IF g.needCont THEN 0 ELSE g.remain
    /\ e.chunkedPost = (g.chunkedPost /\ ~g.needCont)

LEMMA HeadAnswering ==
    ASSUME NEW g, Sound(g), NEW v, v \notin {"cont", "switch"}
    PROVE  Answering(g, HeadSent(g, v))
<1> DEFINE e == HeadSent(g, v)
           r == Refuse(g)
           b == r.chunked /\ ~g.close /\ v \notin {"length", "switch"}
           c == [r EXCEPT !.chunked = b]
<1>1. /\ ~e.needCont /\ e.method = g.method /\ e.handler = g.handler
      /\ e.close = g.close /\ e.outClosed = g.outClosed /\ e.sent
  BY HeadSentSound
<1>2. Sound(r)
  BY RefuseSound
<1>3. /\ r.remain = (IF g.needCont THEN 0 ELSE g.remain)
      /\ r.chunkedPost = (g.chunkedPost /\ ~g.needCont) /\ r.switched = g.switched
  <2>1. CASE g.needCont
    <3>1. r = [g EXCEPT !.needCont = FALSE, !.remain = 0, !.chunkedPost = FALSE]
      BY <2>1 DEF Refuse
    <3> HIDE DEF r
    <3> QED
      BY <2>1, <3>1 DEF Sound, Fields
  <2>2. CASE ~g.needCont
    <3>1. r = g
      BY <2>2 DEF Refuse
    <3> HIDE DEF r
    <3> QED
      BY <2>2, <3>1 DEF Sound, Fields
  <2> QED
    BY <2>1, <2>2
<1>4. e = [c EXCEPT !.sent = TRUE]
  BY DEF HeadSent
<1> HIDE DEF e, r
<1>5. e.remain = r.remain /\ e.chunkedPost = r.chunkedPost /\ e.switched = r.switched
  <2> HIDE DEF b
  <2> QED
    BY <1>2, <1>4 DEF Sound, Fields
<1> QED
  BY <1>1, <1>3, <1>5 DEF Answering, e

LEMMA PageAnswering ==
    ASSUME NEW g, Sound(g), g.sent => ~g.needCont, NEW code
    PROVE  Answering(g, ErrorPage(g, code))
<1> DEFINE d == [g EXCEPT !.close = TRUE]
<1>1. /\ Sound(d) /\ d.close /\ d.needCont = g.needCont /\ d.method = g.method
      /\ d.handler = g.handler /\ d.outClosed = g.outClosed /\ d.sent = g.sent
  BY ClosedSound
<1>2. d.remain = g.remain /\ d.chunkedPost = g.chunkedPost /\ d.switched = g.switched
  BY DEF Sound, Fields
<1>3. CASE g.sent
  <2>1. ErrorPage(g, code) = d
    BY <1>3 DEF ErrorPage
  <2>2. g.chunkedPost \in BOOLEAN /\ ~g.needCont
    BY <1>3 DEF Sound, Fields
  <2> HIDE DEF d
  <2> QED
    BY <1>1, <1>2, <1>3, <2>1, <2>2 DEF Answering
<1>4. CASE ~g.sent /\ code = "empty"
  <2>1. ErrorPage(g, code) = HeadSent(g, "length")
    BY <1>4 DEF ErrorPage
  <2> QED
    BY <2>1, HeadAnswering
<1>5. CASE ~g.sent /\ code # "empty"
  <2>1. ErrorPage(g, code) = HeadSent(d, "plain")
    BY <1>5 DEF ErrorPage
  <2> HIDE DEF d
  <2>2. Answering(d, HeadSent(d, "plain"))
    BY <1>1, HeadAnswering
  <2> QED
    BY <1>1, <1>2, <2>1, <2>2 DEF Answering
<1> QED
  BY <1>3, <1>4, <1>5

LEMMA AnswerFacts ==
    ASSUME Live, h.handler, ~h.sent
    PROVE  /\ h.needCont => ~Has(out, cur, "cont")
           /\ ~h.needCont /\ kinds[cur].expect = "100" => Has(out, cur, "cont")
<1>1. h.method /\ cur # 0
  BY DEF Live, ConnInv, Conn, Control
<1>2. h.needCont => \A i \in DOMAIN out : out[i].req # cur
  BY <1>1 DEF Live, Past
<1>3. ~Has(out, cur, "head")
  BY <1>1 DEF Live, Past, Has
<1>4. ~h.needCont /\ kinds[cur].expect = "100" => Has(out, cur, "cont") \/ Has(out, cur, "head")
  BY <1>1 DEF Live, Informed, Told
<1> QED
  BY <1>2, <1>3, <1>4 DEF Has

(* A head is sent, or was: what has been read of the request agrees with   *)
(* the fields afterwards.                                                  *)
LEMMA ParsedAnswer ==
    ASSUME Live, h.handler, NEW e, Answering(h, e), NEW d, SameRequest(e, d), NEW p,
           NEW k \in KindType, k = kinds[cur], NEW w, w = Has(out, cur, "cont"),
           NEW c \in Nat, c <= Upto(k, w), Parsed(h, pc, k, w, c)
    PROVE  Parsed(d, p, k, w, c) /\ d.sent /\ d.method /\ d.handler
<1>1. h.method /\ (h.sent => ~h.needCont) /\ h \in Fields
  BY DEF Live, ConnInv, Conn, Control, Sound
<1>2. Rest(h, k, w, c) /\ (h.outClosed /\ ~h.close => k.body = "chunked" \/ h.remain = 0)
      /\ (h.needCont => k.expect = "100") /\ k.body \in {"none", "len", "chunked"}
  BY DEF Parsed, KindType
<1>3. /\ d.method /\ d.handler /\ d.sent /\ ~d.needCont /\ (h.close => d.close) /\ d.outClosed = h.outClosed
      /\ d.remain = (IF h.needCont THEN 0 ELSE h.remain)
      /\ d.chunkedPost = (h.chunkedPost /\ ~h.needCont)
  BY <1>1 DEF Answering, SameRequest
<1>4. CASE h.needCont
  <2>1. ~h.sent /\ ~w /\ k.expect = "100" /\ d.remain = 0 /\ ~d.chunkedPost
    BY <1>1, <1>2, <1>3, <1>4, AnswerFacts
  <2>2. k.body # "none" => c <= 2
    BY <2>1 DEF Upto, Owes
  <2>3. c = 2
    BY <1>2, <2>1, <2>2 DEF Rest
  <2>4. Rest(d, k, w, c)
    BY <1>3, <2>1, <2>3 DEF Rest
  <2> QED
    BY <1>3, <2>1, <2>4 DEF Parsed
<1>5. CASE ~h.needCont
  <2>1. d.remain = h.remain /\ d.chunkedPost = h.chunkedPost
    BY <1>1, <1>3, <1>5 DEF Fields
  <2>2. h.sent \/ ~(k.expect = "100" /\ ~w)
    BY <1>5, AnswerFacts
  <2>3. Rest(d, k, w, c)
    BY <1>2, <1>3, <2>1, <2>2 DEF Rest
  <2> QED
    BY <1>2, <1>3, <2>1, <2>3 DEF Parsed
<1> QED
  BY <1>4, <1>5

LEMMA AnswerStream ==
    ASSUME Live, Past(out', cur', h', pc'), in' = in, cur' = cur, UNCHANGED clientVars, h.handler,
           NEW q \in Seq(Answers), out' = out \o q, NEW e, Answering(h, e), SameRequest(e, h')
    PROVE  Arriving' /\ Parsing'
<1> DEFINE k == kinds[cur]
           w == Has(out, cur, "cont")
<1>1. ASSUME NEW c \in Nat, k \in KindType, c <= Upto(k, w), Parsed(h, pc, k, w, c)
      PROVE  Parsed(h', pc', k, w, c)
  BY <1>1, ParsedAnswer
<1> HIDE DEF k, w
<1> QED
  BY <1>1, InRequest DEF k, w

(* What is written ahead of, in and behind a response.                     *)
LEMMA RecAnswers ==
    ASSUME Conn
    PROVE  /\ <<>> \in Seq(Answers)
           /\ \A g, v : v \notin {"cont", "switch"} => <<HeadRec(g, v)>> \in Seq(Answers)
           /\ \A w \in {"data", "end"} : <<Rec(w)>> \in Seq(Answers)
           /\ \A g, code : ErrorPageOut(g, code) \in Seq(Answers)
<1>1. ASSUME NEW g, NEW v, v \notin {"cont", "switch"} PROVE <<HeadRec(g, v)>> \in Seq(Answers)
  <2>1. HeadRec(g, v) \in Records /\ HeadRec(g, v).what = "head"
    BY <1>1, HeadTyped
  <2>2. HeadRec(g, v).framing \notin {"none", "switch"}
    BY <1>1 DEF HeadRec
  <2>3. HeadRec(g, v) \in Answers
    BY <2>1, <2>2 DEF Answers
  <2> QED
    BY <2>3
<1>2. ASSUME NEW w \in {"data", "end"} PROVE <<Rec(w)>> \in Seq(Answers)
  <2>1. Rec(w) \in Answers
    BY RecTyped DEF Answers
  <2> QED
    BY <2>1
<1>3. ASSUME NEW g, NEW code PROVE ErrorPageOut(g, code) \in Seq(Answers)
  <2>1. CASE g.sent
    BY <2>1 DEF ErrorPageOut
  <2>2. CASE ~g.sent /\ code = "empty"
    BY <1>1, <2>2 DEF ErrorPageOut
  <2>3. CASE ~g.sent /\ code # "empty"
    <3> DEFINE a == <<HeadRec([g EXCEPT !.close = TRUE], "plain")>>
               b == Data(g)
    <3>1. a \in Seq(Answers)
      BY <1>1
    <3>2. b \in Seq(Answers)
      BY <1>2 DEF Data
    <3>3. ErrorPageOut(g, code) = a \o b
      BY <2>3 DEF ErrorPageOut
    <3> HIDE DEF a, b
    <3> QED
      BY <3>1, <3>2, <3>3
  <2> QED
    BY <2>1, <2>2, <2>3
<1> QED
  BY <1>1, <1>2, <1>3

LEMMA SwitchFields ==
    ASSUME NEW g, Sound(g), NEW e, e = HeadSent(g, "switch")
    PROVE  e.switched /\ e.remain = All
<1> DEFINE r == Refuse(g)
           b == r.chunked /\ ~g.close /\ "switch" \notin {"length", "switch"}
           c == [r EXCEPT !.chunked = b]
<1>1. Sound(r)
  BY RefuseSound
<1>2. e = [c EXCEPT !.sent = TRUE, !.switched = TRUE, !.remain = All]
  BY DEF HeadSent
<1> HIDE DEF r, b
<1> QED
  BY <1>1, <1>2 DEF Sound, Fields

LEMMA HandlerSendsHeadStream ==
    ASSUME Live, Orderly, Past(out', cur', h', pc'), HandlerSendsHead
    PROVE  h'.switched \/ (Arriving' /\ Parsing')
<1>1. PICK v \in {"plain", "length", "connclose", "cont", "switch"} :
         Move(v) /\ h' = HeadSent(h, v) /\ Emit(<<HeadRec(h, v)>>)
  BY DEF HandlerSendsHead
<1>2. /\ v # "cont" /\ pc = "handler" /\ in' = in /\ cur' = cur /\ UNCHANGED clientVars
  BY <1>1 DEF HandlerSendsHead, Move, HandlerOnly, Orderly
<1>3. Conn /\ Sound(h) /\ h.handler
  BY <1>2, HandlerFacts DEF Live, ConnInv
<1>4. CASE v = "switch"
  BY <1>1, <1>3, <1>4, SwitchFields
<1>5. CASE v # "switch"
  <2>1. Answering(h, h')
    BY <1>1, <1>2, <1>3, <1>5, HeadAnswering
  <2>2. <<HeadRec(h, v)>> \in Seq(Answers) /\ out' = out \o <<HeadRec(h, v)>>
    BY <1>1, <1>2, <1>3, <1>5, RecAnswers DEF Emit
  <2>3. SameRequest(h', h')
    BY DEF SameRequest
  <2> QED
    BY <1>2, <1>3, <2>1, <2>2, <2>3, AnswerStream
<1> QED
  BY <1>4, <1>5

LEMMA HandlerWritesStream ==
    ASSUME Live, Past(out', cur', h', pc'), HandlerWrites
    PROVE  Arriving' /\ Parsing'
<1> DEFINE g == IF h.sent THEN h ELSE HeadSent(h, "plain")
           first == IF h.sent THEN <<>> ELSE <<HeadRec(h, "plain")>>
<1>1. pc = "handler" /\ in' = in /\ cur' = cur /\ UNCHANGED clientVars
  BY DEF HandlerWrites, Move, HandlerOnly
<1>2. Conn /\ Sound(h) /\ h.handler
  BY <1>1, HandlerFacts DEF Live, ConnInv
<1>3. PICK d \in {g, [g EXCEPT !.buff = TRUE], [g EXCEPT !.buff = FALSE]} :
         h' = d /\ (Emit(first) \/ Emit(first \o <<Rec("data")>>))
  BY DEF HandlerWrites
<1>4. first \in Seq(Answers) /\ <<Rec("data")>> \in Seq(Answers)
  BY <1>2, RecAnswers
<1>5. g \in Fields
  BY <1>2, HeadSentSound DEF Sound
<1>6. h.sent => g = h
  OBVIOUS
<1>7. ~h.sent => Answering(h, g)
  BY <1>2, HeadAnswering
<1> HIDE DEF g, first
<1>8. \E q \in Seq(Answers) : out' = out \o q
  <2>1. first \o <<Rec("data")>> \in Seq(Answers)
    BY <1>4
  <2>2. out' = out \o first \/ out' = out \o (first \o <<Rec("data")>>)
    BY <1>3 DEF Emit
  <2> QED
    BY <1>4, <2>1, <2>2
<1>9. SameRequest(g, h')
  BY <1>3, <1>5 DEF SameRequest, Fields
<1>10. CASE h.sent
  BY <1>1, <1>2, <1>6, <1>8, <1>9, <1>10, QuietStream
<1>11. CASE ~h.sent
  BY <1>1, <1>2, <1>7, <1>8, <1>9, <1>11, AnswerStream
<1> QED
  BY <1>10, <1>11

LEMMA ReturnsWaitForWriteStream ==
    ASSUME Live, Past(out', cur', h', pc'), ReturnsWaitForWrite
    PROVE  Arriving' /\ Parsing'
<1>1. pc = "handler" /\ in' = in /\ cur' = cur /\ UNCHANGED clientVars
  BY DEF ReturnsWaitForWrite, Move, HandlerOnly
<1>2. Conn /\ Sound(h) /\ h.handler
  BY <1>1, HandlerFacts DEF Live, ConnInv
<1>3. CASE h.sent
  <2>1. h' = h /\ out' = out \o <<>> /\ <<>> \in Seq(Answers)
    BY <1>2, <1>3, RecAnswers DEF ReturnsWaitForWrite, Emit
  <2>2. SameRequest(h, h')
    BY <2>1 DEF SameRequest
  <2> QED
    BY <1>1, <1>2, <2>1, <2>2, QuietStream
<1>4. CASE ~h.sent
  <2>1. h' = HeadSent(h, "plain") /\ out' = out \o <<HeadRec(h, "plain")>>
    BY <1>4 DEF ReturnsWaitForWrite, Emit
  <2>2. Answering(h, h') /\ SameRequest(h', h')
    BY <1>2, <2>1, HeadAnswering DEF SameRequest
  <2>3. <<HeadRec(h, "plain")>> \in Seq(Answers)
    BY <1>2, RecAnswers
  <2> QED
    BY <1>1, <1>2, <2>1, <2>2, <2>3, AnswerStream
<1> QED
  BY <1>3, <1>4

(* A request whose rest is gone is over. *)
LEMMA ParsedOver ==
    ASSUME NEW k \in KindType, NEW g, g.sent, NEW w, NEW c \in Nat, Rest(g, k, w, c),
           k.body = "chunked" \/ g.remain = 0, NEW d, ~d.method, ~d.handler, NEW p, p # "drain"
    PROVE  Parsed(d, p, k, w, c)
<1>1. CASE k.body = "chunked"
  BY <1>1 DEF Parsed
<1>2. CASE k.body # "chunked"
  <2>1. g.remain = 0 /\ k.body \in {"none", "len"}
    BY <1>2 DEF KindType
  <2>2. c = Upto(k, w)
    <3>1. CASE k.expect = "100" /\ ~w
      <4>1. c = 2
        BY <3>1 DEF Rest
      <4> QED
        BY <3>1, <4>1, ScriptIs DEF Upto, Owes
    <3>2. CASE ~(k.expect = "100" /\ ~w)
      <4>1. k.body = "none" => c = 2
        BY <3>2 DEF Rest
      <4>2. k.body = "len" => c = 4
        BY <2>1, <3>2 DEF Rest
      <4> QED
        BY <2>1, <3>2, <4>1, <4>2, ScriptIs DEF Upto, Owes
    <3> QED
      BY <3>1, <3>2
  <2> QED
    BY <2>2 DEF Parsed
<1> QED
  BY <1>1, <1>2

(* finish() *)
LEMMA FinishStream ==
    ASSUME Live, Past(out', cur', h', pc'), h.handler, in' = in, cur' = cur, UNCHANGED clientVars,
           NEW g, Sound(g), g.sent, g.handler, NEW recs \in Seq(Answers), Finish(g, recs),
           NEW w, w = Has(out, cur, "cont"), NEW k, k = kinds[cur],
           \A c \in Nat : k \in KindType /\ c <= Upto(k, w) /\ Parsed(h, pc, k, w, c) => Parsed(g, "drain", k, w, c)
    PROVE  pc' = "removed" \/ (Arriving' /\ Parsing')
<1>1. out' = out \o recs
  BY DEF Finish, Remove, Emit, EmitFlush
<1>2. CASE ~g.outClosed
  <2>1. h' = g /\ pc' = "drain"
    BY <1>2 DEF Finish, Drain
  <2> QED
    BY <1>1, <2>1, InRequest
<1>3. CASE g.outClosed /\ pc' # "removed"
  <2>1. h' = Clear(g) /\ ~g.close /\ pc' = "loop"
    BY <1>3 DEF Finish, Remove, Goto
  <2>2. ~h'.method /\ ~h'.handler
    BY <2>1, ClearSound
  <2>3. ASSUME NEW c \in Nat, k \in KindType, c <= Upto(k, w), Parsed(h, pc, k, w, c)
        PROVE  Parsed(h', pc', k, w, c)
    <3>1. Rest(g, k, w, c) /\ (k.body = "chunked" \/ g.remain = 0)
      BY <1>3, <2>1, <2>3 DEF Parsed
    <3> QED
      BY <2>1, <2>2, <2>3, <3>1, ParsedOver
  <2> QED
    BY <1>1, <2>3, InRequest
<1> QED
  BY <1>2, <1>3

(* errorPageKA() of a handler that sent nothing. *)
LEMMA ErrorPageKAStream ==
    ASSUME Live, Past(out', cur', h', pc'), h.handler, ~h.sent, in' = in, cur' = cur, UNCHANGED clientVars,
           NEW code, ErrorPageKA(h, code)
    PROVE  pc' = "removed" \/ (Arriving' /\ Parsing')
<1>1. Conn /\ Sound(h)
  BY DEF Live, ConnInv, Conn
<1>2. CASE ~h.outClosed
  <2>1. h' = ErrorPage(h, code) /\ out' = out \o ErrorPageOut(h, code)
    BY <1>2 DEF ErrorPageKA, Emit
  <2>2. Answering(h, h') /\ SameRequest(h', h')
    BY <1>1, <2>1, PageAnswering DEF SameRequest
  <2>3. ErrorPageOut(h, code) \in Seq(Answers)
    BY <1>1, RecAnswers
  <2> QED
    BY <2>1, <2>2, <2>3, AnswerStream
<1>3. CASE h.outClosed
  BY <1>3 DEF ErrorPageKA, Remove, Goto
<1> QED
  BY <1>2, <1>3

LEMMA HandlerErrorPageStream ==
    ASSUME Live, Past(out', cur', h', pc'), HandlerErrorPage
    PROVE  pc' = "removed" \/ (Arriving' /\ Parsing')
<1>1. PICK code \in PageCode : Finish(ErrorPage(h, code), ErrorPageOut(h, code))
  BY DEF HandlerErrorPage
<1>2. pc = "handler" /\ in' = in /\ cur' = cur /\ UNCHANGED clientVars
  BY DEF HandlerErrorPage, LastMove, HandlerOnly
<1>3. Conn /\ Sound(h) /\ h.handler /\ (h.sent => ~h.needCont)
  BY <1>2, HandlerFacts DEF Live, ConnInv
<1> DEFINE e == ErrorPage(h, code)
           q == ErrorPageOut(h, code)
           k == kinds[cur]
           w == Has(out, cur, "cont")
<1>4. Sound(e) /\ e.sent /\ e.handler
  BY <1>3, ErrorPageSound
<1>5. Answering(h, e)
  BY <1>3, PageAnswering
<1>6. q \in Seq(Answers)
  BY <1>3, RecAnswers
<1>9. Finish(e, q)
  BY <1>1
<1> HIDE DEF e, q
<1>7. SameRequest(e, e)
  BY DEF SameRequest
<1>8. ASSUME NEW c \in Nat, k \in KindType, c <= Upto(k, w), Parsed(h, pc, k, w, c)
      PROVE  Parsed(e, "drain", k, w, c)
  BY <1>3, <1>5, <1>7, <1>8, ParsedAnswer
<1> HIDE DEF k, w
<1>10. k = kinds[cur] /\ w = Has(out, cur, "cont")
  BY DEF k, w
<1> QED
  BY <1>2, <1>3, <1>4, <1>6, <1>8, <1>9, <1>10, FinishStream

(* A return that ends the request. *)
LEMMA FinalStream ==
    ASSUME Live, Past(out', cur', h', pc'), pc = "handler", in' = in, cur' = cur, UNCHANGED clientVars,
           NEW code, Final(code)
    PROVE  pc' = "removed" \/ (Arriving' /\ Parsing')
<1>1. Conn /\ Sound(h) /\ h.handler
  BY HandlerFacts DEF Live, ConnInv
<1>2. CASE ~h.sent
  BY <1>1, <1>2, ErrorPageKAStream DEF Final
<1>3. CASE h.sent
  <2> DEFINE k == kinds[cur]
             w == Has(out, cur, "cont")
  <2>1. Finish(h, <<>>) /\ <<>> \in Seq(Answers)
    BY <1>1, <1>3, RecAnswers DEF Final
  <2>2. ASSUME NEW c \in Nat, k \in KindType, c <= Upto(k, w), Parsed(h, pc, k, w, c)
        PROVE  Parsed(h, "drain", k, w, c)
    BY <1>1, <2>2 DEF Parsed
  <2>3. k = kinds[cur] /\ w = Has(out, cur, "cont")
    OBVIOUS
  <2> HIDE DEF k, w
  <2> QED
    BY <1>1, <1>3, <2>1, <2>2, <2>3, FinishStream
<1> QED
  BY <1>2, <1>3

LEMMA ReturnsFinalStream ==
    ASSUME Live, Past(out', cur', h', pc'), ReturnsFinal
    PROVE  pc' = "removed" \/ (Arriving' /\ Parsing')
<1>1. pc = "handler" /\ in' = in /\ cur' = cur /\ UNCHANGED clientVars /\ \E code : Final(code)
  BY DEF ReturnsFinal, LastMove, HandlerOnly
<1> QED
  BY <1>1, FinalStream

(* 100 Continue is written: now the client sends the rest of the body, and *)
(* no later request has begun.                                             *)
LEMMA ContinueStream ==
    ASSUME Live, Past(out', cur', h', pc'), h.handler, ~h.sent, h.needCont,
           in' = in, cur' = cur, UNCHANGED clientVars, out' = out \o Continue,
           h'.method, h'.handler, ~h'.sent, ~h'.needCont, h'.close = h.close, h'.outClosed = h.outClosed,
           h'.remain = h.remain, h'.chunkedPost = h.chunkedPost
    PROVE  Arriving' /\ Parsing'
<1>1. /\ Conn /\ h.method /\ cur # 0 /\ out \in Seq(Records) /\ cur \in Nat
      /\ kinds[cur] \in KindType /\ Len(kinds) \in Nat
  <2>1. ConnInv
    BY DEF Live
  <2>2. h.method /\ cur # 0
    BY <2>1 DEF Live, ConnInv, Conn, Control
  <2> QED
    BY <2>1, <2>2, InputFacts DEF ConnInv
<1> DEFINE r == Rec("cont")
           k == kinds[cur]
<1>2. r \in Records /\ r.what = "cont" /\ r.req = cur /\ <<r>> \in Seq(Records) /\ Continue = <<r>>
  BY <1>1, RecTyped DEF Continue
<1> HIDE DEF r
<1>3. Has(out', cur, "cont")
  BY <1>1, <1>2, HasAdded
<1>4. Arriving'
  BY <1>2, ArrivingStill DEF Live
<1>5. PICK n, c \in Nat :
        /\ Stretch(in, k, cur, 0, n, c) /\ SentOf(out, kinds, pos, cur, c + n)
        /\ Parsed(h, pc, k, Has(out, cur, "cont"), c)
  BY <1>1 DEF Live, Parsing
<1>6. ~Has(out, cur, "cont") /\ ~Has(out, cur, "head") /\ k.expect = "100"
  <2>1. ~Has(out, cur, "head")
    BY <1>1 DEF Live, Past, Has
  <2>2. k.expect = "100"
    BY <1>5 DEF Parsed
  <2> QED
    BY <2>1, <2>2, AnswerFacts
<1>7. SentOf(out', kinds, pos, cur, c + n)
  <2>1. Len(Script(k)) \in Nat /\ Len(Script(k)) > 1 /\ c + n \in Nat /\ (k.body = "none" => Len(Script(k)) = 2)
    BY <1>1, ScriptIs
  <2>2. /\ c + n <= Len(Script(k)) /\ (cur = Len(kinds) => c + n = pos)
        /\ cur # Len(kinds) => c + n = Len(Script(k))
    BY <1>5, <1>6, <2>1 DEF SentOf, Upto, Owes
  <2> QED
    BY <1>3, <2>2 DEF SentOf, Upto, Owes
<1>9. kinds' = kinds /\ pos' = pos
  BY DEF clientVars
<1>10. Parsed(h', pc', k, Has(out', cur, "cont"), c)
  BY <1>3, <1>5, <1>6 DEF Parsed, Rest
<1> QED
  BY <1>4, <1>5, <1>7, <1>9, <1>10 DEF Parsing

LEMMA HandlerReadsStream ==
    ASSUME Live, Past(out', cur', h', pc'), HandlerReads
    PROVE  Arriving' /\ Parsing'
<1>1. /\ pc = "handler" /\ in' = in /\ cur' = cur /\ UNCHANGED clientVars
      /\ h' = [h EXCEPT !.needCont = FALSE] /\ out' = out \o (IF h.needCont THEN Continue ELSE <<>>)
  BY DEF HandlerReads, Move, HandlerOnly, Emit
<1>2. Conn /\ h \in Fields /\ h.handler /\ h.method /\ (h.sent => ~h.needCont)
  BY <1>1, HandlerFacts DEF Live, ConnInv, Sound
<1>3. /\ h'.method = h.method /\ h'.handler = h.handler /\ h'.sent = h.sent /\ ~h'.needCont /\ h'.close = h.close
      /\ h'.outClosed = h.outClosed /\ h'.remain = h.remain /\ h'.chunkedPost = h.chunkedPost
  BY <1>1, <1>2 DEF Fields
<1>4. CASE h.needCont
  BY <1>1, <1>2, <1>3, <1>4, ContinueStream
<1>5. CASE ~h.needCont
  <2>1. out' = out \o <<>> /\ <<>> \in Seq(Answers) /\ SameRequest(h, h')
    BY <1>1, <1>2, <1>3, <1>5, RecAnswers DEF SameRequest
  <2> QED
    BY <1>1, <1>2, <2>1, QuietStream
<1> QED
  BY <1>4, <1>5

LEMMA ReturnsContinueStream ==
    ASSUME Live, Past(out', cur', h', pc'), ReturnsContinue
    PROVE  pc' = "removed" \/ (Arriving' /\ Parsing')
<1> DEFINE g == IF h.sent THEN h ELSE [h EXCEPT !.needCont = FALSE]
           recs == IF ~h.sent /\ h.needCont THEN Continue ELSE <<>>
           d == [g EXCEPT !.again = TRUE, !.ev = IF h.sent THEN "eos" ELSE @]
<1>1. pc = "handler" /\ in' = in /\ cur' = cur /\ UNCHANGED clientVars
  BY DEF ReturnsContinue, Move, HandlerOnly
<1>2. Conn /\ h \in Fields /\ h.handler /\ h.method /\ (h.sent => ~h.needCont)
  BY <1>1, HandlerFacts DEF Live, ConnInv, Sound
<1>3. CASE h.again
  <2>1. Final("page")
    BY <1>3 DEF ReturnsContinue
  <2> QED
    BY <1>1, <2>1, FinalStream
<1>4. CASE ~h.again
  <2>1. out' = out \o recs /\ h' \in {g, d}
    BY <1>4 DEF ReturnsContinue, Emit
  <2>2. /\ g \in Fields /\ g.method /\ g.handler /\ g.sent = h.sent /\ ~g.needCont /\ g.close = h.close
        /\ g.outClosed = h.outClosed /\ g.remain = h.remain /\ g.chunkedPost = h.chunkedPost
    <3>1. CASE h.sent
      <4>1. g = h
        BY <3>1
      <4> HIDE DEF g
      <4> QED
        BY <1>2, <3>1, <4>1
    <3>2. CASE ~h.sent
      <4>1. g = [h EXCEPT !.needCont = FALSE]
        BY <3>2
      <4> HIDE DEF g
      <4> QED
        BY <1>2, <4>1 DEF Fields
    <3> QED
      BY <3>1, <3>2
  <2>3. /\ d.method = g.method /\ d.handler = g.handler /\ d.sent = g.sent /\ d.needCont = g.needCont
        /\ d.close = g.close /\ d.outClosed = g.outClosed /\ d.remain = g.remain /\ d.chunkedPost = g.chunkedPost
    <3> HIDE DEF g
    <3> QED
      BY <2>2 DEF Fields
  <2> HIDE DEF g, d
  <2>4. /\ h'.method /\ h'.handler /\ h'.sent = h.sent /\ ~h'.needCont /\ h'.close = h.close
        /\ h'.outClosed = h.outClosed /\ h'.remain = h.remain /\ h'.chunkedPost = h.chunkedPost
    BY <2>1, <2>2, <2>3
  <2>5. CASE ~h.sent /\ h.needCont
    <3>1. out' = out \o Continue
      BY <2>1, <2>5
    <3> QED
      BY <1>1, <1>2, <2>4, <2>5, <3>1, ContinueStream
  <2>6. CASE ~(~h.sent /\ h.needCont)
    <3>1. out' = out \o <<>> /\ <<>> \in Seq(Answers)
      BY <1>2, <2>1, <2>6, RecAnswers
    <3>2. SameRequest(h, h')
      BY <1>2, <2>4 DEF SameRequest, Fields
    <3> QED
      BY <1>1, <1>2, <3>1, <3>2, QuietStream
  <2> QED
    BY <2>5, <2>6
<1> QED
  BY <1>3, <1>4

LEMMA ChunkFinishedStream ==
    ASSUME Live, Past(out', cur', h', pc'), ChunkFinished
    PROVE  pc' = "removed" \/ (Arriving' /\ Parsing')
<1> DEFINE g == [h EXCEPT !.buff = FALSE]
           rest == IF h.buff THEN <<Rec("data")>> ELSE <<>>
           last == IF ~h.chunked THEN <<>> ELSE rest \o <<Rec("end")>>
           k == kinds[cur]
           w == Has(out, cur, "cont")
<1>1. pc = "drain" /\ in' = in /\ cur' = cur /\ UNCHANGED clientVars /\ ~Draining
  BY DEF ChunkFinished, ReadOnly
<1>2. /\ Conn /\ Sound(h) /\ h.sent /\ ~h.needCont /\ (ret = "handler" => h.handler)
  BY <1>1 DEF Live, ConnInv, Conn, Control
<1>3. h.close \/ h.remain = 0
  BY <1>1, <1>2 DEF Draining, BodyLeft
<1>4. last \in Seq(Answers)
  BY <1>2, RecAnswers
<1>5. out' = out \o last
  BY DEF ChunkFinished, Remove, EmitFlush
<1>6. \/ ret = "handler" /\ h' = [g EXCEPT !.outClosed = TRUE] /\ pc' = "handler"
      \/ ~h.close /\ h' = Clear(g) /\ pc' = "loop"
      \/ h' = Clear(g) /\ pc' = "removed"
  BY DEF ChunkFinished, Remove, Goto
<1> HIDE DEF last, k, w
<1>7. k = kinds[cur] /\ w = Has(out, cur, "cont")
  BY DEF k, w
<1>8. CASE ret = "handler" /\ h' = [g EXCEPT !.outClosed = TRUE] /\ pc' = "handler"
  <2>1. /\ h'.method = h.method /\ h'.handler = h.handler /\ h'.sent = h.sent /\ h'.close = h.close
        /\ h'.needCont = h.needCont /\ h'.remain = h.remain /\ h'.chunkedPost = h.chunkedPost
    BY <1>2, <1>8 DEF Sound, Fields
  <2>2. ASSUME NEW c, Parsed(h, pc, k, w, c) PROVE Parsed(h', pc', k, w, c)
    BY <1>2, <1>3, <1>8, <2>1, <2>2 DEF Parsed, Rest
  <2> QED
    BY <1>1, <1>4, <1>5, <1>7, <2>2, InRequest
<1>9. CASE ~h.close /\ h' = Clear(g) /\ pc' = "loop"
  <2>1. Sound(g)
    BY <1>2 DEF Sound, Fields
  <2>2. ~h'.method /\ ~h'.handler
    BY <1>9, <2>1, ClearSound
  <2>3. ASSUME NEW c \in Nat, k \in KindType, Parsed(h, pc, k, w, c) PROVE Parsed(h', pc', k, w, c)
    <3>1. Rest(h, k, w, c)
      BY <1>1, <1>9, <2>3 DEF Parsed
    <3> QED
      BY <1>2, <1>3, <1>9, <2>2, <2>3, <3>1, ParsedOver
  <2> QED
    BY <1>1, <1>4, <1>5, <1>7, <2>3, InRequest
<1> QED
  BY <1>6, <1>8, <1>9

LEMMA BadVersionStream ==
    ASSUME Live, Past(out', cur', h', pc'), BadVersion
    PROVE  pc' = "removed" \/ (Arriving' /\ Parsing')
<1>1. pc = "badversion" /\ ErrorPageKA(h, "page") /\ in' = in /\ cur' = cur /\ UNCHANGED clientVars
  BY DEF BadVersion, histVars
<1>2. Conn /\ Sound(h) /\ h.method /\ ~h.handler
  BY <1>1 DEF Live, ConnInv, Conn, Control
<1>3. CASE h.outClosed
  BY <1>1, <1>3 DEF ErrorPageKA, Remove, Goto
<1>4. CASE ~h.outClosed
  <2>1. h' = ErrorPage(h, "page") /\ pc' = "drain" /\ out' = out \o ErrorPageOut(h, "page")
    BY <1>1, <1>4 DEF ErrorPageKA, Drain, Emit
  <2>2. h'.method /\ ~h'.handler /\ h'.close
    BY <1>2, <2>1, ErrorPageSound
  <2>3. \A k, w, c : Parsed(h', pc', k, w, c)
    BY <2>1, <2>2 DEF Parsed
  <2>4. ErrorPageOut(h, "page") \in Seq(Answers)
    BY <1>2, RecAnswers
  <2> QED
    BY <1>1, <2>1, <2>3, <2>4, InRequest
<1> QED
  BY <1>3, <1>4

-----------------------------------------------------------------------------
(* Tokens taken from the input                                             *)

(* A token is taken from the input: it is of request cur', none is of an   *)
(* earlier one.                                                            *)
LEMMA ArrivingTaken ==
    ASSUME ConnInv, Arriving, in # <<>>, in' = Tail(in), UNCHANGED clientVars,
           cur' = Head(in).req, NEW q \in Seq(Answers), out' = out \o q
    PROVE  Arriving'
<1> DEFINE t == Tail(in)
           x == Head(in).req
<1>1. /\ in \in Seq(Tokens) /\ out \in Seq(Records) /\ cur \in Nat /\ Len(kinds) \in Nat
      /\ \A i \in DOMAIN in : in[i].req \in Nat
  BY InputFacts
<1>2. /\ Head(in) = in[1] /\ 1 \in DOMAIN in
      /\ \A i \in DOMAIN t : i \in Nat /\ i # 0 /\ i + 1 \in DOMAIN in /\ t[i] = in[i + 1]
  BY <1>1, Taken
<1>3. kinds' = kinds /\ pos' = pos /\ x \in Nat /\ cur <= x
  BY <1>1, <1>2 DEF clientVars, Arriving
<1> HIDE DEF t, x
<1>4. ASSUME NEW r \in 1 .. Len(kinds), x < r
      PROVE  \E a, n \in Nat : n # 0 /\ Stretch(t, kinds[r], r, a, n, 0) /\ SentOf(out', kinds, pos, r, n)
  <2>1. cur < r
    BY <1>1, <1>3, <1>4
  <2>2. PICK a, n \in Nat : n # 0 /\ Stretch(in, kinds[r], r, a, n, 0) /\ SentOf(out, kinds, pos, r, n)
    BY <2>1 DEF Arriving
  <2>3. Head(in).req # r
    BY <1>3, <1>4 DEF x
  <2>4. a - 1 \in Nat /\ Stretch(t, kinds[r], r, a - 1, n, 0)
    BY <1>1, <2>2, <2>3, StretchLater DEF t
  <2>5. SentOf(out', kinds, pos, r, n)
    BY <1>1, <2>2, SentStill, AnswersAdded
  <2> QED
    BY <2>2, <2>4, <2>5
<1>5. ASSUME NEW i \in DOMAIN t PROVE x <= t[i].req /\ t[i].req <= Len(kinds)
  <2>1. i \in Nat /\ 1 < i + 1 /\ i + 1 \in DOMAIN in /\ t[i] = in[i + 1]
    BY <1>2
  <2>2. x = in[1].req
    BY <1>2 DEF x
  <2> QED
    BY <1>2, <2>1, <2>2 DEF Arriving
<1>6. ASSUME NEW i \in DOMAIN t, NEW j \in DOMAIN t, i < j PROVE t[i].req <= t[j].req
  <2>1. i + 1 < j + 1 /\ i + 1 \in DOMAIN in /\ j + 1 \in DOMAIN in /\ t[i] = in[i + 1] /\ t[j] = in[j + 1]
    BY <1>2, <1>6
  <2> QED
    BY <2>1 DEF Arriving
<1>7. in' = t /\ cur' = x
  BY DEF t, x
<1> QED
  BY <1>3, <1>4, <1>5, <1>6, <1>7 DEF Arriving

LEMMA TokenTaken ==
    ASSUME Live, cur # 0, in # <<>>, in' = Tail(in), cur' = cur, UNCHANGED clientVars, Head(in).req = cur,
           NEW q \in Seq(Answers), out' = out \o q,
           NEW w, w = Has(out, cur, "cont"), NEW k, k = kinds[cur],
           \A c \in Nat : k \in KindType /\ c + 1 <= Upto(k, w) /\ Head(in).what = Script(k)[c + 1]
                            /\ Parsed(h, pc, k, w, c) => Parsed(h', pc', k, w, c + 1)
    PROVE  Arriving' /\ Parsing'
<1>1. in \in Seq(Tokens) /\ out \in Seq(Records) /\ cur \in Nat /\ Len(kinds) \in Nat /\ k \in KindType
  BY InputFacts DEF Live
<1>2. q \in Seq(Records) /\ (Has(out', cur, "cont") <=> w)
  BY <1>1, AnswersAdded
<1>3. kinds' = kinds /\ pos' = pos
  BY DEF clientVars
<1>4. Arriving'
  BY ArrivingTaken DEF Live
<1>5. PICK n, c \in Nat :
        /\ Stretch(in, kinds[cur], cur, 0, n, c) /\ SentOf(out, kinds, pos, cur, c + n)
        /\ Parsed(h, pc, kinds[cur], Has(out, cur, "cont"), c)
  BY DEF Live, Parsing
<1>6. /\ n # 0 /\ Head(in).what = Script(k)[c + 1] /\ n - 1 \in Nat /\ c + 1 \in Nat
      /\ (c + 1) + (n - 1) = c + n /\ Stretch(in', k, cur, 0, n - 1, c + 1)
  BY <1>1, <1>5, StretchFirst
<1>7. c + n <= Upto(k, w) /\ Upto(k, w) \in Nat
  BY <1>1, <1>5, UptoIs DEF SentOf
<1>8. c + 1 <= Upto(k, w)
  BY <1>6, <1>7
<1>9. Parsed(h', pc', k, w, c + 1)
  BY <1>1, <1>5, <1>6, <1>8
<1>10. Parsed(h', pc', k, Has(out', cur, "cont"), c + 1)
  <2>1. CASE w
    BY <1>2, <1>9, <2>1 DEF Parsed, Rest, Upto, Owes
  <2>2. CASE ~w
    BY <1>2, <1>9, <2>2 DEF Parsed, Rest, Upto, Owes
  <2> QED
    BY <2>1, <2>2
<1>11. SentOf(out', kinds, pos, cur, (c + 1) + (n - 1))
  BY <1>1, <1>2, <1>5, <1>6, SentStill
<1>12. \E n2, c2 \in Nat :
         /\ Stretch(in', kinds'[cur'], cur', 0, n2, c2) /\ SentOf(out', kinds', pos', cur', c2 + n2)
         /\ Parsed(h', pc', kinds'[cur'], Has(out', cur', "cont"), c2)
  BY <1>3, <1>6, <1>10, <1>11
<1> QED
  BY <1>4, <1>12 DEF Parsing

(* The next token is of this request when the fields say that it has not   *)
(* been read to its end.                                                   *)
LEMMA TokenOwn ==
    ASSUME Live, cur # 0, in # <<>>,
           NEW w, w = Has(out, cur, "cont"), NEW k, k = kinds[cur],
           \A c \in Nat : k \in KindType /\ c = Upto(k, w) /\ (Owes(k, w) => Has(out, cur, "head"))
                            => ~Parsed(h, pc, k, w, c)
    PROVE  Head(in).req = cur
<1>1. k \in KindType
  BY InputFacts DEF Live
<1>2. PICK n, c \in Nat :
        /\ Stretch(in, kinds[cur], cur, 0, n, c) /\ SentOf(out, kinds, pos, cur, c + n)
        /\ Parsed(h, pc, kinds[cur], Has(out, cur, "cont"), c)
  BY DEF Live, Parsing
<1> QED
  BY <1>1, <1>2, NoMore DEF Live

(* While the fields expect more of a body, it has not been refused.        *)
LEMMA Expecting ==
    ASSUME Live, NEW w, w = Has(out, cur, "cont"), NEW k \in KindType, k = kinds[cur], NEW c,
           Parsed(h, pc, k, w, c), h.handler \/ (pc = "drain" /\ ~h.close), h.remain # 0 \/ h.chunkedPost
    PROVE  /\ h.method /\ ~(k.expect = "100" /\ h.sent /\ ~w)
           /\ k.body = "len" => c \in {2, 3, 4} /\ h.remain = 4 - c /\ ~h.chunkedPost
           /\ k.body = "chunked" => (c \in {2, 4, 6} /\ h.remain = 0) \/ (c \in {3, 5} /\ h.remain = 1)
           /\ k.body = "chunked" => h.chunkedPost
           /\ k.body \in {"len", "chunked"}
           /\ ~(c = Upto(k, w) /\ (Owes(k, w) => Has(out, cur, "head")))
<1>1. h.method /\ (h.sent \/ ~Has(out, cur, "head"))
  <2>1. h.method
    BY DEF Live, ConnInv, Conn, Control
  <2> QED
    BY <2>1 DEF Live, Past, Has
<1>2. Rest(h, k, w, c)
  BY DEF Parsed
<1>3. ~(k.expect = "100" /\ h.sent /\ ~w)
  BY <1>2 DEF Rest
<1>4. /\ k.body = "len" => c \in {2, 3, 4} /\ h.remain = 4 - c /\ ~h.chunkedPost
      /\ k.body = "chunked" => (c \in {2, 4, 6} /\ h.remain = 0) \/ (c \in {3, 5} /\ h.remain = 1)
      /\ k.body = "chunked" => h.chunkedPost
      /\ k.body # "none"
  BY <1>2, <1>3 DEF Rest
<1>5. ASSUME c = Upto(k, w), Owes(k, w) => Has(out, cur, "head") PROVE FALSE
  <2>1. CASE Owes(k, w)
    BY <1>1, <1>3, <1>5, <2>1 DEF Owes
  <2>2. CASE ~Owes(k, w)
    <3>1. c = Len(Script(k))
      BY <1>5, <2>2 DEF Upto
    <3>2. /\ k.body = "len" => Len(Script(k)) = 4
          /\ k.body = "chunked" => Len(Script(k)) = 7
          /\ k.body \in {"none", "len", "chunked"}
      BY ScriptIs
    <3>3. k.body = "len" => c # 4
      BY <1>4
    <3>4. k.body = "chunked" => c # 7
      BY <1>4
    <3> QED
      BY <1>4, <3>1, <3>2, <3>3, <3>4
  <2> QED
    BY <2>1, <2>2
<1> QED
  BY <1>1, <1>3, <1>4, <1>5 DEF KindType

LEMMA ReadUnitStream ==
    ASSUME Live, ReadUnit
    PROVE  Arriving' /\ Parsing'
<1> DEFINE k == kinds[cur]
           w == Has(out, cur, "cont")
<1>1. /\ in # <<>> /\ in' = Tail(in) /\ cur' = cur /\ UNCHANGED clientVars /\ out' = out
      /\ h' = [h EXCEPT !.remain = h.remain - 1]
      /\ (pc = "drain" /\ ~h.close) \/ pc \in {"reading", "probing"}
      /\ pc' = (IF pc = "drain" THEN "drain" ELSE "handler") /\ h.remain # 0
  BY DEF Live, ReadUnit, ReadOnly, Needs, NeedsChunk, Draining, BodyLeft, Goto
<1>2. /\ Conn /\ h \in Fields /\ (h.handler \/ (pc = "drain" /\ ~h.close)) /\ cur # 0
      /\ kinds[cur] \in KindType
  <2>1. ConnInv
    BY DEF Live
  <2>2. h.handler \/ (pc = "drain" /\ ~h.close /\ h.sent)
    BY <1>1, <2>1 DEF Live, ConnInv, Conn, Control
  <2>3. cur # 0
    BY <2>1, <2>2 DEF Live, ConnInv, Conn, Control
  <2> QED
    BY <2>1, <2>2, <2>3, InputFacts DEF ConnInv, Conn, Sound
<1>3. /\ h'.method = h.method /\ h'.handler = h.handler /\ h'.sent = h.sent /\ h'.close = h.close
      /\ h'.needCont = h.needCont /\ h'.remain = h.remain - 1 /\ h'.chunkedPost = h.chunkedPost
      /\ h'.outClosed = h.outClosed
  BY <1>1, <1>2 DEF Fields
<1> HIDE DEF k, w
<1>4. k = kinds[cur] /\ w = Has(out, cur, "cont")
  BY DEF k, w
<1>5. Head(in).req = cur
  BY <1>1, <1>2, <1>4, Expecting, TokenOwn
<1>6. ASSUME NEW c \in Nat, k \in KindType, Parsed(h, pc, k, w, c) PROVE Parsed(h', pc', k, w, c + 1)
  <2>1. /\ h.method /\ ~(k.expect = "100" /\ h.sent /\ ~w)
        /\ k.body = "len" => c \in {2, 3, 4} /\ h.remain = 4 - c /\ ~h.chunkedPost
        /\ k.body = "chunked" => (c \in {2, 4, 6} /\ h.remain = 0) \/ (c \in {3, 5} /\ h.remain = 1)
        /\ k.body = "chunked" => h.chunkedPost
        /\ k.body \in {"len", "chunked"}
    BY <1>1, <1>2, <1>4, <1>6, Expecting
  <2>2. Rest(h', k, w, c + 1)
    BY <1>1, <1>3, <2>1 DEF Rest
  <2>3. h.handler /\ h.needCont => k.expect = "100"
    BY <1>6 DEF Parsed
  <2>4. h.handler /\ h.outClosed /\ ~h.close => k.body = "chunked"
    BY <1>1, <1>6 DEF Parsed
  <2> QED
    BY <1>1, <1>2, <1>3, <2>1, <2>2, <2>3, <2>4 DEF Parsed
<1>7. <<>> \in Seq(Answers) /\ out' = out \o <<>>
  BY <1>1, <1>2, RecAnswers DEF Conn, Wires
<1> QED
  BY <1>1, <1>2, <1>4, <1>5, <1>6, <1>7, TokenTaken

LEMMA OpenPostChunkStream ==
    ASSUME Live, OpenPostChunk
    PROVE  Arriving' /\ Parsing'
<1> DEFINE k == kinds[cur]
           w == Has(out, cur, "cont")
<1>1. /\ in # <<>> /\ in' = Tail(in) /\ cur' = cur /\ UNCHANGED clientVars /\ out' = out
      /\ IF Head(in).what = "chunk"
         THEN h' = [h EXCEPT !.remain = 1] /\ pc' = pc
         ELSE h' = [h EXCEPT !.chunkedPost = FALSE, !.inClosed = TRUE] /\ pc' = "handler"
      /\ pc \in {"reading", "probing"} /\ h.remain = 0 /\ h.chunkedPost
  BY DEF Live, OpenPostChunk, ReadOnly, Needs, NeedsChunk, Draining, BodyLeft, Goto
<1>2. /\ Conn /\ h \in Fields /\ h.handler /\ cur # 0 /\ kinds[cur] \in KindType
  <2>1. ConnInv
    BY DEF Live
  <2>2. h.handler /\ cur # 0
    BY <1>1, <2>1 DEF ConnInv, Conn, Control
  <2> QED
    BY <2>1, <2>2, InputFacts DEF ConnInv, Conn, Sound
<1>3. /\ h'.method = h.method /\ h'.handler = h.handler /\ h'.sent = h.sent /\ h'.close = h.close
      /\ h'.needCont = h.needCont /\ h'.outClosed = h.outClosed
      /\ h'.remain = IF Head(in).what = "chunk" THEN 1 ELSE 0
      /\ h'.chunkedPost <=> Head(in).what = "chunk"
  BY <1>1, <1>2 DEF Fields
<1> HIDE DEF k, w
<1>4. k = kinds[cur] /\ w = Has(out, cur, "cont")
  BY DEF k, w
<1>5. Head(in).req = cur
  BY <1>1, <1>2, <1>4, Expecting, TokenOwn
<1>6. ASSUME NEW c \in Nat, k \in KindType, Parsed(h, pc, k, w, c), Head(in).what = Script(k)[c + 1]
      PROVE  Parsed(h', pc', k, w, c + 1)
  <2>1. h.method /\ ~(k.expect = "100" /\ h.sent /\ ~w) /\ k.body = "chunked" /\ c \in {2, 4, 6}
    BY <1>1, <1>2, <1>4, <1>6, Expecting
  <2>2. Head(in).what = "chunk" <=> c # 6
    BY <1>6, <2>1, ScriptIs
  <2>3. Rest(h', k, w, c + 1)
    BY <1>3, <2>1, <2>2 DEF Rest
  <2>4. h.handler /\ h.needCont => k.expect = "100"
    BY <1>6 DEF Parsed
  <2> QED
    BY <1>2, <1>3, <2>1, <2>3, <2>4 DEF Parsed
<1>7. <<>> \in Seq(Answers) /\ out' = out \o <<>>
  BY <1>1, <1>2, RecAnswers DEF Conn, Wires
<1> QED
  BY <1>1, <1>2, <1>4, <1>5, <1>6, <1>7, TokenTaken

(* What the header of request k makes of the fields.                       *)
Announced(f, k) ==
    [f EXCEPT !.outClosed = FALSE, !.inClosed = FALSE, !.head = k.head,
              !.close = (k.minor = 0 \/ k.close),
              !.remain = IF k.body = "len" THEN 2 ELSE 0,
              !.chunkedPost = (k.body = "chunked"),
              !.needCont = IF k.expect = "other" THEN @ ELSE k.expect = "100"]

LEMMA HeaderFields ==
    ASSUME h \in Fields, NEW k \in KindType, NEW g, g = Announced(h, k)
    PROVE  /\ Sound(g) /\ g.method = h.method /\ g.handler = h.handler /\ g.sent = h.sent /\ ~g.outClosed
           /\ g.remain = (IF k.body = "len" THEN 2 ELSE 0) /\ (g.chunkedPost <=> k.body = "chunked")
           /\ k.expect # "other" => (g.needCont <=> k.expect = "100")
           /\ g.switched = h.switched
<1> DEFINE c == k.minor = 0 \/ k.close
           m == IF k.body = "len" THEN 2 ELSE 0
           p == k.body = "chunked"
           n == IF k.expect = "other" THEN h.needCont ELSE k.expect = "100"
<1>1. k.head \in BOOLEAN /\ c \in BOOLEAN /\ m \in {0, 2} /\ p \in BOOLEAN /\ n \in BOOLEAN
  BY DEF KindType, Fields
<1>2. g = [h EXCEPT !.outClosed = FALSE, !.inClosed = FALSE, !.head = k.head, !.close = c,
                    !.remain = m, !.chunkedPost = p, !.needCont = n]
  BY DEF Announced
<1>3. k.expect # "other" => (n <=> k.expect = "100")
  OBVIOUS
<1>4. m = (IF k.body = "len" THEN 2 ELSE 0) /\ (p <=> k.body = "chunked")
  OBVIOUS
<1> HIDE DEF c, m, p, n
<1>5. /\ g.method = h.method /\ g.handler = h.handler /\ g.sent = h.sent /\ ~g.outClosed /\ g.remain = m
      /\ g.chunkedPost = p /\ g.needCont = n /\ g.switched = h.switched
  BY <1>2 DEF Fields
<1>6. g \in Fields
  <2> DEFINE g1 == [h EXCEPT !.outClosed = FALSE, !.inClosed = FALSE, !.head = k.head]
             g2 == [g1 EXCEPT !.close = c, !.remain = m]
             g3 == [g2 EXCEPT !.chunkedPost = p, !.needCont = n]
  <2>1. g1 \in Fields
    BY <1>1 DEF Fields
  <2>2. g = g3
    BY <1>2 DEF Fields
  <2> HIDE DEF g1
  <2>3. g2 \in Fields
    BY <1>1, <2>1 DEF Fields
  <2> HIDE DEF g2
  <2>4. g3 \in Fields
    BY <1>1, <2>3 DEF Fields
  <2> QED
    BY <2>2, <2>4
<1>7. Sound(g)
  BY <1>1, <1>5, <1>6 DEF Sound, All
<1> QED
  BY <1>3, <1>4, <1>5, <1>7

LEMMA HeaderCompleteStream ==
    ASSUME Live, HeaderComplete
    PROVE  pc' = "removed" \/ (Arriving' /\ Parsing')
<1> DEFINE k == kinds[cur]
           w == Has(out, cur, "cont")
           g == [h EXCEPT !.outClosed = FALSE, !.inClosed = FALSE,
                          !.head = k.head,
                          !.close = (k.minor = 0 \/ k.close),
                          !.remain = IF k.body = "len" THEN 2 ELSE 0,
                          !.chunkedPost = (k.body = "chunked"),
                          !.needCont = IF k.expect = "other" THEN @ ELSE k.expect = "100"]
           d == [g EXCEPT !.handler = TRUE, !.ev = "request", !.again = FALSE]
<1>1. /\ in # <<>> /\ in' = Tail(in) /\ cur' = cur /\ UNCHANGED clientVars /\ h.method
      /\ pc \in {"header", "lines"}
  BY DEF HeaderComplete
<1>2. /\ Conn /\ h \in Fields /\ ~h.handler /\ ~h.sent /\ cur # 0 /\ k \in KindType
  <2>1. ConnInv
    BY DEF Live
  <2>2. ~h.handler /\ ~h.sent /\ cur # 0
    BY <1>1, <2>1 DEF ConnInv, Conn, Control
  <2> QED
    BY <2>1, <2>2, InputFacts DEF ConnInv, Conn, Sound
<1>3. \/ ErrorPageKA(g, "page")
      \/ k.expect # "other" /\ Finish(HeadSent(g, "length"), <<HeadRec(g, "length")>>)
      \/ k.expect # "other" /\ h' = d /\ Emit(<<>>) /\ Goto("handler")
  BY DEF HeaderComplete
<1>4. /\ Sound(g) /\ g.method /\ ~g.handler /\ ~g.sent /\ ~g.outClosed
      /\ g.remain = (IF k.body = "len" THEN 2 ELSE 0) /\ (g.chunkedPost <=> k.body = "chunked")
      /\ k.expect # "other" => (g.needCont <=> k.expect = "100")
  <2>1. g = Announced(h, k)
    BY DEF Announced
  <2> HIDE DEF g, k
  <2> QED
    BY <1>1, <1>2, <2>1, HeaderFields
<1> HIDE DEF g, k, w
<1>5. k = kinds[cur] /\ w = Has(out, cur, "cont")
  BY DEF k, w
<1>6. ASSUME NEW c, Parsed(h, pc, k, w, c) PROVE c = 1
  BY <1>1, <1>2, <1>6 DEF Parsed
<1>7. Upto(k, w) # 1
  BY <1>2, UptoIs
<1>8. Head(in).req = cur
  BY <1>1, <1>2, <1>5, <1>6, <1>7, TokenOwn
<1>9. k.body \in {"none", "len", "chunked"}
  BY <1>2 DEF KindType
<1>10. ASSUME NEW q \in Seq(Answers), out' = out \o q, Parsed(h', pc', k, w, 2)
       PROVE  Arriving' /\ Parsing'
  <2>1. ASSUME NEW c \in Nat, Parsed(h, pc, k, w, c) PROVE Parsed(h', pc', k, w, c + 1)
    <3>1. c + 1 = 2
      BY <1>6, <2>1
    <3> QED
      BY <1>10, <3>1
  <2> QED
    BY <1>1, <1>2, <1>5, <1>8, <1>10, <2>1, TokenTaken
<1>11. CASE ErrorPageKA(g, "page")
  <2>1. h' = ErrorPage(g, "page") /\ pc' = "drain" /\ out' = out \o ErrorPageOut(g, "page")
    BY <1>4, <1>11 DEF ErrorPageKA, Drain, Emit
  <2>2. h'.method /\ ~h'.handler /\ h'.close
    BY <1>4, <2>1, ErrorPageSound
  <2>3. Parsed(h', pc', k, w, 2)
    BY <2>1, <2>2 DEF Parsed
  <2>4. ErrorPageOut(g, "page") \in Seq(Answers)
    BY <1>2, RecAnswers
  <2> QED
    BY <1>10, <2>1, <2>3, <2>4
<1>12. CASE k.expect # "other" /\ Finish(HeadSent(g, "length"), <<HeadRec(g, "length")>>)
  <2> DEFINE e == HeadSent(g, "length")
             q == <<HeadRec(g, "length")>>
  <2>1. Answering(g, e)
    BY <1>4, HeadAnswering
  <2>2. q \in Seq(Answers)
    BY <1>2, RecAnswers
  <2> HIDE DEF e, q
  <2>3. Finish(e, q)
    BY <1>12 DEF e, q
  <2>4. h' = e /\ pc' = "drain" /\ out' = out \o q
    BY <1>4, <2>1, <2>3 DEF Finish, Drain, Emit, Answering
  <2>5. ~w
    BY <1>1, <1>2, <1>5 DEF Live, Past, Has
  <2>6. /\ e.method /\ ~e.handler /\ e.sent
        /\ e.remain = (IF g.needCont THEN 0 ELSE g.remain) /\ e.chunkedPost = (g.chunkedPost /\ ~g.needCont)
    BY <1>4, <2>1 DEF Answering
  <2>7. Rest(e, k, w, 2)
    <3>1. CASE k.expect = "100"
      BY <1>4, <2>5, <2>6, <3>1 DEF Rest
    <3>2. CASE k.expect # "100"
      <4>1. e.remain = (IF k.body = "len" THEN 2 ELSE 0) /\ (e.chunkedPost <=> k.body = "chunked")
        BY <1>4, <1>12, <2>6, <3>2
      <4> QED
        BY <3>2, <4>1 DEF Rest
    <3> QED
      BY <3>1, <3>2
  <2>8. Parsed(h', pc', k, w, 2)
    BY <2>4, <2>6, <2>7 DEF Parsed
  <2> QED
    BY <1>10, <2>2, <2>4, <2>8
<1>13. CASE k.expect # "other" /\ h' = d /\ Emit(<<>>) /\ Goto("handler")
  <2>1. /\ h'.method /\ h'.handler /\ ~h'.sent /\ ~h'.outClosed /\ h'.remain = g.remain
        /\ h'.chunkedPost = g.chunkedPost /\ h'.needCont = g.needCont
    BY <1>4, <1>13 DEF Sound, Fields
  <2>2. Rest(h', k, w, 2)
    BY <1>4, <2>1 DEF Rest
  <2>3. Parsed(h', pc', k, w, 2)
    BY <1>4, <1>13, <2>1, <2>2 DEF Parsed
  <2>4. <<>> \in Seq(Answers) /\ out' = out \o <<>>
    BY <1>2, <1>13, NoAnswer
  <2> QED
    BY <1>10, <2>3, <2>4
<1> QED
  BY <1>3, <1>11, <1>12, <1>13

LEMMA RequestLineStream ==
    ASSUME Live, RequestLine
    PROVE  Arriving' /\ Parsing'
<1> DEFINE r == Head(in).req
<1>1. /\ pc = "header" /\ ~h.method /\ in # <<>> /\ in' = Tail(in) /\ cur' = r /\ UNCHANGED clientVars
      /\ out' = out /\ Head(in).what = "line" /\ pc' \in {"badversion", "lines"}
  BY DEF RequestLine, Goto
<1>2. /\ ConnInv /\ in \in Seq(Tokens) /\ out \in Seq(Records) /\ cur \in Nat /\ Len(kinds) \in Nat
      /\ \A i \in DOMAIN in : in[i].req \in Nat
      /\ Conn /\ h \in Fields /\ ~h.handler
  <2>1. ConnInv
    BY DEF Live
  <2> QED
    BY <1>1, <2>1, InputFacts DEF ConnInv, Conn, Sound, Control
<1>3. Head(in) = in[1] /\ 1 \in DOMAIN in
  BY <1>1, <1>2, Taken
<1>4. cur < r /\ r <= Len(kinds) /\ r \in Nat
  <2>1. Lines(in, cur, Len(kinds))
    BY <1>2 DEF ConnInv, Coming
  <2> QED
    BY <1>1, <1>2, <1>3, <2>1, LinesTaken
<1> HIDE DEF r
<1>5. PICK a, n \in Nat : n # 0 /\ Stretch(in, kinds[r], r, a, n, 0) /\ SentOf(out, kinds, pos, r, n)
  BY <1>2, <1>4 DEF Live, Arriving
<1>6. a = 0
  BY <1>3, <1>5 DEF Stretch, r
<1>7. Stretch(in', kinds[r], r, 0, n - 1, 1) /\ n - 1 \in Nat /\ 1 + (n - 1) = n
  <2>1. Stretch(in, kinds[r], r, 0, n, 0) /\ Head(in).req = r
    BY <1>5, <1>6 DEF r
  <2>2. Stretch(Tail(in), kinds[r], r, 0, n - 1, 0 + 1)
    BY <1>1, <1>2, <2>1, StretchFirst
  <2> QED
    BY <1>1, <1>5, <2>2
<1>8. h'.method /\ ~h'.handler
  <2>1. h' = [h EXCEPT !.method = TRUE] \/ \E use : h' = UseHTTP11([h EXCEPT !.method = TRUE], use)
    BY DEF RequestLine
  <2> QED
    BY <1>2, <2>1 DEF UseHTTP11, Fields
<1>9. \A k, w : Parsed(h', pc', k, w, 1)
  BY <1>1, <1>8 DEF Parsed
<1>10. kinds' = kinds /\ pos' = pos
  BY <1>1 DEF clientVars
<1>11. \E n2, c2 \in Nat :
         /\ Stretch(in', kinds'[cur'], cur', 0, n2, c2) /\ SentOf(out', kinds', pos', cur', c2 + n2)
         /\ Parsed(h', pc', kinds'[cur'], Has(out', cur', "cont"), c2)
  BY <1>1, <1>5, <1>7, <1>9, <1>10
<1>12. <<>> \in Seq(Answers) /\ out' = out \o <<>>
  BY <1>1, <1>2, RecAnswers
<1>13. Arriving'
  BY <1>1, <1>2, <1>12, ArrivingTaken DEF Live, r
<1> QED
  BY <1>11, <1>13 DEF Parsing

-----------------------------------------------------------------------------
(* The end of the connection                                               *)

(* A handler that fails: of its request, what has been read stays.         *)
LEMMA ThrowStream ==
    ASSUME Live, Past(out', cur', h', pc'), HandlerThrows \/ ReadThrows
    PROVE  ~h'.handler \/ (Arriving' /\ Parsing')
<1> DEFINE u == UseHTTP11(h, FALSE)
<1>1. Throw(h) /\ in' = in /\ cur' = cur /\ UNCHANGED clientVars
  BY DEF HandlerThrows, ReadThrows
<1>2. Conn /\ Sound(h) /\ (h.sent => ~h.needCont)
  BY DEF Live, ConnInv, Conn, Control
<1>3. /\ Sound(u) /\ u.close /\ u.needCont = h.needCont /\ u.method = h.method
      /\ u.handler = h.handler /\ u.outClosed = h.outClosed /\ u.sent = h.sent
  BY <1>2, UseHTTP11Sound
<1>4. u.remain = h.remain /\ u.chunkedPost = h.chunkedPost /\ u.switched = h.switched
  BY <1>2 DEF Sound, Fields, UseHTTP11
<1>5. h' = ErrorPage(u, "page") /\ out' = out \o ErrorPageOut(u, "page")
  BY <1>1 DEF Throw, Remove, EmitFlush
<1>6. ErrorPageOut(u, "page") \in Seq(Answers)
  BY <1>2, RecAnswers
<1> HIDE DEF u
<1>7. Answering(u, h')
  BY <1>2, <1>3, <1>5, PageAnswering
<1>8. Answering(h, h') /\ SameRequest(h', h') /\ h'.handler = h.handler
  BY <1>3, <1>4, <1>7 DEF Answering, SameRequest
<1> QED
  BY <1>1, <1>5, <1>6, <1>8, AnswerStream

(* However else it ends, the connection has forgotten its request.         *)
LEMMA FinishOver ==
    ASSUME NEW g, Sound(g), NEW recs, Finish(g, recs), pc' = "removed"
    PROVE  ~h'.handler
<1>1. h' = Clear(g)
  BY DEF Finish, Drain
<1> QED
  BY <1>1, ClearSound

LEMMA ErrorPageKAOver ==
    ASSUME NEW g, Sound(g), NEW code, ErrorPageKA(g, code), pc' = "removed"
    PROVE  ~h'.handler
<1>1. h' = Clear(ErrorPage(g, code))
  BY DEF ErrorPageKA, Drain
<1> QED
  BY <1>1, ErrorPageSound, ClearSound

LEMMA FinalOver ==
    ASSUME Sound(h), NEW code, Final(code), pc' = "removed"
    PROVE  ~h'.handler
BY FinishOver, ErrorPageKAOver DEF Final

LEMMA ForgetsAtEnd ==
    ASSUME ConnInv, ServerNext, pc' = "removed"
    PROVE  ~h'.handler \/ HandlerThrows
<1>1. Sound(h)
  BY DEF ConnInv, Conn
<1>2. CASE EventLoop
  BY <1>2 DEF EventLoop, DataReady, LoopAgain, LoopEnds, WriteReady, WakeUp, DataEvent, Activate, Goto, Park
<1>3. CASE RequestLine \/ HeaderIncomplete
  BY <1>3 DEF RequestLine, HeaderIncomplete, Goto
<1>4. CASE BadVersion
  BY <1>1, <1>4, ErrorPageKAOver DEF BadVersion
<1>5. CASE HeaderComplete
  <2> DEFINE k == kinds[cur]
             g == Announced(h, k)
  <2>1. \/ ErrorPageKA(g, "page")
        \/ Finish(HeadSent(g, "length"), <<HeadRec(g, "length")>>)
        \/ pc' = "handler"
    BY <1>5 DEF HeaderComplete, Announced, Goto
  <2>2. h.method /\ pc \in {"header", "lines"}
    BY <1>5 DEF HeaderComplete
  <2>3. cur # 0
    BY <2>2 DEF ConnInv, Conn, Control
  <2>4. k \in KindType
    BY <2>3, InputFacts
  <2> HIDE DEF k
  <2>5. Sound(g)
    BY <1>1, <2>4, HeaderFields DEF Sound
  <2> HIDE DEF g
  <2> QED
    BY <2>1, <2>5, HeadSentSound, FinishOver, ErrorPageKAOver
<1>6. CASE GarbageLine \/ HeaderEof
  <2>1. h' = ErrorPage(h, "page") /\ pc = "header"
    BY <1>6 DEF GarbageLine, HeaderEof
  <2>2. ~h.handler
    BY <2>1 DEF ConnInv, Conn, Control
  <2> QED
    BY <1>1, <2>1, <2>2, ErrorPageSound
<1>7. CASE HandlerErrorPage
  <2>1. PICK code \in PageCode : Finish(ErrorPage(h, code), ErrorPageOut(h, code))
    BY <1>7 DEF HandlerErrorPage
  <2> QED
    BY <1>1, <2>1, ErrorPageSound, FinishOver
<1>8. CASE ReturnsFinal \/ ReturnsContinue
  <2>1. (\E code : Final(code)) \/ pc' = "loop" \/ pc' = "handler"
    BY <1>8 DEF ReturnsFinal, ReturnsContinue, Goto
  <2> QED
    BY <1>1, <2>1, FinalOver
<1>9. CASE HandlerReads \/ HandlerProbes \/ HandlerSendsHead \/ HandlerWrites \/ HandlerClosesOutput
           \/ ReturnsWaitForWrite \/ ReturnsSleep
  BY <1>9 DEF HandlerReads, HandlerProbes, HandlerSendsHead, HandlerWrites, HandlerClosesOutput,
     ReturnsWaitForWrite, ReturnsSleep, Goto, Drain, Park
<1>10. CASE ReadReturns \/ ReadUnit \/ OpenPostChunk \/ ReadBlocks \/ ReadZero
  BY <1>10 DEF ReadReturns, ReadUnit, OpenPostChunk, ReadBlocks, ReadZero, Goto, Needs, Draining
<1>11. CASE ChunkFinished
  <2> DEFINE g == [h EXCEPT !.buff = FALSE]
  <2>1. h' = Clear(g)
    BY <1>11 DEF ChunkFinished, Goto
  <2>2. Sound(g)
    BY <1>1 DEF Sound, Fields
  <2> QED
    BY <2>1, <2>2, ClearSound
<1> QED
  BY <1>2, <1>3, <1>4, <1>5, <1>6, <1>7, <1>8, <1>9, <1>10, <1>11
     DEF ServerNext, Header, Handler, Body

-----------------------------------------------------------------------------
(* The client, as it sends its requests                                    *)

(* The client sends a token. *)
LEMMA Added ==
    ASSUME NEW s \in Seq(Tokens), NEW t \in Tokens
    PROVE  /\ Len(s) \in Nat /\ DOMAIN s = 1 .. Len(s)
           /\ Len(Append(s, t)) = Len(s) + 1 /\ DOMAIN Append(s, t) = 1 .. Len(s) + 1
           /\ \A i \in DOMAIN s : i # Len(s) + 1 /\ Append(s, t)[i] = s[i]
           /\ Append(s, t)[Len(s) + 1] = t
           /\ \A i \in DOMAIN Append(s, t) : i \in DOMAIN s \/ i = Len(s) + 1
OBVIOUS

LEMMA StretchOther ==
    ASSUME NEW s \in Seq(Tokens), NEW t \in Tokens, NEW k, NEW r, t.req # r,
           NEW a \in Nat, NEW n \in Nat, NEW c \in Nat, Stretch(s, k, r, a, n, c)
    PROVE  Stretch(Append(s, t), k, r, a, n, c)
<1> DEFINE u == Append(s, t)
<1>1. /\ Len(s) \in Nat /\ DOMAIN s = 1 .. Len(s) /\ Len(u) = Len(s) + 1 /\ DOMAIN u = 1 .. Len(s) + 1
      /\ \A i \in DOMAIN s : u[i] = s[i]
      /\ u[Len(s) + 1] = t
      /\ \A i \in DOMAIN u : i \in DOMAIN s \/ i = Len(s) + 1
  BY Added
<1> HIDE DEF u
<1>2. a + n <= Len(s)
  BY DEF Stretch
<1>3. ASSUME NEW i \in DOMAIN u
      PROVE  /\ u[i].req = r <=> a < i /\ i <= a + n
             /\ u[i].req = r => u[i].what = Script(k)[c + (i - a)]
  <2>1. CASE i \in DOMAIN s
    <3>1. u[i] = s[i]
      BY <1>1, <2>1
    <3> QED
      BY <2>1, <3>1 DEF Stretch
  <2>2. CASE i = Len(s) + 1
    BY <1>1, <1>2, <2>2
  <2> QED
    BY <1>1, <2>1, <2>2
<1>4. a + n <= Len(u)
  BY <1>1, <1>2
<1> QED
  BY <1>3, <1>4 DEF Stretch, u

LEMMA StretchSame ==
    ASSUME NEW s \in Seq(Tokens), NEW t \in Tokens, NEW k, NEW r, t.req = r,
           NEW a \in Nat, NEW n \in Nat, NEW c \in Nat, Stretch(s, k, r, a, n, c), a + n = Len(s),
           t.what = Script(k)[(c + n) + 1]
    PROVE  Stretch(Append(s, t), k, r, a, n + 1, c)
<1> DEFINE u == Append(s, t)
<1>1. /\ Len(s) \in Nat /\ DOMAIN s = 1 .. Len(s) /\ Len(u) = Len(s) + 1 /\ DOMAIN u = 1 .. Len(s) + 1
      /\ \A i \in DOMAIN s : u[i] = s[i]
      /\ u[Len(s) + 1] = t
      /\ \A i \in DOMAIN u : i \in DOMAIN s \/ i = Len(s) + 1
  BY Added
<1> HIDE DEF u
<1>2. ASSUME NEW i \in DOMAIN u
      PROVE  /\ u[i].req = r <=> a < i /\ i <= a + (n + 1)
             /\ u[i].req = r => u[i].what = Script(k)[c + (i - a)]
  <2>1. CASE i \in DOMAIN s
    <3>1. u[i] = s[i] /\ i # Len(s) + 1 /\ i \in Nat /\ i <= Len(s)
      BY <1>1, <2>1
    <3>2. (s[i].req = r <=> a < i /\ i <= a + n) /\ (s[i].req = r => s[i].what = Script(k)[c + (i - a)])
      BY <2>1 DEF Stretch
    <3> QED
      BY <3>1, <3>2
  <2>2. CASE i = Len(s) + 1
    <3>1. i \in Nat /\ i = (a + n) + 1
      BY <1>1, <2>2
    <3>2. a < i /\ i <= a + (n + 1) /\ c + (i - a) = (c + n) + 1
      BY ONLY <3>1, a \in Nat, n \in Nat, c \in Nat
    <3>3. u[i] = t
      BY <1>1, <2>2
    <3> QED
      BY <3>2, <3>3
  <2> QED
    BY <1>1, <2>1, <2>2
<1>3. a + (n + 1) <= Len(u)
  BY <1>1
<1> QED
  BY <1>2, <1>3 DEF Stretch, u

(* The tokens of the newest request are the last ones.                     *)
LEMMA StretchLast ==
    ASSUME NEW s \in Seq(Tokens), NEW k, NEW r, NEW a \in Nat, NEW n \in Nat, NEW c, Stretch(s, k, r, a, n, c),
           r \in Nat, \A i \in DOMAIN s : s[i].req \in Nat /\ s[i].req <= r,
           \A i, j \in DOMAIN s : i < j => s[i].req <= s[j].req,
           n # 0 \/ (a = 0 /\ \A i \in DOMAIN s : r <= s[i].req)
    PROVE  a + n = Len(s)
<1> DEFINE l == Len(s)
<1>1. l \in Nat /\ DOMAIN s = 1 .. l /\ a + n <= l
  BY DEF Stretch
<1> HIDE DEF l
<1>2. CASE l = 0
  BY <1>1, <1>2
<1>3. CASE l # 0
  <2>1. l \in DOMAIN s
    BY <1>1, <1>3
  <2>2. s[l].req = r
    <3>1. CASE n # 0
      <4>1. a + n \in DOMAIN s /\ a < a + n /\ a + n <= a + n
        BY <1>1, <3>1
      <4>2. s[a + n].req = r
        BY <4>1 DEF Stretch
      <4>3. a + n = l \/ a + n < l
        BY ONLY <1>1, a \in Nat, n \in Nat
      <4>4. s[a + n].req <= s[l].req
        BY <2>1, <4>1, <4>2, <4>3
      <4> QED
        BY <2>1, <4>2, <4>4
    <3>2. CASE a = 0 /\ \A i \in DOMAIN s : r <= s[i].req
      BY <2>1, <3>2
    <3> QED
      BY <3>1, <3>2
  <2>3. l <= a + n
    BY <2>1, <2>2 DEF Stretch
  <2> QED
    BY ONLY <1>1, <2>3, a \in Nat, n \in Nat
<1> QED
  BY <1>2, <1>3 DEF l

(* No head that is out announces a switch.                                 *)
Plain(o) == \A i \in DOMAIN o : o[i].what = "head" => o[i].framing # "switch"

LEMMA ClientContinuesStream ==
    ASSUME ConnInv, Arriving, Parsing, ClientContinues
    PROVE  Arriving' /\ Parsing'
<1> DEFINE N == Len(kinds)
           w == Has(out, N, "cont")
           t == [req |-> N, what |-> Script(kinds[N])[pos + 1]]
<1>1. /\ in \in Seq(Tokens) /\ out \in Seq(Records) /\ pos \in Nat /\ N \in Nat /\ cur \in Nat /\ cur <= N
      /\ \A i \in DOMAIN in : in[i].req \in Nat
      /\ N # 0 /\ kinds[N] \in KindType /\ N \in 1 .. N
  <2>1. N \in Nat /\ N # 0
    BY DEF ClientContinues, Newest, ConnInv, Coming
  <2> QED
    BY <2>1, InputFacts
<1>2. /\ pos < Len(Script(kinds[N])) /\ ~AwaitsContinue /\ pos' = pos + 1 /\ in' = Append(in, t)
      /\ kinds' = kinds /\ out' = out /\ h' = h /\ pc' = pc /\ cur' = cur
  BY DEF ClientContinues, Newest, Send, histVars
<1>3. t \in Tokens
  <2>1. in' \in Seq(Tokens) /\ Len(in) + 1 \in DOMAIN in'
    <3>1. ConnInv'
      BY ConnStep DEF Next, ClientNext
    <3> QED
      BY <1>1, <1>2, <3>1 DEF ConnInv, Coming
  <2>2. in'[Len(in) + 1] = t
    BY <1>1, <1>2
  <2> QED
    BY <2>1, <2>2
<1>4. t.req = N /\ t.what = Script(kinds[N])[pos + 1]
  OBVIOUS
<1> HIDE DEF t
<1>5. ASSUME pos <= Upto(kinds[N], w) PROVE pos + 1 <= Upto(kinds[N], w)
  <2>1. Len(Script(kinds[N])) \in Nat
    BY <1>1, UptoIs
  <2>2. CASE Owes(kinds[N], w)
    <3>1. Upto(kinds[N], w) = 2
      BY <2>2 DEF Upto
    <3>2. pos # 2
      <4>1. kinds[N].expect = "100" /\ kinds[N].body # "none" /\ ~w
        BY <2>2 DEF Owes
      <4>2. ~Seen(N, "cont")
        BY <1>1, <4>1 DEF Seen, Has, ConnInv, Conn, Wires
      <4> QED
        BY <1>1, <1>2, <4>1, <4>2 DEF AwaitsContinue, Newest
    <3> QED
      BY <1>1, <1>5, <3>1, <3>2
  <2>3. CASE ~Owes(kinds[N], w)
    BY <1>1, <1>2, <2>1, <2>3 DEF Upto
  <2> QED
    BY <2>2, <2>3
(* The stretch of one request afterwards. *)
<1>6. ASSUME NEW r \in Nat, r <= N, NEW a \in Nat, NEW n \in Nat, NEW c \in Nat,
             Stretch(in, kinds[r], r, a, n, c), SentOf(out, kinds, pos, r, c + n),
             n # 0 \/ (a = 0 /\ \A i \in DOMAIN in : r <= in[i].req)
      PROVE  \E m \in Nat : m >= n /\ Stretch(in', kinds[r], r, a, m, c) /\ SentOf(out, kinds, pos + 1, r, c + m)
  <2>1. CASE r # N
    <3>1. Stretch(in', kinds[r], r, a, n, c)
      BY <1>1, <1>2, <1>3, <1>4, <1>6, <2>1, StretchOther
    <3>2. SentOf(out, kinds, pos + 1, r, c + n)
      BY <1>6, <2>1 DEF SentOf
    <3> QED
      BY <3>1, <3>2
  <2>2. CASE r = N
    <3>1. c + n = pos /\ pos <= Upto(kinds[N], w)
      BY <1>6, <2>2 DEF SentOf
    <3>2. a + n = Len(in)
      BY <1>1, <1>6, <2>2, StretchLast DEF Arriving
    <3>3. t.what = Script(kinds[r])[(c + n) + 1]
      BY <1>4, <2>2, <3>1
    <3>4. Stretch(in', kinds[r], r, a, n + 1, c)
      BY <1>1, <1>2, <1>3, <1>4, <1>6, <2>2, <3>2, <3>3, StretchSame
    <3>5. SentOf(out, kinds, pos + 1, r, c + (n + 1))
      <4>1. c + (n + 1) = pos + 1 /\ n + 1 \in Nat /\ n + 1 >= n
        BY <3>1
      <4> QED
        BY <1>5, <2>2, <3>1, <4>1 DEF SentOf
    <3> QED
      BY <3>4, <3>5
  <2> QED
    BY <2>1, <2>2
<1>7. Parsing'
  <2> SUFFICES ASSUME cur # 0
               PROVE  \E n, c \in Nat :
                         /\ Stretch(in', kinds[cur], cur, 0, n, c) /\ SentOf(out, kinds, pos', cur, c + n)
                         /\ Parsed(h, pc, kinds[cur], Has(out, cur, "cont"), c)
    BY <1>2 DEF Parsing
  <2>1. PICK n, c \in Nat :
          /\ Stretch(in, kinds[cur], cur, 0, n, c) /\ SentOf(out, kinds, pos, cur, c + n)
          /\ Parsed(h, pc, kinds[cur], Has(out, cur, "cont"), c)
    BY DEF Parsing
  <2>2. \A i \in DOMAIN in : cur <= in[i].req
    BY DEF Arriving
  <2>3. PICK m \in Nat : m >= n /\ Stretch(in', kinds[cur], cur, 0, m, c) /\ SentOf(out, kinds, pos + 1, cur, c + m)
    BY <1>1, <1>6, <2>1, <2>2
  <2> QED
    BY <1>2, <2>1, <2>3
<1>8. ASSUME NEW r \in 1 .. N, cur < r
      PROVE  \E a, n \in Nat : n # 0 /\ Stretch(in', kinds[r], r, a, n, 0) /\ SentOf(out, kinds, pos', r, n)
  <2>1. PICK a, n \in Nat : n # 0 /\ Stretch(in, kinds[r], r, a, n, 0) /\ SentOf(out, kinds, pos, r, n)
    BY <1>8 DEF Arriving
  <2>2. SentOf(out, kinds, pos, r, 0 + n) /\ r \in Nat /\ r <= N
    BY <1>1, <2>1
  <2>3. PICK m \in Nat : m >= n /\ Stretch(in', kinds[r], r, a, m, 0) /\ SentOf(out, kinds, pos + 1, r, 0 + m)
    BY <1>6, <2>1, <2>2
  <2>4. 0 + m = m /\ m # 0
    BY <2>1, <2>3
  <2> QED
    BY <1>2, <2>3, <2>4
<1>9. /\ \A i \in DOMAIN in' : cur <= in'[i].req /\ in'[i].req <= N
      /\ \A i, j \in DOMAIN in' : i < j => in'[i].req <= in'[j].req
  <2>1. /\ Len(in) \in Nat /\ DOMAIN in = 1 .. Len(in) /\ DOMAIN in' = 1 .. Len(in) + 1
        /\ \A i \in DOMAIN in : in'[i] = in[i]
        /\ in'[Len(in) + 1] = t
    BY <1>1, <1>2, <1>3, Added
  <2>2. ASSUME NEW i \in DOMAIN in' PROVE cur <= in'[i].req /\ in'[i].req <= N
    BY <1>1, <1>4, <2>1 DEF Arriving
  <2>3. ASSUME NEW i \in DOMAIN in', NEW j \in DOMAIN in', i < j PROVE in'[i].req <= in'[j].req
    <3>1. i \in DOMAIN in /\ in'[i] = in[i]
      BY <2>1, <2>3
    <3>2. CASE j \in DOMAIN in
      BY <2>1, <2>3, <3>1, <3>2 DEF Arriving
    <3>3. CASE j = Len(in) + 1
      BY <1>1, <1>4, <2>1, <3>1, <3>3 DEF Arriving
    <3> QED
      BY <2>1, <3>2, <3>3
  <2> QED
    BY <2>2, <2>3
<1> QED
  BY <1>2, <1>7, <1>8, <1>9 DEF Arriving

(* The first token of a request that none is there of. *)
LEMMA StretchNew ==
    ASSUME NEW s \in Seq(Tokens), NEW t \in Tokens, NEW k, NEW r, t.req = r,
           \A i \in DOMAIN s : s[i].req # r, t.what = Script(k)[1]
    PROVE  Stretch(Append(s, t), k, r, Len(s), 1, 0)
<1> DEFINE u == Append(s, t)
<1>1. /\ Len(s) \in Nat /\ DOMAIN s = 1 .. Len(s) /\ Len(u) = Len(s) + 1 /\ DOMAIN u = 1 .. Len(s) + 1
      /\ \A i \in DOMAIN s : u[i] = s[i]
      /\ u[Len(s) + 1] = t
      /\ \A i \in DOMAIN u : i \in DOMAIN s \/ i = Len(s) + 1
  BY Added
<1> HIDE DEF u
<1>2. ASSUME NEW i \in DOMAIN u
      PROVE  /\ u[i].req = r <=> Len(s) < i /\ i <= Len(s) + 1
             /\ u[i].req = r => u[i].what = Script(k)[0 + (i - Len(s))]
  <2>1. CASE i \in DOMAIN s
    BY <1>1, <2>1
  <2>2. CASE i = Len(s) + 1
    <3>1. 0 + (i - Len(s)) = 1
      BY <1>1, <2>2
    <3> QED
      BY <1>1, <2>2, <3>1
  <2> QED
    BY <1>1, <2>1, <2>2
<1> QED
  BY <1>1, <1>2 DEF Stretch, u

(* A client begins a request when it has sent what it is to send of the    *)
(* one before.                                                             *)
LEMMA AllSentOf ==
    ASSUME ConnInv, Past(out, cur, h, pc), AllSent, NEW N, N = Len(kinds), N # 0, SentOf(out, kinds, pos, N, pos),
           NEW w, w = Has(out, N, "cont")
    PROVE  pos = Upto(kinds[N], w) /\ (Owes(kinds[N], w) => Has(out, N, "head"))
<1>1. /\ pos \in Nat /\ kinds[N] \in KindType /\ flushed \in 0 .. Len(out) /\ DOMAIN out = 1 .. Len(out)
      /\ Len(out) \in Nat
  <2>1. N \in 1 .. Len(kinds)
    BY InputFacts
  <2> QED
    BY <2>1, InputFacts DEF ConnInv, Conn, Wires
<1>2. pos <= Upto(kinds[N], w)
  BY DEF SentOf
<1>3. CASE pos = Len(Script(kinds[N]))
  BY <1>1, <1>2, <1>3, UptoIs
<1>4. CASE AwaitsContinue /\ Seen(N, "head")
  <2>1. pos = 2 /\ kinds[N].expect = "100" /\ kinds[N].body # "none" /\ ~Seen(N, "cont")
    BY <1>4 DEF AwaitsContinue, Newest
  <2>2. PICK i \in 1 .. flushed : out[i].req = N /\ out[i].what = "head"
    BY <1>4 DEF Seen
  <2>3. ASSUME w PROVE FALSE
    <3>1. PICK j \in DOMAIN out : out[j].req = N /\ out[j].what = "cont"
      BY <2>3 DEF Has
    <3>2. i < j /\ i \in DOMAIN out
      BY <1>1, <2>1, <2>2, <3>1 DEF Seen
    <3> QED
      BY <2>2, <3>1, <3>2 DEF Past, Ordered
  <2>4. Has(out, N, "head")
    BY <1>1, <2>2 DEF Has
  <2> QED
    BY <2>1, <2>3, <2>4 DEF Upto, Owes
<1> QED
  BY <1>3, <1>4 DEF AllSent, Newest

LEMMA ClientBeginsStream ==
    ASSUME ConnInv, Past(out, cur, h, pc), Arriving, Parsing, ClientBegins
    PROVE  Arriving' /\ Parsing'
<1> DEFINE N == Len(kinds)
           t == [req |-> N + 1, what |-> "line"]
<1>1. /\ in \in Seq(Tokens) /\ out \in Seq(Records) /\ pos \in Nat /\ N \in Nat /\ cur \in Nat /\ cur <= N
      /\ \A i \in DOMAIN in : in[i].req \in Nat
      /\ \A r \in 1 .. N : kinds[r] \in KindType
      /\ kinds \in Seq(Kinds)
  BY InputFacts
<1>2. /\ N < NReq /\ (N # 0 => AllSent) /\ pos' = 1 /\ in' = Append(in, t)
      /\ out' = out /\ h' = h /\ pc' = pc /\ cur' = cur
  BY <1>1 DEF ClientBegins, MayBegin, Newest, Send, histVars
<1>3. PICK kk \in Kinds : kinds' = Append(kinds, kk)
  BY DEF ClientBegins
<1>4. t \in Tokens /\ t.req = N + 1 /\ t.what = "line"
  BY <1>1, <1>2, HttpConnAssumption DEF Tokens
<1>5. /\ Len(kinds') = N + 1 /\ kinds'[N + 1] = kk /\ kk \in KindType
      /\ \A r \in 1 .. N : kinds'[r] = kinds[r]
  BY <1>1, <1>3, HttpConnAssumption
<1> HIDE DEF t, N
<1>6. ASSUME NEW r \in 1 .. N, NEW m, SentOf(out, kinds, pos, r, m) PROVE SentOf(out, kinds', 1, r, m)
  <2>1. /\ m = Upto(kinds[r], Has(out, r, "cont"))
        /\ Owes(kinds[r], Has(out, r, "cont")) => Has(out, r, "head")
    <3>1. CASE r = N
      <4>1. m = pos /\ SentOf(out, kinds, pos, N, pos)
        BY <1>6, <3>1 DEF SentOf, N
      <4>2. N # 0
        BY <1>1, <1>6, <3>1
      <4> QED
        BY <1>2, <3>1, <4>1, <4>2, AllSentOf DEF N
    <3>2. CASE r # N
      BY <1>6, <3>2 DEF SentOf, N
    <3> QED
      BY <3>1, <3>2
  <2>2. r # Len(kinds') /\ kinds'[r] = kinds[r]
    BY <1>1, <1>5, <1>6
  <2>3. m <= Upto(kinds[r], Has(out, r, "cont"))
    BY <1>6 DEF SentOf
  <2> QED
    BY <2>1, <2>2, <2>3 DEF SentOf
<1>7. Parsing'
  <2> SUFFICES ASSUME cur # 0
               PROVE  \E n, c \in Nat :
                         /\ Stretch(in', kinds'[cur], cur, 0, n, c) /\ SentOf(out, kinds', 1, cur, c + n)
                         /\ Parsed(h, pc, kinds'[cur], Has(out, cur, "cont"), c)
    BY <1>2 DEF Parsing
  <2>1. PICK n, c \in Nat :
          /\ Stretch(in, kinds[cur], cur, 0, n, c) /\ SentOf(out, kinds, pos, cur, c + n)
          /\ Parsed(h, pc, kinds[cur], Has(out, cur, "cont"), c)
    BY DEF Parsing
  <2>2. cur \in 1 .. N /\ t.req # cur
    BY <1>1, <1>4
  <2>3. kinds'[cur] = kinds[cur]
    BY <1>5, <2>2
  <2>4. Stretch(in', kinds[cur], cur, 0, n, c)
    BY <1>1, <1>2, <1>4, <2>1, <2>2, StretchOther
  <2>5. SentOf(out, kinds', 1, cur, c + n)
    BY <1>6, <2>1, <2>2
  <2> QED
    BY <2>1, <2>3, <2>4, <2>5
<1>8. ASSUME NEW r \in 1 .. N + 1, cur < r
      PROVE  \E a, n \in Nat : n # 0 /\ Stretch(in', kinds'[r], r, a, n, 0) /\ SentOf(out, kinds', 1, r, n)
  <2>1. CASE r \in 1 .. N
    <3>1. PICK a, n \in Nat : n # 0 /\ Stretch(in, kinds[r], r, a, n, 0) /\ SentOf(out, kinds, pos, r, n)
      BY <1>8, <2>1 DEF Arriving, N
    <3>2. t.req # r /\ kinds'[r] = kinds[r]
      BY <1>1, <1>4, <1>5, <2>1
    <3>3. Stretch(in', kinds[r], r, a, n, 0)
      BY <1>1, <1>2, <1>4, <3>1, <3>2, StretchOther
    <3>4. SentOf(out, kinds', 1, r, n)
      BY <1>6, <2>1, <3>1
    <3> QED
      BY <3>1, <3>2, <3>3, <3>4
  <2>2. CASE r = N + 1
    <3>1. \A i \in DOMAIN in : in[i].req # r
      BY <1>1, <2>2 DEF Arriving, N
    <3>2. t.what = Script(kk)[1]
      BY <1>4, <1>5, ScriptIs
    <3>3. Stretch(in', kk, r, Len(in), 1, 0) /\ Len(in) \in Nat
      BY <1>1, <1>2, <1>4, <2>2, <3>1, <3>2, StretchNew
    <3>4. SentOf(out, kinds', 1, r, 1)
      BY <1>5, <2>2, UptoIs DEF SentOf
    <3> QED
      BY <1>5, <2>2, <3>3, <3>4
  <2> QED
    BY <1>1, <2>1, <2>2
<1>9. /\ \A i \in DOMAIN in' : cur <= in'[i].req /\ in'[i].req <= N + 1
      /\ \A i, j \in DOMAIN in' : i < j => in'[i].req <= in'[j].req
  <2>1. /\ Len(in) \in Nat /\ DOMAIN in = 1 .. Len(in) /\ DOMAIN in' = 1 .. Len(in) + 1
        /\ \A i \in DOMAIN in : in'[i] = in[i]
        /\ in'[Len(in) + 1] = t
    BY <1>1, <1>2, <1>4, Added
  <2>2. ASSUME NEW i \in DOMAIN in' PROVE cur <= in'[i].req /\ in'[i].req <= N + 1
    BY <1>1, <1>4, <2>1 DEF Arriving, N
  <2>3. ASSUME NEW i \in DOMAIN in', NEW j \in DOMAIN in', i < j PROVE in'[i].req <= in'[j].req
    <3>1. i \in DOMAIN in /\ in'[i] = in[i]
      BY <2>1, <2>3
    <3>2. CASE j \in DOMAIN in
      BY <2>1, <2>3, <3>1, <3>2 DEF Arriving
    <3>3. CASE j = Len(in) + 1
      BY <1>1, <1>4, <2>1, <3>1, <3>3 DEF Arriving, N
    <3> QED
      BY <2>1, <3>2, <3>3
  <2> QED
    BY <2>2, <2>3
<1> QED
  BY <1>2, <1>5, <1>7, <1>8, <1>9 DEF Arriving

(* Without a switch no unit of another protocol is sent. *)
LEMMA NothingRaw ==
    ASSUME ConnInv, Plain(out)
    PROVE  ~ClientSendsRaw
<1> SUFFICES ASSUME ClientSendsRaw PROVE FALSE
  OBVIOUS
<1>1. \E i \in 1 .. flushed : out[i].req = Newest /\ out[i].what = "head" /\ out[i].framing = "switch"
  BY DEF ClientSendsRaw, SeenHead
<1>2. \A i \in 1 .. flushed : i \in DOMAIN out
  BY DEF ConnInv, Conn, Wires
<1> QED
  BY <1>1, <1>2 DEF Plain

LEMMA ClientStream ==
    ASSUME ConnInv, Past(out, cur, h, pc), Arriving, Parsing, Plain(out), ClientNext
    PROVE  Arriving' /\ Parsing'
<1>1. CASE ClientCloses
  BY <1>1 DEF ClientCloses, histVars, Arriving, Parsing
<1> QED
  BY <1>1, ClientBeginsStream, ClientContinuesStream, NothingRaw DEF ClientNext

-----------------------------------------------------------------------------
(* Switched protocols                                                      *)

(* Only a handler switches protocols, by a header of its own.              *)
LEMMA HeadStays ==
    ASSUME Sound(h), h.sent => ~h.needCont
    PROVE  /\ \A v : v \notin {"cont", "switch"} => HeadSent(h, v).switched = h.switched
           /\ \A code : ErrorPage(h, code).switched = h.switched
           /\ ErrorPage(UseHTTP11(h, FALSE), "page").switched = h.switched
<1> DEFINE u == UseHTTP11(h, FALSE)
<1>1. Sound(u) /\ u.needCont = h.needCont /\ u.sent = h.sent
  BY UseHTTP11Sound
<1>2. u.switched = h.switched
  BY DEF Sound, Fields, UseHTTP11
<1> HIDE DEF u
<1>3. \A v : v \notin {"cont", "switch"} => HeadSent(h, v).switched = h.switched
  BY HeadAnswering DEF Answering
<1>4. \A code : ErrorPage(h, code).switched = h.switched
  BY PageAnswering DEF Answering
<1>5. ErrorPage(u, "page").switched = h.switched
  BY <1>1, <1>2, PageAnswering DEF Answering
<1> QED
  BY <1>3, <1>4, <1>5 DEF u

LEMMA FinishSwitched ==
    ASSUME NEW g, Sound(g), NEW recs, Finish(g, recs)
    PROVE  h' = g \/ ~h'.switched
<1>1. h' = g \/ h' = Clear(g)
  BY DEF Finish
<1>2. ~Clear(g).switched
  BY DEF Sound, Fields, Clear
<1> QED
  BY <1>1, <1>2

LEMMA ErrorPageKASwitched ==
    ASSUME NEW g, Sound(g), NEW code, ErrorPageKA(g, code)
    PROVE  h' = ErrorPage(g, code) \/ ~h'.switched
<1> DEFINE e == ErrorPage(g, code)
<1>1. Sound(e)
  BY ErrorPageSound
<1>2. h' = e \/ h' = Clear(e)
  BY DEF ErrorPageKA
<1> HIDE DEF e
<1>3. ~Clear(e).switched
  BY <1>1 DEF Sound, Fields, Clear
<1> QED
  BY <1>2, <1>3 DEF e

LEMMA SwitchedByHead ==
    ASSUME ConnInv, pc # "removed", ~h.switched, ServerNext \/ Timeout \/ ReadThrows, ~HandlerSendsHead
    PROVE  ~h'.switched
<1>1. Sound(h) /\ h \in Fields /\ (h.sent => ~h.needCont)
  BY DEF ConnInv, Conn, Control, Sound
<1>2. CASE EventLoop \/ Timeout \/ HeaderIncomplete
  <2>1. \/ h' = h
        \/ h' = [h EXCEPT !.ev = "request"]
        \/ \E e \in {"data", "write", "wakeup"} : h' = [h EXCEPT !.ev = e, !.again = FALSE]
    BY <1>2 DEF EventLoop, DataReady, LoopAgain, LoopEnds, WriteReady, WakeUp, Timeout, HeaderIncomplete,
       DataEvent, Activate
  <2> QED
    BY <1>1, <2>1 DEF Fields
<1>3. CASE RequestLine
  <2>1. h' = [h EXCEPT !.method = TRUE] \/ \E use : h' = UseHTTP11([h EXCEPT !.method = TRUE], use)
    BY <1>3 DEF RequestLine
  <2> QED
    BY <1>1, <2>1 DEF UseHTTP11, Fields
<1>4. CASE BadVersion
  BY <1>1, <1>4, ErrorPageKASwitched, HeadStays DEF BadVersion
<1>5. CASE HeaderComplete
  <2> DEFINE k == kinds[cur]
             g == Announced(h, k)
             d == [g EXCEPT !.handler = TRUE, !.ev = "request", !.again = FALSE]
  <2>1. \/ ErrorPageKA(g, "page")
        \/ Finish(HeadSent(g, "length"), <<HeadRec(g, "length")>>)
        \/ h' = d
    BY <1>5 DEF HeaderComplete, Announced
  <2>2. h.method /\ pc \in {"header", "lines"}
    BY <1>5 DEF HeaderComplete
  <2>3. cur # 0 /\ ~h.sent
    BY <2>2 DEF ConnInv, Conn, Control
  <2>4. k \in KindType
    BY <2>3, InputFacts
  <2> HIDE DEF k
  <2>5. Sound(g) /\ ~g.sent /\ ~g.switched
    BY <1>1, <2>3, <2>4, HeaderFields
  <2> HIDE DEF g
  <2>6. CASE ErrorPageKA(g, "page")
    BY <2>5, <2>6, ErrorPageKASwitched, PageAnswering DEF Answering
  <2>7. CASE Finish(HeadSent(g, "length"), <<HeadRec(g, "length")>>)
    BY <2>5, <2>7, FinishSwitched, HeadSentSound, HeadAnswering DEF Answering
  <2>8. CASE h' = d
    BY <2>5, <2>8 DEF Sound, Fields
  <2> QED
    BY <2>1, <2>6, <2>7, <2>8
<1>6. CASE GarbageLine \/ HeaderEof
  BY <1>1, <1>6, HeadStays DEF GarbageLine, HeaderEof
<1>7. CASE HandlerErrorPage
  <2>1. PICK code \in PageCode : Finish(ErrorPage(h, code), ErrorPageOut(h, code))
    BY <1>7 DEF HandlerErrorPage
  <2> DEFINE e == ErrorPage(h, code)
  <2>2. Sound(e) /\ ~e.switched
    BY <1>1, ErrorPageSound, HeadStays
  <2>3. h' = e \/ ~h'.switched
    BY <2>1, <2>2, FinishSwitched
  <2> QED
    BY <2>2, <2>3
<1>8. ASSUME NEW code, Final(code) PROVE ~h'.switched
  BY <1>1, <1>8, FinishSwitched, ErrorPageKASwitched, HeadStays DEF Final
<1>9. CASE ReturnsFinal
  BY <1>8, <1>9 DEF ReturnsFinal
<1>10. CASE ReturnsContinue
  <2> DEFINE g == IF h.sent THEN h ELSE [h EXCEPT !.needCont = FALSE]
             d == [g EXCEPT !.again = TRUE, !.ev = IF h.sent THEN "eos" ELSE @]
  <2>1. (\E code : Final(code)) \/ h' = g \/ h' = d
    BY <1>10 DEF ReturnsContinue
  <2>2. g \in Fields /\ ~g.switched
    <3>1. g = h \/ g = [h EXCEPT !.needCont = FALSE]
      OBVIOUS
    <3> HIDE DEF g
    <3> QED
      BY <1>1, <3>1 DEF Fields
  <2> HIDE DEF g
  <2> QED
    BY <1>8, <2>1, <2>2 DEF Fields
<1>11. CASE HandlerReads \/ ReadReturns \/ ReadUnit \/ OpenPostChunk \/ ReadZero
  BY <1>1, <1>11 DEF HandlerReads, ReadReturns, ReadUnit, OpenPostChunk, ReadZero, Fields
<1>12. CASE HandlerProbes \/ HandlerClosesOutput \/ ReturnsSleep \/ ReadBlocks
  BY <1>12 DEF HandlerProbes, HandlerClosesOutput, ReturnsSleep, ReadBlocks
<1>13. CASE HandlerWrites \/ ReturnsWaitForWrite
  <2> DEFINE g == IF h.sent THEN h ELSE HeadSent(h, "plain")
  <2>1. h' \in {g, [g EXCEPT !.buff = TRUE], [g EXCEPT !.buff = FALSE]}
    BY <1>13 DEF HandlerWrites, ReturnsWaitForWrite
  <2>2. g \in Fields /\ ~g.switched
    BY <1>1, HeadSentSound, HeadStays DEF Sound
  <2> HIDE DEF g
  <2> QED
    BY <2>1, <2>2 DEF Fields
<1>14. CASE HandlerThrows \/ ReadThrows
  BY <1>1, <1>14, HeadStays DEF HandlerThrows, ReadThrows, Throw
<1>15. CASE ChunkFinished
  <2> DEFINE g == [h EXCEPT !.buff = FALSE]
  <2>1. h' = Clear(g) \/ h' = [g EXCEPT !.outClosed = TRUE]
    BY <1>15 DEF ChunkFinished
  <2>2. g \in Fields /\ ~g.switched
    BY <1>1 DEF Fields
  <2> HIDE DEF g
  <2> QED
    BY <2>1, <2>2 DEF Fields, Clear
<1> QED
  BY <1>2, <1>3, <1>4, <1>5, <1>6, <1>7, <1>9, <1>10, <1>11, <1>12, <1>13, <1>14, <1>15
     DEF ServerNext, Header, Handler, Body

LEMMA SwitchedFinish ==
    ASSUME NEW g, Sound(g), Switched(g), NEW recs, Finish(g, recs)
    PROVE  Switched(h') \/ (pc' = "removed" /\ ~h'.handler)
<1>1. CASE g.outClosed
  <2>1. h' = Clear(g) /\ pc' = "removed"
    BY <1>1 DEF Finish, Switched, Remove, Goto
  <2> QED
    BY <2>1, ClearSound
<1>2. CASE ~g.outClosed
  BY <1>2 DEF Finish
<1> QED
  BY <1>1, <1>2

LEMMA SwitchStays ==
    ASSUME ConnInv, pc # "removed", Switched(h), ServerNext \/ Timeout \/ ReadThrows
    PROVE  Switched(h') \/ (pc' = "removed" /\ ~h'.handler)
<1>1. /\ Sound(h) /\ h \in Fields /\ h.handler /\ h.sent /\ h.method /\ ~h.needCont /\ h.remain = All /\ h.switched
      /\ pc \notin {"header", "lines", "badversion"}
  BY DEF ConnInv, Conn, Control, Sound, Switched
<1>2. CASE EventLoop \/ Timeout \/ HeaderIncomplete
  <2>1. \/ h' = h
        \/ h' = [h EXCEPT !.ev = "request"]
        \/ \E e \in {"data", "write", "wakeup"} : h' = [h EXCEPT !.ev = e, !.again = FALSE]
    BY <1>2 DEF EventLoop, DataReady, LoopAgain, LoopEnds, WriteReady, WakeUp, Timeout, HeaderIncomplete,
       DataEvent, Activate
  <2> QED
    BY <1>1, <2>1 DEF Fields, Switched
<1>3. ~(RequestLine \/ BadVersion \/ HeaderComplete \/ GarbageLine \/ HeaderEof \/ HandlerSendsHead)
  BY <1>1 DEF RequestLine, BadVersion, HeaderComplete, GarbageLine, HeaderEof, HandlerSendsHead
<1>4. CASE HandlerErrorPage
  <2>1. PICK code \in PageCode : Finish(ErrorPage(h, code), ErrorPageOut(h, code))
    BY <1>4 DEF HandlerErrorPage
  <2> DEFINE e == ErrorPage(h, code)
  <2>2. e = [h EXCEPT !.close = TRUE]
    BY <1>1 DEF ErrorPage
  <2>3. Finish(e, ErrorPageOut(h, code))
    BY <2>1
  <2>4. Sound(e)
    BY <1>1, ErrorPageSound
  <2> HIDE DEF e
  <2>5. Switched(e)
    BY <1>1, <2>2 DEF Fields, Switched
  <2> QED
    BY <2>3, <2>4, <2>5, SwitchedFinish
<1>5. ASSUME NEW code, Final(code) PROVE Switched(h') \/ (pc' = "removed" /\ ~h'.handler)
  BY <1>1, <1>5, SwitchedFinish DEF Final
<1>6. CASE ReturnsFinal
  BY <1>5, <1>6 DEF ReturnsFinal
<1>7. CASE ReturnsContinue
  <2> DEFINE d == [h EXCEPT !.again = TRUE, !.ev = "eos"]
  <2>1. (\E code : Final(code)) \/ h' = h \/ h' = d
    BY <1>1, <1>7 DEF ReturnsContinue
  <2>2. Switched(d)
    BY <1>1 DEF Fields, Switched
  <2> QED
    BY <1>5, <2>1, <2>2
<1>8. CASE HandlerReads \/ ReadReturns \/ ReadUnit \/ ReadZero
  <2>1. h' = h \/ h' = [h EXCEPT !.needCont = FALSE] \/ (\E b : h' = [h EXCEPT !.inClosed = b])
        \/ h' = [h EXCEPT !.remain = h.remain]
    BY <1>1, <1>8 DEF HandlerReads, ReadReturns, ReadUnit, ReadZero
  <2> QED
    BY <1>1, <2>1 DEF Fields, Switched
<1>9. ~OpenPostChunk
  BY <1>1 DEF OpenPostChunk, NeedsChunk, Needs, Draining
<1>10. CASE HandlerProbes \/ HandlerClosesOutput \/ ReturnsSleep \/ ReadBlocks \/ ReturnsWaitForWrite
  BY <1>1, <1>10 DEF HandlerProbes, HandlerClosesOutput, ReturnsSleep, ReadBlocks, ReturnsWaitForWrite
<1>11. CASE HandlerWrites
  <2>1. h' \in {h, [h EXCEPT !.buff = TRUE], [h EXCEPT !.buff = FALSE]}
    BY <1>1, <1>11 DEF HandlerWrites
  <2> QED
    BY <1>1, <2>1 DEF Fields, Switched
<1>12. CASE HandlerThrows \/ ReadThrows
  <2> DEFINE u == UseHTTP11(h, FALSE)
  <2>1. u \in Fields /\ Switched(u)
    <3>1. u = [h EXCEPT !.chunked = FALSE, !.close = TRUE]
      BY DEF UseHTTP11
    <3> HIDE DEF u
    <3> QED
      BY <1>1, <3>1 DEF Fields, Switched
  <2>2. h' = ErrorPage(u, "page")
    BY <1>12 DEF HandlerThrows, ReadThrows, Throw
  <2> HIDE DEF u
  <2>3. h' = [u EXCEPT !.close = TRUE]
    BY <2>1, <2>2 DEF ErrorPage, Switched
  <2> QED
    BY <2>1, <2>3 DEF Fields, Switched
<1>13. CASE ChunkFinished
  <2> DEFINE g == [h EXCEPT !.buff = FALSE]
             f == [g EXCEPT !.outClosed = TRUE]
  <2>1. h.close
    BY <1>1, <1>13 DEF ChunkFinished, Draining, BodyLeft, All
  <2>2. h' = f \/ (h' = Clear(g) /\ pc' = "removed")
    BY <2>1, <1>13 DEF ChunkFinished, Remove, Goto
  <2>3. Sound(g)
    BY <1>1 DEF Sound, Fields
  <2>4. Switched(f)
    BY <1>1, <2>1 DEF Fields, Switched
  <2> HIDE DEF g, f
  <2> QED
    BY <2>2, <2>3, <2>4, ClearSound
<1> QED
  BY <1>2, <1>3, <1>4, <1>6, <1>7, <1>8, <1>9, <1>10, <1>11, <1>12, <1>13
     DEF ServerNext, Header, Handler, Body

LEMMA SwitchMade ==
    ASSUME ConnInv, Orderly, Framing, HandlerSendsHead, ~h.switched, h'.switched
    PROVE  Switched(h')
<1>1. PICK v \in {"plain", "length", "connclose", "cont", "switch"} : Move(v) /\ h' = HeadSent(h, v)
  BY DEF HandlerSendsHead
<1>2. v # "cont" /\ pc = "handler" /\ ~h.sent
  BY <1>1 DEF HandlerSendsHead, Move, Orderly
<1>4. Sound(h) /\ h.handler
  BY <1>2, HandlerFacts DEF ConnInv, Conn
<1>5. v = "switch"
  BY <1>1, <1>2, <1>4, HeadStays
<1>6. ~h.outClosed
  BY <1>2, <1>4 DEF Framing, Framed
<1> QED
  BY <1>1, <1>4, <1>5, <1>6, SwitchFields, HeadSentSound DEF Switched

(* What a step of the server writes, but for a header of a handler's own.  *)
LEMMA Grows ==
    ASSUME ConnInv, pc # "removed", ServerNext \/ Timeout \/ ReadThrows, ~HandlerSendsHead
    PROVE  (\E q \in Seq(Answers) : out' = out \o q) \/ out' = out \o Continue
<1>1. /\ Conn /\ <<>> \in Seq(Answers) /\ Sound(h)
      /\ \A g, v : v \notin {"cont", "switch"} => <<HeadRec(g, v)>> \in Seq(Answers)
      /\ \A w \in {"data", "end"} : <<Rec(w)>> \in Seq(Answers)
      /\ \A g, code : ErrorPageOut(g, code) \in Seq(Answers)
  BY RecAnswers DEF ConnInv, Conn
<1>2. CASE EventLoop \/ Timeout \/ HeaderIncomplete \/ RequestLine \/ HandlerProbes \/ HandlerClosesOutput
           \/ ReturnsSleep \/ ReadReturns \/ ReadUnit \/ OpenPostChunk \/ ReadBlocks \/ ReadZero
  <2>1. Emit(<<>>) \/ EmitFlush(<<>>) \/ UNCHANGED <<out, flushed>>
    BY <1>2 DEF EventLoop, DataReady, LoopAgain, LoopEnds, WriteReady, WakeUp, Timeout, HeaderIncomplete, Remove,
       RequestLine, HandlerProbes, HandlerClosesOutput, ReturnsSleep, ReadReturns, ReadUnit, OpenPostChunk,
       ReadBlocks, ReadZero
  <2> QED
    BY <1>1, <2>1, NoAnswer
<1>3. ASSUME NEW g, NEW recs \in Seq(Answers), Finish(g, recs) PROVE \E q \in Seq(Answers) : out' = out \o q
  BY <1>3 DEF Finish, Remove, Emit, EmitFlush
<1>4. ASSUME NEW g, NEW code, ErrorPageKA(g, code) PROVE \E q \in Seq(Answers) : out' = out \o q
  BY <1>1, <1>4 DEF ErrorPageKA, Remove, Emit, EmitFlush
<1>5. ASSUME NEW code, Final(code) PROVE \E q \in Seq(Answers) : out' = out \o q
  BY <1>1, <1>3, <1>4, <1>5 DEF Final
<1>6. CASE BadVersion \/ HeaderComplete
  <2>1. (\E g : ErrorPageKA(g, "page")) \/ (\E g, e : Finish(e, <<HeadRec(g, "length")>>)) \/ Emit(<<>>)
    BY <1>6 DEF BadVersion, HeaderComplete
  <2>2. CASE Emit(<<>>)
    BY <1>1, <2>2, NoAnswer
  <2> QED
    BY <1>1, <1>3, <1>4, <2>1, <2>2
<1>7. CASE GarbageLine \/ HeaderEof \/ HandlerThrows \/ ReadThrows
  <2>1. \E g : Remove(ErrorPageOut(g, "page"))
    BY <1>7 DEF GarbageLine, HeaderEof, HandlerThrows, ReadThrows, Throw
  <2> QED
    BY <1>1, <2>1 DEF Remove, EmitFlush
<1>8. CASE HandlerErrorPage
  BY <1>1, <1>3, <1>8 DEF HandlerErrorPage
<1>9. CASE ReturnsFinal
  BY <1>5, <1>9 DEF ReturnsFinal
<1>10. CASE HandlerReads \/ ReturnsContinue
  <2>1. (\E code : Final(code)) \/ out' = out \o <<>> \/ out' = out \o Continue
    BY <1>10 DEF HandlerReads, ReturnsContinue, Emit
  <2> QED
    BY <1>1, <1>5, <2>1
<1>11. CASE HandlerWrites \/ ReturnsWaitForWrite
  <2> DEFINE first == IF h.sent THEN <<>> ELSE <<HeadRec(h, "plain")>>
  <2>1. out' = out \o first \/ out' = out \o (first \o <<Rec("data")>>)
    BY <1>11 DEF HandlerWrites, ReturnsWaitForWrite, Emit
  <2>2. first \in Seq(Answers) /\ <<Rec("data")>> \in Seq(Answers)
    BY <1>1
  <2> HIDE DEF first
  <2>3. first \o <<Rec("data")>> \in Seq(Answers)
    BY <2>2
  <2> QED
    BY <2>1, <2>2, <2>3
<1>12. CASE ChunkFinished
  <2> DEFINE rest == IF h.buff THEN <<Rec("data")>> ELSE <<>>
             last == IF ~h.chunked THEN <<>> ELSE rest \o <<Rec("end")>>
  <2>1. out' = out \o last
    BY <1>12 DEF ChunkFinished, Remove, EmitFlush
  <2>2. last \in Seq(Answers)
    BY <1>1
  <2> QED
    BY <2>1, <2>2
<1> QED
  BY <1>2, <1>6, <1>7, <1>8, <1>9, <1>10, <1>11, <1>12 DEF ServerNext, Header, Handler, Body

LEMMA HeadsMore ==
    ASSUME NEW o \in Seq(Records), NEW q \in Seq(Records), NEW s, HeadsOf(o, s), HeadsOf(q, s)
    PROVE  HeadsOf(o \o q, s)
<1>1. /\ Len(o) \in Nat /\ Len(q) \in Nat
      /\ \A i \in DOMAIN o : (o \o q)[i] = o[i]
      /\ \A i \in DOMAIN (o \o q) : i \notin DOMAIN o => i - Len(o) \in DOMAIN q /\ (o \o q)[i] = q[i - Len(o)]
  OBVIOUS
<1>2. ASSUME NEW i \in DOMAIN (o \o q), (o \o q)[i].what = "head"
      PROVE  (o \o q)[i].framing # "none" /\ ((o \o q)[i].framing = "switch" => s)
  <2>1. CASE i \in DOMAIN o
    BY <1>1, <1>2, <2>1 DEF HeadsOf
  <2>2. CASE i \notin DOMAIN o
    BY <1>1, <1>2, <2>2 DEF HeadsOf
  <2> QED
    BY <2>1, <2>2
<1> QED
  BY <1>2 DEF HeadsOf

LEMMA HeadsKept ==
    ASSUME ConnInv, Orderly, pc # "removed", ServerNext \/ Timeout \/ ReadThrows,
           HeadsOf(out, h.switched), h.switched => h'.switched
    PROVE  HeadsOf(out', h'.switched) /\ \E q \in Seq(Records) : out' = out \o q
<1>1. /\ out \in Seq(Records) /\ HeadsOf(out, h'.switched) /\ Conn /\ Sound(h)
  BY DEF ConnInv, Conn, Wires, HeadsOf
<1>2. CASE HandlerSendsHead
  <2>1. PICK v \in {"plain", "length", "connclose", "cont", "switch"} :
           Move(v) /\ h' = HeadSent(h, v) /\ Emit(<<HeadRec(h, v)>>)
    BY <1>2 DEF HandlerSendsHead
  <2> DEFINE r == HeadRec(h, v)
  <2>2. v # "cont" /\ r \in Records /\ r.what = "head" /\ <<r>> \in Seq(Records)
    BY <1>1, <2>1, HeadTyped DEF Move, Orderly
  <2>3. r.framing # "none" /\ (r.framing = "switch" => v = "switch")
    BY <2>2 DEF HeadRec
  <2>4. v = "switch" => h'.switched
    BY <1>1, <2>1, SwitchFields
  <2>5. out' = out \o <<r>>
    BY <2>1 DEF Emit
  <2> HIDE DEF r
  <2>6. HeadsOf(<<r>>, h'.switched)
    BY <2>3, <2>4 DEF HeadsOf
  <2> QED
    BY <1>1, <2>2, <2>5, <2>6, HeadsMore
<1>3. CASE \E q \in Seq(Answers) : out' = out \o q
  <2>1. PICK q \in Seq(Answers) : out' = out \o q
    BY <1>3
  <2>2. q \in Seq(Records) /\ \A i \in DOMAIN q : q[i] \in Answers
    BY DEF Answers
  <2>3. HeadsOf(q, h'.switched)
    BY <2>2 DEF HeadsOf, Answers
  <2> QED
    BY <1>1, <2>1, <2>2, <2>3, HeadsMore
<1>4. CASE out' = out \o Continue
  <2> DEFINE r == Rec("cont")
  <2>1. r \in Records /\ r.what = "cont" /\ <<r>> \in Seq(Records) /\ Continue = <<r>>
    BY <1>1, RecTyped DEF Continue
  <2> HIDE DEF r
  <2>2. HeadsOf(<<r>>, h'.switched)
    BY <2>1 DEF HeadsOf
  <2> QED
    BY <1>1, <1>4, <2>1, <2>2, HeadsMore
<1> QED
  BY <1>2, <1>3, <1>4, Grows

-----------------------------------------------------------------------------
(* Each step, and what follows                                             *)

LEMMA ServerThere == ServerNext \/ Timeout \/ ReadThrows => pc # "removed"
<1>1. EventLoop \/ Timeout => pc # "removed"
  BY DEF EventLoop, DataReady, LoopAgain, LoopEnds, WriteReady, WakeUp, Timeout
<1>2. Header => pc # "removed"
  BY DEF Header, RequestLine, BadVersion, HeaderComplete, GarbageLine, HeaderIncomplete, HeaderEof
<1>3. Handler => pc # "removed"
  BY DEF Handler, HandlerReads, HandlerProbes, HandlerSendsHead, HandlerWrites, HandlerErrorPage, HandlerClosesOutput,
     HandlerThrows, ReturnsFinal, ReturnsContinue, ReturnsWaitForWrite, ReturnsSleep, Move, LastMove
<1>4. Body \/ ReadThrows => pc # "removed"
  BY DEF Body, ReadReturns, ReadUnit, OpenPostChunk, ReadBlocks, ReadZero, ChunkFinished, ReadThrows, Needs, Draining
<1> QED
  BY <1>1, <1>2, <1>3, <1>4 DEF ServerNext

LEMMA StreamStep ==
    ASSUME ConnInv, Orderly, Past(out, cur, h, pc), Past(out', cur', h', pc'), Informed,
           Stream, Switch, [Next]_vars
    PROVE  Stream'
<1> SUFFICES ASSUME pc' # "removed" \/ h'.handler, ~h'.switched PROVE Arriving' /\ Parsing'
  BY DEF Stream
<1>1. CASE ClientNext
  <2>1. h' = h /\ pc' = pc
    BY <1>1 DEF ClientNext, ClientBegins, ClientContinues, ClientSendsRaw, ClientCloses
  <2>2. Arriving /\ Parsing /\ Plain(out)
    BY <2>1 DEF Stream, Switch, HeadsOf, Plain
  <2> QED
    BY <1>1, <2>2, ClientStream
<1>2. CASE ServerNext \/ Timeout \/ ReadThrows
  <2>1. pc # "removed"
    BY <1>2, ServerThere
  <2>2. ~h.switched
    BY <1>2, <2>1, SwitchStays DEF Switch, Switched
  <2>3. Live
    BY <2>1, <2>2 DEF Live, Stream
  <2>4. CASE EventLoop \/ Timeout \/ HeaderIncomplete
    BY <2>3, <2>4, EventStream
  <2>5. CASE HandlerThrows \/ ReadThrows
    <3>1. pc' = "removed"
      BY <2>5 DEF HandlerThrows, ReadThrows, Throw, Remove, Goto
    <3> QED
      BY <2>3, <2>5, <3>1, ThrowStream
  <2>6. ASSUME ServerNext, ~HandlerThrows PROVE pc' # "removed"
    BY <2>6, ForgetsAtEnd
  <2>7. CASE Header
    <3>1. ServerNext /\ ~HandlerThrows
      BY <2>7 DEF ServerNext, HandlerThrows, LastMove, Header, RequestLine, BadVersion, HeaderComplete, GarbageLine,
         HeaderIncomplete, HeaderEof
    <3>2. ~(GarbageLine \/ HeaderEof)
      BY <2>6, <3>1 DEF GarbageLine, HeaderEof, Remove, Goto
    <3> QED
      BY <2>3, <2>4, <2>6, <2>7, <3>1, <3>2, RequestLineStream, BadVersionStream, HeaderCompleteStream DEF Header
  <2>8. CASE Handler /\ ~HandlerThrows
    BY <2>3, <2>6, <2>8, HandlerReadsStream, HandlerSilentStream, HandlerSendsHeadStream, HandlerWritesStream,
       HandlerErrorPageStream, ReturnsFinalStream, ReturnsContinueStream, ReturnsWaitForWriteStream
       DEF Handler, ServerNext
  <2>9. CASE Body
    <3>1. (ServerNext /\ ~HandlerThrows) \/ HandlerThrows
      BY <2>9 DEF ServerNext
    <3> QED
      BY <2>3, <2>5, <2>6, <2>9, <3>1, ReadSilentStream, ReadUnitStream, OpenPostChunkStream, ChunkFinishedStream
         DEF Body
  <2> QED
    BY <1>2, <2>4, <2>5, <2>7, <2>8, <2>9 DEF ServerNext
<1>3. CASE UNCHANGED vars
  BY <1>3 DEF vars, Stream, Arriving, Parsing
<1> QED
  BY <1>1, <1>2, <1>3 DEF Next

(* Requests are taken one after the other. *)
LEMMA NextInTurn ==
    ASSUME ConnInv, Arriving, RequestLine
    PROVE  cur' = cur + 1 /\ ~h.method
<1> DEFINE r == Head(in).req
<1>1. ~h.method /\ in # <<>> /\ cur' = r /\ Head(in).what = "line"
  BY DEF RequestLine
<1>2. /\ in \in Seq(Tokens) /\ cur \in Nat /\ Len(kinds) \in Nat
      /\ \A i \in DOMAIN in : in[i].req \in Nat
  BY InputFacts
<1>3. Head(in) = in[1] /\ 1 \in DOMAIN in /\ Len(in) \in Nat
  BY <1>1, <1>2, Taken
<1>4. cur < r /\ r <= Len(kinds) /\ r \in Nat
  <2>1. Lines(in, cur, Len(kinds))
    BY DEF ConnInv, Coming
  <2> QED
    BY <1>1, <1>2, <1>3, <2>1, LinesTaken
<1>5. cur + 1 \in 1 .. Len(kinds) /\ cur < cur + 1
  BY <1>2, <1>4
<1>6. PICK a, n \in Nat : n # 0 /\ Stretch(in, kinds[cur + 1], cur + 1, a, n, 0)
  BY <1>5 DEF Arriving
<1>7. a + 1 \in DOMAIN in /\ in[a + 1].req = cur + 1
  <2>1. a + 1 \in DOMAIN in /\ a < a + 1 /\ a + 1 <= a + n
    BY <1>2, <1>3, <1>6 DEF Stretch
  <2> QED
    BY <1>6, <2>1 DEF Stretch
<1>8. r <= cur + 1
  <2>1. a = 0 \/ 1 < a + 1
    BY <1>6
  <2>2. CASE a = 0
    BY <1>2, <1>3, <1>7, <2>2
  <2>3. CASE 1 < a + 1
    <3>1. in[1].req <= in[a + 1].req
      BY <1>3, <1>7, <2>3 DEF Arriving
    <3> QED
      BY <1>3, <1>7, <3>1
  <2> QED
    BY <2>1, <2>2, <2>3
<1> HIDE DEF r
<1> QED
  BY <1>1, <1>2, <1>4, <1>8

LEMMA SwitchStep ==
    ASSUME ConnInv, ConnInv', Past(out', cur', h', pc'), Orderly, Informed, Framing, Stream, Switch, [Next]_vars
    PROVE  Switch'
<1> SUFFICES ASSUME pc' # "removed" \/ h'.handler
             PROVE  /\ h'.switched => Switched(h')
                    /\ HeadsOf(out', h'.switched)
                    /\ \A r \in 1 .. cur' : r < cur' => Has(out', r, "head")
                    /\ h'.handler => cur' # 0 /\ (h'.sent \/ ~Has(out', cur', "head"))
  BY DEF Switch
<1>1. CASE ClientNext \/ UNCHANGED vars
  <2>1. h' = h /\ pc' = pc /\ out' = out /\ cur' = cur
    BY <1>1 DEF ClientNext, ClientBegins, ClientContinues, ClientSendsRaw, ClientCloses, vars, histVars
  <2> QED
    BY <2>1 DEF Switch
<1>2. CASE ServerNext \/ Timeout \/ ReadThrows
  <2>1. pc # "removed"
    BY <1>2, ServerThere
  <2>2. /\ h.switched => Switched(h)
        /\ HeadsOf(out, h.switched)
        /\ \A r \in 1 .. cur : r < cur => Has(out, r, "head")
    BY <2>1 DEF Switch
  <2>3. h.switched => h'.switched /\ Switched(h')
    BY <1>2, <2>1, <2>2, SwitchStays DEF Switched
  <2>4. h'.switched => Switched(h')
    BY <1>2, <2>1, <2>3, SwitchedByHead, SwitchMade
  <2>5. HeadsOf(out', h'.switched) /\ \E q \in Seq(Records) : out' = out \o q
    BY <1>2, <2>1, <2>2, <2>3, HeadsKept
  <2>6. \A r : Has(out, r, "head") => Has(out', r, "head")
    <3>1. out \in Seq(Records)
      BY DEF ConnInv, Conn, Wires
    <3> QED
      BY <2>5, <3>1, HasGrown
  <2>9. ASSUME h'.handler PROVE cur' # 0 /\ (h'.sent \/ ~Has(out', cur', "head"))
    <3>1. CASE pc' # "removed"
      <4>1. h'.method /\ cur' # 0
        BY <2>9, <3>1 DEF ConnInv, Conn, Control
      <4> QED
        BY <3>1, <4>1 DEF Past, Has
    <3>2. CASE Timeout
      <4>1. h' = h /\ cur' = cur
        BY <3>2 DEF Timeout, histVars
      <4>2. out' = out
        BY <3>2, NothingWritten DEF Timeout, Remove, ConnInv
      <4> QED
        BY <2>1, <2>9, <4>1, <4>2 DEF Switch
    <3>3. CASE HandlerThrows \/ ReadThrows
      <4> DEFINE u == UseHTTP11(h, FALSE)
      <4>1. Throw(h) /\ cur' = cur /\ Sound(h)
        BY <3>3 DEF HandlerThrows, ReadThrows, ConnInv, Conn
      <4>2. Sound(u) /\ u.handler = h.handler
        BY <4>1, UseHTTP11Sound
      <4>3. h' = ErrorPage(u, "page")
        BY <4>1 DEF Throw
      <4> HIDE DEF u
      <4>4. h'.sent /\ h'.handler = h.handler
        BY <4>2, <4>3, ErrorPageSound
      <4> QED
        BY <2>1, <2>9, <4>1, <4>4 DEF Switch
    <3>4. CASE ServerNext /\ pc' = "removed" /\ ~HandlerThrows
      BY <2>9, <3>4, ForgetsAtEnd
    <3> QED
      BY <1>2, <3>1, <3>2, <3>3, <3>4
  <2>7. CASE RequestLine
    <3>1. ~h.handler /\ ~h.switched
      <4>1. ~h.method
        BY <2>7 DEF RequestLine
      <4> QED
        BY <2>1, <2>2, <4>1 DEF ConnInv, Conn, Control, Switched
    <3>2. cur' = cur + 1 /\ ~h.method /\ cur \in Nat
      BY <2>1, <2>7, <3>1, NextInTurn, InputFacts DEF Stream
    <3>3. cur # 0 => Has(out, cur, "head")
      BY <2>1, <3>2 DEF Informed, Told
    <3>4. ASSUME NEW r \in 1 .. cur', r < cur' PROVE Has(out, r, "head")
      <4>1. r = cur \/ (r \in 1 .. cur /\ r < cur)
        BY <3>2, <3>4
      <4> QED
        BY <2>2, <3>2, <3>3, <3>4, <4>1
    <3> QED
      BY <2>4, <2>5, <2>6, <2>9, <3>4
  <2>8. CASE ~RequestLine
    <3>1. cur' = cur
      BY <1>2, <2>8 DEF ServerNext, EventLoop, Header, Handler, Body, DataReady, LoopAgain, LoopEnds, WriteReady, WakeUp,
         Timeout, BadVersion, HeaderComplete, GarbageLine, HeaderIncomplete, HeaderEof, HandlerReads, HandlerProbes,
         HandlerSendsHead, HandlerWrites, HandlerErrorPage, HandlerClosesOutput, HandlerThrows, ReturnsFinal,
         ReturnsContinue, ReturnsWaitForWrite, ReturnsSleep, ReadReturns, ReadUnit, OpenPostChunk, ReadBlocks, ReadZero,
         ChunkFinished, ReadThrows, HandlerOnly, ReadOnly, histVars
    <3> QED
      BY <2>2, <2>4, <2>5, <2>6, <2>9, <3>1
  <2> QED
    BY <2>7, <2>8
<1> QED
  BY <1>1, <1>2 DEF Next

LEMMA MisreadStep ==
    ASSUME ConnInv, Stream, Switch, Misread, [Next]_vars
    PROVE  Misread'
<1>1. /\ in \in Seq(Tokens) /\ kinds \in Seq(Kinds) /\ cur \in Nat /\ Len(kinds) \in Nat
      /\ \A i \in DOMAIN in : in[i].req \in Nat /\ in[i].req # 0
  BY InputFacts
<1>2. CASE ClientNext
  <2>1. misframed' = misframed /\ (kinds' = kinds \/ \E k \in Kinds : kinds' = Append(kinds, k))
    BY <1>2 DEF ClientNext, ClientBegins, ClientContinues, ClientSendsRaw, ClientCloses, histVars
  <2>2. ASSUME NEW r \in misframed PROVE r \in 1 .. Len(kinds') /\ kinds'[r].body = "chunked"
    <3>1. r \in 1 .. Len(kinds) /\ kinds[r].body = "chunked"
      BY <2>2 DEF Misread
    <3>2. r \in 1 .. Len(kinds') /\ kinds'[r] = kinds[r]
      BY <1>1, <2>1, <3>1
    <3> QED
      BY <3>1, <3>2
  <2> QED
    BY <2>1, <2>2 DEF Misread
<1>3. CASE GarbageLine
  <2>1. /\ pc = "header" /\ in # <<>> /\ ~h.method /\ Head(in).what # "line" /\ kinds' = kinds
        /\ misframed' = misframed \cup {cur}
    BY <1>3 DEF GarbageLine, clientVars
  <2>2. ~h.handler /\ ~h.switched
    BY <2>1 DEF ConnInv, Conn, Control, Switch, Switched
  <2>3. Arriving /\ Parsing
    BY <2>1, <2>2 DEF Stream
  <2> DEFINE r == Head(in).req
  <2>4. Head(in) = in[1] /\ 1 \in DOMAIN in
    BY <1>1, <2>1, Taken
  <2>5. r \in Nat /\ r # 0 /\ cur <= r /\ r <= Len(kinds)
    BY <1>1, <2>3, <2>4 DEF Arriving
  <2>6. r = cur
    <3>1. SUFFICES ASSUME cur < r PROVE FALSE
      BY <1>1, <2>5
    <3>2. r \in 1 .. Len(kinds)
      BY <1>1, <2>5
    <3>3. PICK a, n \in Nat : n # 0 /\ Stretch(in, kinds[r], r, a, n, 0)
      BY <2>3, <3>1, <3>2 DEF Arriving
    <3>4. a < 1 /\ in[1].what = Script(kinds[r])[0 + (1 - a)]
      BY <2>4, <3>3 DEF Stretch
    <3>5. a = 0 /\ 0 + (1 - a) = 1
      BY <3>3, <3>4
    <3>6. kinds[r] \in KindType
      BY <3>2, InputFacts
    <3> QED
      BY <2>1, <2>4, <3>4, <3>5, <3>6, ScriptIs
  <2>7. PICK n, c \in Nat :
          /\ Stretch(in, kinds[cur], cur, 0, n, c) /\ SentOf(out, kinds, pos, cur, c + n)
          /\ Parsed(h, pc, kinds[cur], Has(out, cur, "cont"), c)
    BY <2>3, <2>5, <2>6 DEF Parsing
  <2>8. n # 0
    BY <1>1, <2>1, <2>6, <2>7, StretchFirst
  <2>9. cur \in 1 .. Len(kinds) /\ kinds[cur] \in KindType
    BY <1>1, <2>5, <2>6, InputFacts
  <2>10. c # Upto(kinds[cur], Has(out, cur, "cont"))
    <3>1. Upto(kinds[cur], Has(out, cur, "cont")) \in Nat
      BY <2>9, UptoIs
    <3>2. c + n <= Upto(kinds[cur], Has(out, cur, "cont"))
      BY <2>7 DEF SentOf
    <3> QED
      BY <2>8, <3>1, <3>2
  <2>11. kinds[cur].body = "chunked"
    BY <2>1, <2>7, <2>10 DEF Parsed
  <2> QED
    BY <2>1, <2>9, <2>11 DEF Misread
<1>4. CASE (ServerNext \/ Timeout \/ ReadThrows \/ UNCHANGED vars) /\ ~GarbageLine
  <2>1. misframed' = misframed /\ kinds' = kinds
    BY <1>4 DEF ServerNext, EventLoop, Header, Handler, Body, DataReady, LoopAgain, LoopEnds, WriteReady, WakeUp,
       Timeout, BadVersion, HeaderComplete, HeaderIncomplete, HeaderEof, HandlerReads, HandlerProbes, RequestLine,
       HandlerSendsHead, HandlerWrites, HandlerErrorPage, HandlerClosesOutput, HandlerThrows, ReturnsFinal,
       ReturnsContinue, ReturnsWaitForWrite, ReturnsSleep, ReadReturns, ReadUnit, OpenPostChunk, ReadBlocks, ReadZero,
       ChunkFinished, ReadThrows, HandlerOnly, ReadOnly, histVars, clientVars, vars
  <2> QED
    BY <2>1 DEF Misread
<1> QED
  BY <1>2, <1>3, <1>4 DEF Next

(* What is left of the request that is handled: what its fields say.       *)
LEMMA InSync ==
    ASSUME ConnInv, Stream, Switch
    PROVE  BodyInSync
<1> SUFFICES ASSUME h.handler, ~h.switched
             PROVE  IF kinds[cur].expect = "100" /\ h.sent /\ ~Written(cur, "cont")
                    THEN h.remain = 0 /\ ~h.chunkedPost
                    ELSE IF kinds[cur].body = "chunked"
                         THEN IF h.chunkedPost THEN Unread(cur) % 2 # h.remain ELSE Unread(cur) = 0
                         ELSE Unread(cur) = h.remain
  BY DEF BodyInSync
<1>1. Arriving /\ Parsing /\ cur # 0 /\ (h.sent \/ ~Has(out, cur, "head"))
  BY DEF Stream, Switch
<1> DEFINE k == kinds[cur]
           w == Has(out, cur, "cont")
<1>2. /\ in \in Seq(Tokens) /\ cur \in Nat /\ Len(kinds) \in Nat /\ k \in KindType /\ pos \in Nat
      /\ k.body \in {"none", "len", "chunked"}
  BY <1>1, InputFacts DEF KindType
<1>3. PICK n, c \in Nat : Stretch(in, k, cur, 0, n, c) /\ SentOf(out, kinds, pos, cur, c + n) /\ Parsed(h, pc, k, w, c)
  BY <1>1 DEF Parsing
<1>4. Rest(h, k, w, c)
  BY <1>3 DEF Parsed
<1>5. Written(cur, "cont") <=> w
  BY DEF Written, Has
<1>6. Cardinality({i \in DOMAIN in : in[i].req = cur}) = n
  <2>1. {i \in DOMAIN in : in[i].req = cur} = 1 .. n
    <3>1. DOMAIN in = 1 .. Len(in) /\ Len(in) \in Nat
      BY <1>2
    <3>2. 0 + n <= Len(in) /\ \A i \in DOMAIN in : in[i].req = cur <=> 0 < i /\ i <= 0 + n
      BY <1>3 DEF Stretch
    <3> QED
      BY <3>1, <3>2
  <2>2. Cardinality(1 .. n) = n
    BY FS_Interval
  <2> QED
    BY <2>1, <2>2
<1>7. ASSUME ~(k.expect = "100" /\ h.sent /\ ~w) PROVE Unread(cur) = Len(Script(k)) - c
  <2>1. Len(Script(k)) \in Nat
    BY <1>2, ScriptIs
  <2>2. CASE cur = Len(kinds)
    <3>1. pos = c + n
      BY <1>3, <2>2 DEF SentOf
    <3>2. Unread(cur) = n + (Len(Script(k)) - pos)
      BY <1>6, <2>2 DEF Unread, Newest
    <3> QED
      BY <2>1, <3>1, <3>2
  <2>3. CASE cur # Len(kinds)
    <3>1. c + n = Upto(k, w) /\ (Owes(k, w) => Has(out, cur, "head"))
      BY <1>3, <2>3 DEF SentOf
    <3>2. ~Owes(k, w)
      BY <1>1, <1>7, <3>1 DEF Owes
    <3>3. c + n = Len(Script(k))
      BY <3>1, <3>2 DEF Upto
    <3>4. Unread(cur) = n + 0
      BY <1>6, <2>3 DEF Unread, Newest
    <3> QED
      BY <2>1, <3>3, <3>4
  <2> QED
    BY <2>2, <2>3
<1>8. CASE k.expect = "100" /\ h.sent /\ ~w
  <2>1. h.remain = 0 /\ ~h.chunkedPost
    BY <1>4, <1>8 DEF Rest
  <2> QED
    BY <1>5, <1>8, <2>1
<1>9. CASE ~(k.expect = "100" /\ h.sent /\ ~w)
  <2>1. Unread(cur) = Len(Script(k)) - c
    BY <1>7, <1>9
  <2>2. CASE k.body = "chunked"
    <3>1. Len(Script(k)) = 7
      BY <1>2, <2>2, ScriptIs
    <3>2. CASE h.chunkedPost
      <4>1. (c \in {2, 4, 6} /\ h.remain = 0) \/ (c \in {3, 5} /\ h.remain = 1)
        BY <1>4, <1>9, <2>2, <3>2 DEF Rest
      <4>2. 5 % 2 = 1 /\ 4 % 2 = 0 /\ 3 % 2 = 1 /\ 2 % 2 = 0 /\ 1 % 2 = 1
        OBVIOUS
      <4>3. (Unread(cur) \in {5, 3, 1} /\ h.remain = 0) \/ (Unread(cur) \in {4, 2} /\ h.remain = 1)
        BY <2>1, <3>1, <4>1
      <4>4. Unread(cur) % 2 # h.remain
        BY <4>2, <4>3
      <4> QED
        BY <1>5, <1>9, <2>2, <3>2, <4>4
    <3>3. CASE ~h.chunkedPost
      <4>1. c = 7
        BY <1>4, <1>9, <2>2, <3>3 DEF Rest
      <4> QED
        BY <1>5, <1>9, <2>1, <2>2, <3>1, <3>3, <4>1
    <3> QED
      BY <3>2, <3>3
  <2>3. CASE k.body # "chunked"
    <3>1. Len(Script(k)) = (IF k.body = "none" THEN 2 ELSE 4)
      BY <1>2, <2>3, ScriptIs
    <3>2. h.remain = (IF k.body = "none" THEN 0 ELSE 4 - c) /\ (k.body = "none" => c = 2)
      BY <1>2, <1>4, <1>9, <2>3 DEF Rest
    <3>3. Unread(cur) = h.remain
      BY <2>1, <3>1, <3>2
    <3> QED
      BY <1>5, <1>9, <2>3, <3>3
  <2> QED
    BY <2>2, <2>3
<1> QED
  BY <1>8, <1>9

(* What waits for its next request has delivered every response.           *)
LEMMA Delivered ==
    ASSUME ConnInv, Informed, Framing, Flushed, Switch
    PROVE  IdleMeansDelivered
<1> SUFFICES ASSUME pc = "parked", ~h.method, NEW r \in 1 .. cur PROVE SeenComplete(r)
  BY DEF IdleMeansDelivered
<1>1. ~h.handler /\ ~h.sent /\ ~h.switched /\ cmd = "read"
  BY DEF ConnInv, Conn, Control, Thread, Switch, Switched
<1>2. flushed = Len(out) /\ DOMAIN out = 1 .. Len(out)
  BY <1>1 DEF Flushed, ConnInv, Conn, Wires
<1>3. Has(out, r, "head")
  <2>1. cur \in Nat
    BY InputFacts
  <2>2. CASE r = cur
    BY <2>1, <2>2 DEF Informed, Told
  <2>3. CASE r # cur
    BY <2>1, <2>3 DEF Switch
  <2> QED
    BY <2>2, <2>3
<1>4. PICK i \in DOMAIN out : out[i].req = r /\ out[i].what = "head"
  BY <1>3 DEF Has
<1>5. Parts(out) /\ Whole(out, i)
  BY <1>1, <1>4 DEF Framing, Writer, AllWhole
<1>6. out[i].framing \in {"length", "chunked"}
  <2>1. out[i].framing \in {"none", "chunked", "length", "eof", "switch"}
    <3>1. out \in Seq(Records)
      BY DEF ConnInv, Conn, Wires
    <3>2. out[i] \in Records
      BY <1>4, <3>1, Numbered
    <3> QED
      BY <3>2 DEF Records
  <2>2. out[i].framing # "eof"
    BY <1>5 DEF Whole
  <2>3. out[i].framing # "none" /\ out[i].framing # "switch"
    BY <1>1, <1>4 DEF Switch, HeadsOf
  <2> QED
    BY <2>1, <2>2, <2>3
<1>7. ASSUME out[i].framing = "chunked" PROVE Seen(r, "end")
  <2>1. PICK l \in DOMAIN out : /\ i < l /\ out[l].what = "end"
                                /\ \A m \in DOMAIN out : i < m /\ m < l => out[m].what # "head"
    BY <1>5, <1>7 DEF Whole
  <2>2. PICK j \in DOMAIN out : /\ j < l /\ out[j].what = "head" /\ out[j].req = out[l].req
                                /\ \A m \in DOMAIN out : j < m /\ m < l => out[m].what = "data"
    BY <1>5, <2>1 DEF Parts
  <2>3. i = j
    BY <1>2, <1>4, <2>1, <2>2
  <2> QED
    BY <1>2, <1>4, <2>1, <2>2, <2>3 DEF Seen
<1>8. i \in 1 .. flushed
  BY <1>2, <1>4
<1> QED
  BY <1>4, <1>6, <1>7, <1>8 DEF SeenComplete, SeenHead

-----------------------------------------------------------------------------
(* The theorems                                                            *)

LEMMA ConnTyped == ConnInv => TypeOK
<1> SUFFICES ASSUME ConnInv PROVE TypeOK
  OBVIOUS
<1>1. in \in Seq(Tokens) /\ out \in Seq(Records)
  BY DEF ConnInv, Conn, Coming, Wires
<1>2. (\A i \in DOMAIN in : in[i] \in Tokens) /\ (\A i \in DOMAIN out : out[i] \in Records)
  BY <1>1
<1> QED
  BY <1>2 DEF ConnInv, Conn, Coming, Counted, Sound, Wires, Thread, Tokens, Records, TypeOK

(* The fields, the wires, the places and the counters keep their types,    *)
(* for any requests and handlers: in particular the rest of a body is      *)
(* never counted below zero, and is without an end only after a switch.    *)
THEOREM TypeCorrect == Spec => []TypeOK
BY ConnTyped, ConnInit, ConnStep, PTL DEF Spec

(* Whatever handlers do, with any number of requests, responses come in    *)
(* the order of the requests, one for each, with 100 Continue ahead of it  *)
(* at most once, a page for what is no request comes last, and so does a   *)
(* response that announces the end. The two moves with which a handler     *)
(* writes 100 Continue or the announcement by itself are excepted.         *)
THEOREM InOrderAlways == ASSUME Orderly PROVE Spec => []ResponsesInOrder
<1> DEFINE OInv == ConnInv /\ Past(out, cur, h, pc)
<1>1. Init => OInv
  BY ConnInit
<1>2. OInv /\ [Next]_vars => OInv'
  BY ConnStep DEF Kept
<1>3. OInv => ResponsesInOrder
  <2> SUFFICES ASSUME OInv PROVE ResponsesInOrder
    OBVIOUS
  <2>1. Ordered(out) /\ Past(out, cur, h, pc)
    BY DEF Past
  <2>2. \A i, j \in Heads : i < j => out[i].req < out[j].req \/ out[j].req = 0
    BY <2>1 DEF Ordered, Heads
  <2>3. \A i, j \in DOMAIN out :
          /\ i < j /\ out[i].req = 0 => out[j].req = 0
          /\ i < j /\ out[j].what = "cont" => out[i].req # out[j].req
    BY <2>1 DEF Ordered
  <2>4. \A i \in DOMAIN out : out[i].req = 0 => pc = "removed"
    BY <2>1 DEF Past
  <2>5. \A i \in Heads : out[i].close /\ out[i].req # 0 => cur = out[i].req
    BY <2>1 DEF Past, Heads
  <2> QED
    BY <2>2, <2>3, <2>4, <2>5 DEF ResponsesInOrder
<1> QED
  BY <1>1, <1>2, <1>3, PTL DEF Spec

(* Whatever handlers do, the client never holds back a body until it sees  *)
(* 100 Continue while the server waits for that body: whoever goes to wait *)
(* for input has told the client 100 Continue, or its final response, and  *)
(* has written it out. A handler that only probes is excepted.             *)
THEOREM NoDeadlockAlways == Spec => []NoContinueDeadlock
<1> DEFINE CInv == ConnInv /\ Informed /\ Flushed /\ Behind
<1>1. Init => CInv
  <2> SUFFICES ASSUME Init PROVE CInv
    OBVIOUS
  <2>1. ConnInv
    BY ConnInit
  <2>2. in = <<>> /\ out = <<>> /\ flushed = 0 /\ cur = 0 /\ ~h.method
    BY DEF Init
  <2> QED
    BY <2>1, <2>2 DEF Informed, Flushed, Behind
<1>2. CInv /\ [Next]_vars => CInv'
  BY ConnStep, WaitStep
<1>3. CInv => NoContinueDeadlock
  <2> SUFFICES ASSUME CInv, AwaitsContinue, ~Seen(Newest, "head"), pc # "probing", cur = Newest, in = <<>>,
                      (pc = "parked" /\ cmd = "read") \/ (Needs /\ flushed = Len(out))
               PROVE  FALSE
    BY DEF NoContinueDeadlock
  <2>1. pc # "removed" /\ flushed = Len(out)
    BY DEF Needs, Draining, Flushed
  <2>2. cur # 0 /\ kinds[cur].expect = "100" /\ pos = 2 /\ ~Seen(cur, "cont")
    BY DEF AwaitsContinue, Newest, ConnInv, Coming
  <2>3. ~Has(out, cur, "cont") /\ ~Has(out, cur, "head")
    <3>1. DOMAIN out = 1 .. Len(out)
      BY DEF ConnInv, Conn, Wires
    <3> QED
      BY <2>1, <2>2, <3>1 DEF Has, Seen
  <2>4. ~h.sent /\ h.method /\ (h.handler => h.needCont)
    BY <2>1, <2>2, <2>3 DEF Informed, Told
  <2>5. Control(h, pc, cmd, ret, cur)
    BY DEF ConnInv, Conn
  <2>6. CASE pc = "parked" /\ cmd = "read"
    BY <2>1, <2>2, <2>4, <2>5, <2>6 DEF Control, Behind
  <2>7. CASE Needs
    BY <2>1, <2>4, <2>5, <2>7 DEF Control, Needs, Draining
  <2> QED
    BY <2>6, <2>7
<1> QED
  BY <1>1, <1>2, <1>3, PTL DEF Spec

(* Whatever handlers do, a response agrees with the framing its header     *)
(* announced, whole or up to where the connection ended, a HEAD request    *)
(* gets no body, and a handler that fails is never taken for one that      *)
(* succeeds, unless the end of the connection delimits its response.       *)
THEOREM FramedAlways == Spec => []OutputFramed
<1>1. ConnInv /\ Framing => OutputFramed
  <2> SUFFICES ASSUME ConnInv, Framing PROVE OutputFramed
    OBVIOUS
  <2>1. out \in Seq(Records) /\ DOMAIN out = 1 .. Len(out) /\ Len(out) \in Nat
    BY DEF ConnInv, Conn, Wires
  <2>2. Gone(out)
    BY <2>1, WriterGone DEF Framing
  <2>3. ASSUME NEW i \in DOMAIN out, out[i].what \in {"data", "end"}
        PROVE  \E j \in Heads :
                  /\ j < i /\ out[j].req = out[i].req
                  /\ out[i].what = "end" => out[j].framing = "chunked"
                  /\ \A l \in j + 1 .. i - 1 : out[l].what = "data"
    <3>1. PICK j \in DOMAIN out :
             /\ j < i /\ out[j].what = "head" /\ out[j].req = out[i].req
             /\ out[i].what = "end" => out[j].framing = "chunked"
             /\ \A l \in DOMAIN out : j < l /\ l < i => out[l].what = "data"
      BY <2>2, <2>3 DEF Gone, Parts
    <3>2. j \in Heads
      BY <3>1 DEF Heads
    <3>3. \A l \in j + 1 .. i - 1 : l \in DOMAIN out /\ j < l /\ l < i
      BY <2>1
    <3> QED
      BY <3>1, <3>2, <3>3
  <2>4. ASSUME NEW i \in Heads, NEW j \in Heads, i < j
        PROVE  /\ out[i].framing # "eof"
               /\ out[i].framing = "chunked" => \E l \in i + 1 .. j - 1 : out[l].what = "end"
    <3>1. i \in DOMAIN out /\ j \in DOMAIN out /\ out[i].what = "head" /\ out[j].what = "head"
      BY DEF Heads
    <3>2. Whole(out, i)
      BY <2>2, <2>4, <3>1 DEF Gone
    <3>3. ASSUME out[i].framing = "chunked" PROVE \E l \in i + 1 .. j - 1 : out[l].what = "end"
      <4>1. PICK l \in DOMAIN out : /\ i < l /\ out[l].what = "end"
                                    /\ \A m \in DOMAIN out : i < m /\ m < l => out[m].what # "head"
        BY <3>2, <3>3 DEF Whole
      <4>2. l # j /\ ~(j < l)
        BY <2>4, <3>1, <4>1
      <4>3. l \in i + 1 .. j - 1
        BY <2>1, <3>1, <4>1, <4>2
      <4> QED
        BY <4>1, <4>3
    <3> QED
      BY <3>2, <3>3 DEF Whole
  <2>5. pc # "removed" => \A i \in DOMAIN out : out[i].what = "data" => out[i].req \notin Bare
    BY DEF Framing, Writer
  <2>6. ASSUME NEW f \in threw PROVE TruncationHidden(f) \/ FailureShown(f)
    <3>1. \/ h.outClosed
          \/ /\ Has(out, f.req, "head") /\ ~Has(out, f.req, "end")
             /\ f.sent => Len(out) = f.at
      BY DEF Framing, Failed
    <3> QED
      BY <3>1 DEF TruncationHidden, FailureShown, HeadOf, Heads, Has, Written
  <2> QED
    BY <2>3, <2>4, <2>5, <2>6 DEF OutputFramed
<1> QED
  BY <1>1, ConnInit, ConnStep, FramingInit, FramingStep, PTL DEF Spec

(* Whatever handlers do, and whatever is pipelined, the parser never loses *)
(* its place: it begins every request at the beginning of one, unless the  *)
(* handler before left chunks unread; the rest of a body that it believes  *)
(* in is the rest that there is; and when it waits for the next request,   *)
(* every response has left its buffer.                                     *)
THEOREM ConsistentAlways == ASSUME Orderly PROVE Spec => []Consistent
<1> DEFINE SInv == /\ ConnInv /\ Past(out, cur, h, pc) /\ Informed /\ Framing /\ Flushed /\ Behind
                   /\ Stream /\ Switch /\ Misread
<1>1. Init => SInv
  <2> SUFFICES ASSUME Init PROVE SInv
    OBVIOUS
  <2>1. ConnInv /\ Past(out, cur, h, pc) /\ Framing
    BY ConnInit, FramingInit
  <2>2. /\ in = <<>> /\ out = <<>> /\ flushed = 0 /\ cur = 0 /\ kinds = <<>> /\ misframed = {}
        /\ ~h.method /\ ~h.handler /\ ~h.switched
    BY DEF Init
  <2>3. Informed /\ Flushed /\ Behind /\ Misread
    BY <2>2 DEF Informed, Flushed, Behind, Misread
  <2>4. Stream
    BY <2>2 DEF Stream, Arriving, Parsing
  <2>5. Switch
    BY <2>2 DEF Switch, HeadsOf
  <2> QED
    BY <2>1, <2>3, <2>4, <2>5
<1>2. SInv /\ [Next]_vars => SInv'
  <2> SUFFICES ASSUME SInv, [Next]_vars PROVE SInv'
    OBVIOUS
  <2>1. ConnInv' /\ Past(out', cur', h', pc') /\ Informed'
    BY ConnStep DEF Kept
  <2>2. Framing'
    BY FramingStep
  <2>3. Flushed' /\ Behind'
    BY <2>1, WaitStep
  <2>4. Stream'
    BY <2>1, StreamStep
  <2>5. Switch'
    BY <2>1, SwitchStep
  <2>6. Misread'
    BY MisreadStep
  <2> QED
    BY <2>1, <2>2, <2>3, <2>4, <2>5, <2>6
<1>3. SInv => Consistent
  <2> SUFFICES ASSUME SInv PROVE Consistent
    OBVIOUS
  <2>1. TypeOK
    BY ConnTyped
  <2>2. NextRequestFramed
    BY DEF Misread, NextRequestFramed
  <2>3. BodyInSync /\ IdleMeansDelivered
    BY InSync, Delivered
  <2> QED
    BY <2>1, <2>2, <2>3 DEF Consistent
<1> QED
  BY <1>1, <1>2, <1>3, PTL DEF Spec
=============================================================================
