---------------------------- MODULE MCHttpClient ----------------------------
(* An instance of HttpClient for TLC; the bodies of requests and the ways  *)
(* to a site on all small inputs.                                          *)
EXTENDS HttpClient

Small == INSTANCE RequestBody WITH MinSize <- 2, MaxSize <- 3
Eager == INSTANCE RequestBody WITH MinSize <- 0, MaxSize <- 2

(* As sendRequest() prepares them: first the length, then the headers.     *)
Lengths(r) == {r, Small!Unknown(r), Small!Calculate(r)} \cup {Small!Declare(r, n) : n \in 0..3}
Prepared ==
    LET new == {Small!NewRequest(w[1], w[2], w[3]) : w \in BOOLEAN \X BOOLEAN \X BOOLEAN}
        sized == UNION {Lengths(r) : r \in new}
    IN  sized \cup {Small!SetFraming(r) : r \in sized}

(* Up to three pieces of up to three bytes, and flushes. *)
Ops == {<<"flush">>} \cup {<<"write", n>> : n \in 0..3}
OpSeqs == UNION {[1..k -> Ops] : k \in 0..3}

BodiesFramed == \A r \in Prepared, ops \in OpSeqs : Small!Framed(r, ops) /\ Eager!Framed(r, ops)

(* Requests to two names, one of them a proxy's; and calls of TLS streams. *)
Way == INSTANCE Tunnels
SeqsOf(set, n) == UNION {[1..k -> set] : k \in 0..n}
SomeRequests ==
    {r \in [site : {"s", "p"}, tls : BOOLEAN, proxy : {Way!Direct, "p"}, tunnel : {200, 403}, status : {200, 404}, kept : {TRUE}] :
        r.proxy = Way!Direct => r.tunnel = 200}
Results == [value : {"some", "none", "fail"}, error : {"read", "write", "other"}, silent : BOOLEAN]
WaysRight ==
    /\ \A status \in {0, 200}, tls \in BOOLEAN :
          /\ \A requests \in SeqsOf(SomeRequests, 3) : Way!WayRight(Way!NewClient(status, tls), requests)
          /\ \A r, q \in SomeRequests : Way!WayRight(Way!NewClient(status, tls), <<r, [q EXCEPT !.kept = FALSE]>>)
    /\ \A operation \in {"connect", "read", "write", "peek"}, size \in 0..1, results \in SeqsOf(Results, 3) :
          Way!CallRight(operation, size, results)

(* Bodies arrive as they are written, and the ways lead to the sites: this *)
(* does not depend on the state, so that to look at the first is enough.   *)
RightContents == (opened = 0 => BodiesFramed) /\ (Init => WaysRight)

(* The defects that these properties name, each on an input that shows it: *)
(* a body that never leaves, a tunnel that was refused, https in clear.    *)
Posted == <<<<"write", 1>>>>
ASSUME BodyNeverLeaves ==
    LET r == Small!Sent(Small!NewRequest(FALSE, TRUE, FALSE), Posted) IN r.taken = 1 /\ Small!Received(r) = <<>>

To(name, tls, proxy, tunnel) ==
    [site |-> name, tls |-> tls, proxy |-> proxy, tunnel |-> tunnel, status |-> 200, kept |-> TRUE]
ASSUME RefusedTunnelUsed ==
    LET first == Way!Request(Way!NewClient(0, FALSE), To("s", FALSE, Way!Direct, 200)).client
        second == Way!Request(first, To("s", TRUE, "p", 403))
    IN  second.made /\ second.client.conn.refused
ASSUME HttpsInClear ==
    LET first == Way!Request(Way!NewClient(0, FALSE), To("s", TRUE, Way!Direct, 200)).client
        second == Way!Request(first, To("p", FALSE, Way!Direct, 200)).client
        third == Way!Request(second, To("p", TRUE, Way!Direct, 200))
    IN  third.made /\ ~third.client.conn.tls
=============================================================================
