------------------------------ MODULE HttpClient ------------------------------
(***************************************************************************)
(* The HTTP client (httpclient/httpClient.cpp) with the request's writer   *)
(* and the response's parser (httpStream.cpp): connections kept alive and  *)
(* reused, the rest of a response skipped before the next request, Expect: *)
(* 100-continue with its timer, 417, and the repetition of what failed on  *)
(* a reused connection.                                                    *)
(*                                                                         *)
(* External: servers, which answer in any framing, close or lose the       *)
(* connection at any time and may ignore or refuse an Expect; the network, *)
(* whose reads end by data, an orderly end ("io": IncompleteStream), or a  *)
(* reset or the io timeout ("net": NetworkException); and the user.        *)
(* Keep-alive is on; there is no proxy; HTTP is 1.1.                       *)
(***************************************************************************)
EXTENDS Naturals, Sequences

CONSTANTS
    Sites,
    MaxRequests,    \* bounds the requests that the user opens
    MaxFaults,      \* bounds the connections that servers lose
    Careful         \* does the user take every response, and close() what failed?

ASSUME HttpClientAssumption ==
    /\ MaxRequests \in Nat /\ MaxFaults \in Nat /\ Careful \in BOOLEAN

VARIABLES
    opened, url,        \* requests opened, and where the last one goes
    use,                \* what the user has done with it, see Uses
    pc, op, pso,        \* where the client is, in which call, with which PostStreamOption
    expectHdr,          \* is Expect among the headers of the request (reqHdrMap)?
    request, response,  \* the objects, or Nil
    conn,               \* nstream with what is in it, and its server; or Nil
    currentDomain, currentTls, connectionReused,
    served,             \* of each request, how often a server got the whole of it
    lastError,          \* how the last call failed
    faults

user == <<opened, url, use>>
call == <<op, pso>>
objects == <<request, response>>
site == <<currentDomain, currentTls>>
history == <<served, lastError, faults>>
vars == <<user, pc, call, expectHdr, objects, conn, site, connectionReused, history>>

Nil == [nil |-> TRUE]
Requests == 1..MaxRequests
Uses == {"new", "opened", "body", "sent", "done", "failed"}
Calls == {"send", "sendBody", "sendNoWait", "beginBody", "finish", "flush", "receive", "read", "close"}
(* psoDefault is psoAllow100, psoBuffer is psoAvoid100 here. What a 417    *)
(* leaves of the options that wait for 100 is psoAvoid100 as well.         *)
Options == {"allow", "favour", "force", "avoid", "noreuse"}
Refused(option) == IF option = "force" THEN "force417" ELSE "avoid417"
Framings == {"length", "chunked", "close", "none"}

Init ==
    /\ opened = 0 /\ url = Nil /\ use = "new" /\ expectHdr = FALSE
    /\ pc = "idle" /\ op = "close" /\ pso = "avoid"
    /\ request = Nil /\ response = Nil /\ conn = Nil
    /\ currentDomain = Nil /\ currentTls \in BOOLEAN /\ connectionReused = FALSE
    /\ served = [n \in Requests |-> [fresh |-> 0, reused |-> 0, stream |-> 0]]
    /\ lastError = Nil /\ faults = 0

-----------------------------------------------------------------------------
(* The response's parser: what a piece of input makes of it.               *)
NewResponse(ka) == [mode |-> "status", n |-> 0, status |-> "none", ka |-> ka]
HeaderModes == {"status", "chunkheader"}
BodyMode(framing) ==
    CASE framing = "length" -> "limited" [] framing = "chunked" -> "chunkheader"
      [] framing = "close" -> "unlimited" [] framing = "none" -> "eof"

Parsable(mode, kind) ==
    CASE mode \in {"status", "continue"} -> kind \in {"crlf", "100", "head"}
      [] mode = "chunkheader" -> kind \in {"crlf", "chunk", "last"}
      [] mode \in {"chunk", "limited", "unlimited"} -> TRUE
      [] mode = "eof" -> FALSE

Parsed(r, t) ==
    CASE t.kind = "crlf" -> r
      [] t.kind = "100" -> [r EXCEPT !.mode = "continue", !.ka = TRUE]
      [] t.kind = "head" -> [mode |-> BodyMode(t.framing), n |-> t.n, status |-> t.status, ka |-> t.ka]
      [] t.kind = "chunk" -> [r EXCEPT !.mode = "chunk"]
      [] t.kind = "last" -> [r EXCEPT !.mode = "eof"]
      [] t.kind = "data" -> [r EXCEPT !.mode = CASE @ = "chunk" -> "chunkheader"
                                                 [] @ = "limited" -> "eof" [] OTHER -> @]

(* One read of the network moves the parser, or finds the end of a body    *)
(* that lasts until the connection's.                                      *)
Read ==
    \/ /\ conn.in # <<>>
       /\ Parsable(response.mode, Head(conn.in).kind)
       /\ response' = Parsed(response, Head(conn.in))
       /\ conn' = [conn EXCEPT !.in = Tail(@)]
    \/ /\ conn.in = <<>> /\ conn.peer = "shut" /\ response.mode = "unlimited"
       /\ response' = [response EXCEPT !.mode = "eof"]
       /\ UNCHANGED conn

ReadFails(kind) ==
    IF conn.in # <<>> THEN kind = "io" /\ ~Parsable(response.mode, Head(conn.in).kind)
    ELSE \/ kind = "io" /\ conn.peer = "shut" /\ response.mode # "unlimited"
         \/ kind = "net" /\ conn.peer \in {"up", "reset"}

-----------------------------------------------------------------------------
(* The user.                                                               *)
Open(u) ==
    /\ pc = "idle" /\ opened < MaxRequests
    /\ use \in (IF Careful THEN {"new", "done"} ELSE Uses \ {"opened"})
    /\ opened' = opened + 1 /\ url' = u /\ use' = "opened" /\ expectHdr' = FALSE
    /\ UNCHANGED <<pc, call, objects, conn, site, connectionReused, history>>

(* send(), send(body) and sendNoWait(). A request that an earlier call has *)
(* left is finished instead, outside of the try and catch of these calls.  *)
Send(o) ==
    /\ pc = "idle" /\ use = "opened"
    /\ pso' = "avoid"
    /\ IF request = Nil THEN op' = o /\ pc' = "create"
       ELSE op' = (IF o = "sendNoWait" THEN "flush" ELSE "finish") /\ pc' = "finish"
    /\ UNCHANGED <<user, expectHdr, objects, conn, site, connectionReused, history>>

BeginBody(option) ==
    /\ pc = "idle" /\ use = "opened"
    /\ op' = "beginBody" /\ pso' = option /\ pc' = "create"
    /\ UNCHANGED <<user, expectHdr, objects, conn, site, connectionReused, history>>

(* After the body: send(); after sendNoWait(): receiveResponse().          *)
Finish ==
    /\ pc = "idle" /\ use = "body"
    /\ op' = "finish" /\ pc' = "finish"
    /\ UNCHANGED <<user, pso, expectHdr, objects, conn, site, connectionReused, history>>

Receive ==
    /\ pc = "idle" /\ use = "sent"
    /\ op' = "receive" /\ pc' = IF request = Nil THEN "fail" ELSE "load"
    /\ response' = IF request # Nil /\ response = Nil THEN NewResponse(TRUE) ELSE response
    /\ UNCHANGED <<user, pso, expectHdr, request, conn, site, connectionReused, history>>

ReadBody ==
    /\ pc = "idle" /\ use = "done" /\ response.mode \notin {"eof", "continue"}
    /\ op' = "read"
    /\ \/ Read /\ UNCHANGED use
       \/ (\E kind \in {"io", "net"} : ReadFails(kind)) /\ use' = "failed" /\ UNCHANGED <<response, conn>>
    /\ UNCHANGED <<opened, url, pc, pso, expectHdr, request, site, connectionReused, history>>

Close ==
    /\ pc = "idle" /\ use # "new"
    /\ op' = "close" /\ pc' = IF response # Nil THEN "skip" ELSE "closed"
    /\ UNCHANGED <<user, pso, expectHdr, objects, conn, site, connectionReused, history>>

-----------------------------------------------------------------------------
(* Inside a call.                                                          *)
CloseConnection == conn' = Nil /\ request' = Nil /\ response' = Nil

canReuseConnection ==
    /\ url.site = currentDomain /\ url.tls = currentTls
    /\ request = Nil /\ response # Nil /\ response.ka

NewConnection == [site |-> url.site, tls |-> url.tls, in |-> <<>>, peer |-> "up",
                  stage |-> "idle", n |-> 0, expect |-> FALSE, chunked |-> FALSE]

Connect ==
    /\ conn' = NewConnection
    /\ currentDomain' = url.site /\ currentTls' = (url.tls \/ currentTls)

(* Mutant: the flag of the last attempt is kept.                           *)
CreateRequestKeepsFlag ==
    /\ pc = "create"
    /\ IF canReuseConnection THEN pc' = "skip" /\ UNCHANGED <<conn, site>> ELSE pc' = "head" /\ Connect
    /\ UNCHANGED <<user, call, expectHdr, objects, connectionReused, history>>

CreateRequest ==
    /\ pc = "create" /\ connectionReused' = FALSE
    /\ IF canReuseConnection THEN pc' = "skip" /\ UNCHANGED <<conn, site>> ELSE pc' = "head" /\ Connect
    /\ UNCHANGED <<user, call, expectHdr, objects, history>>

(* connectSite() fails: nobody listens, or the connection times out.       *)
ConnectFails ==
    /\ pc = "create" /\ ~canReuseConnection
    /\ connectionReused' = FALSE /\ lastError' = [kind |-> "net", at |-> "connect"]
    /\ pc' = "raise"
    /\ UNCHANGED <<user, call, expectHdr, objects, conn, site, served, faults>>

(* skipRemainBody(false), of createRequest, of close() and after a 417.    *)
SkipOver == response.mode = "eof" \/ (response.mode = "continue" /\ conn.in = <<>>)

Skip ==
    /\ pc \in {"skip", "skip417"} /\ ~SkipOver
    /\ Read
    /\ UNCHANGED <<user, pc, call, expectHdr, request, site, connectionReused, history>>

Skipped ==
    /\ pc = "skip" /\ op # "close" /\ SkipOver
    /\ pc' = "head" /\ connectionReused' = TRUE
    /\ UNCHANGED <<user, call, expectHdr, objects, conn, site, history>>

(* A NetworkException there starts over with a new connection.             *)
SkipFails ==
    /\ pc = "skip" /\ op # "close" /\ ~SkipOver
    /\ \/ /\ ReadFails("net")
          /\ pc' = "create" /\ response' = Nil /\ conn' = Nil /\ UNCHANGED lastError
       \/ /\ ReadFails("io")
          /\ pc' = "raise" /\ lastError' = [kind |-> "io", at |-> "skip"]
          /\ UNCHANGED <<response, conn>>
    /\ UNCHANGED <<user, call, expectHdr, request, site, connectionReused, served, faults>>

use100 == pso \in {"favour", "force"} \/ (pso = "allow" /\ connectionReused)

(* sendRequest() from the new HttpRequest to beginBody(). What is written  *)
(* stays in the buffer until the output is closed, or Expect is to be      *)
(* answered.                                                               *)
WriteHead ==
    /\ pc = "head" /\ ~(pso = "noreuse" /\ connectionReused)
    /\ expectHdr' = (expectHdr \/ use100)
    /\ request' = [n |-> opened, expect |-> expectHdr', closed |-> FALSE]
    /\ \E garbage \in BOOLEAN : response' = NewResponse(garbage)
    /\ IF use100
       THEN /\ conn' = IF conn.peer # "up" THEN conn
                       ELSE [conn EXCEPT !.stage = "head", !.n = opened, !.expect = TRUE]
            /\ pc' = "wait100" /\ UNCHANGED use
       ELSE /\ pc' = IF op = "beginBody" THEN "idle" ELSE "finish"
            /\ use' = IF op = "beginBody" THEN "body" ELSE use
            /\ UNCHANGED conn
    /\ UNCHANGED <<opened, url, call, site, connectionReused, history>>

AvoidReuse ==
    /\ pc = "head" /\ pso = "noreuse" /\ connectionReused
    /\ CloseConnection /\ pc' = "create"
    /\ UNCHANGED <<user, call, expectHdr, site, connectionReused, history>>

(* Mutant: an unlimited wait.                                              *)
Wait100Untimed(timeout) ==
    /\ pc = "wait100" /\ ~timeout
    /\ conn.in # <<>> \/ conn.peer # "up"
    /\ pc' = "head100"
    /\ UNCHANGED <<user, call, expectHdr, objects, conn, site, connectionReused, history>>

(* The stream waits at most ten seconds for the answer to Expect; once     *)
(* there is any input, the header is awaited as any other.                 *)
Wait100(timeout) ==
    /\ pc = "wait100"
    /\ timeout => (conn.in = <<>> /\ conn.peer = "up")
    /\ ~timeout => (conn.in # <<>> \/ conn.peer # "up")
    /\ pc' = IF timeout THEN "idle" ELSE "head100"
    /\ use' = IF timeout THEN "body" ELSE use
    /\ UNCHANGED <<opened, url, call, expectHdr, objects, conn, site, connectionReused, history>>

ReadHead100 ==
    /\ pc = "head100"
    /\ response.mode \in HeaderModes \/ (response.mode = "continue" /\ conn.in # <<>>)
    /\ Read
    /\ UNCHANGED <<user, pc, call, expectHdr, request, site, connectionReused, history>>

MayStream ==
    /\ pc = "head100" /\ response.mode = "continue"
    /\ pc' = "idle" /\ use' = "body"
    /\ UNCHANGED <<opened, url, call, expectHdr, objects, conn, site, connectionReused, history>>

Refused417 ==
    /\ pc = "head100" /\ response.mode \notin HeaderModes \cup {"continue"}
    /\ response.status = "417" /\ pc' = "skip417"
    /\ UNCHANGED <<user, call, expectHdr, objects, conn, site, connectionReused, history>>

Again417 ==
    /\ pc = "skip417" /\ response.mode = "eof"
    /\ pso' = Refused(pso) /\ pc' = "create"
    /\ UNCHANGED <<user, op, expectHdr, objects, conn, site, connectionReused, history>>

(* Any other answer is loaded, which ends the body (see Breaks), and       *)
(* thrown as HttpStatusException, which no handler here catches.           *)
RefusedOther ==
    /\ pc = "head100" /\ response.mode \notin HeaderModes \cup {"continue"}
    /\ response.status # "417"
    /\ request' = Nil /\ pc' = "idle" /\ use' = "failed"
    /\ lastError' = [kind |-> "status", at |-> "head100"]
    /\ conn' = [conn EXCEPT !.stage = "idle"]
    /\ UNCHANGED <<opened, url, call, expectHdr, response, site, connectionReused, served, faults>>

(* closeOutput(): the server gets all of the request, unless it is gone or *)
(* has refused it. To close again sends one more empty line.               *)
CloseOutput ==
    /\ pc = "finish"
    /\ request' = [request EXCEPT !.closed = TRUE]
    /\ IF conn.peer = "up" /\ ~request.closed /\ conn.stage # "refused"
       THEN LET way == IF op \in {"finish", "flush"} THEN "stream" ELSE IF connectionReused THEN "reused" ELSE "fresh" IN
            /\ conn' = [conn EXCEPT !.stage = "full", !.n = request.n,
                                    !.expect = IF conn.stage = "head" THEN @ ELSE request.expect]
            /\ served' = [served EXCEPT ![request.n][way] = @ + 1]
       ELSE conn' = (IF request.closed THEN conn ELSE [conn EXCEPT !.stage = "idle"]) /\ UNCHANGED served
    /\ pc' = IF op \in {"sendNoWait", "flush"} THEN "idle" ELSE "load"
    /\ use' = IF op \in {"sendNoWait", "flush"} THEN "sent" ELSE use
    /\ UNCHANGED <<opened, url, call, expectHdr, response, site, connectionReused, lastError, faults>>

(* loadResponse() goes on after 100 Continue until the final header.       *)
Load ==
    /\ pc = "load" /\ response.mode \in HeaderModes \cup {"continue"}
    /\ Read
    /\ UNCHANGED <<user, pc, call, expectHdr, request, site, connectionReused, history>>

(* Mutant: 100 Continue is taken for the response.                         *)
LoadedInterim ==
    /\ pc = "load" /\ response.mode \notin HeaderModes
    /\ request' = Nil /\ pc' = "idle" /\ use' = "done"
    /\ UNCHANGED <<opened, url, call, expectHdr, response, conn, site, connectionReused, history>>

Loaded ==
    /\ pc = "load" /\ response.mode \notin HeaderModes \cup {"continue"}
    /\ request' = Nil /\ pc' = "idle" /\ use' = "done"
    /\ UNCHANGED <<opened, url, call, expectHdr, response, conn, site, connectionReused, history>>

(* An exception of a write or a read.                                      *)
Breaks(kind) ==
    /\ \/ /\ \/ pc \in {"wait100", "finish"}
             \/ pc = "head100" /\ response.mode \notin HeaderModes \cup {"continue"} /\ response.status # "417"
          /\ conn.peer # "up" /\ kind = "net"
       \/ /\ \/ pc = "head100" /\ response.mode \in HeaderModes
             \/ pc = "load" /\ response.mode \in HeaderModes \cup {"continue"}
             \/ pc = "skip417" /\ ~SkipOver
          /\ ReadFails(kind)
    /\ lastError' = [kind |-> kind, at |-> pc]
    /\ pc' = "raise"
    /\ UNCHANGED <<user, call, expectHdr, objects, conn, site, connectionReused, served, faults>>

(* Handlers of exceptions: sendRequest's own, then those of send(),        *)
(* send(body) and sendNoWait(). A reused connection is closed and the same *)
(* is done again; send(body) and sendNoWait() know NetworkException only.  *)
InSendRequest == lastError.at \in {"connect", "skip", "wait100", "head100", "skip417"}
Caught ==
    /\ connectionReused
    /\ \/ InSendRequest
       \/ op = "send"
       \/ op \in {"sendBody", "sendNoWait"} /\ lastError.kind = "net"

Retry ==
    /\ pc = "raise" /\ Caught
    /\ CloseConnection /\ pc' = "create"
    /\ UNCHANGED <<user, call, expectHdr, site, connectionReused, history>>

Throw ==
    /\ pc = "raise" /\ ~Caught
    /\ pc' = "idle"
    /\ use' = IF op = "sendNoWait" /\ lastError.kind = "net" THEN "sent" ELSE "failed"
    /\ UNCHANGED <<opened, url, call, expectHdr, objects, conn, site, connectionReused, history>>

(* receiveResponse() without a request: "Can't read response".             *)
NoRequest ==
    /\ pc = "fail" /\ pc' = "idle" /\ use' = "failed"
    /\ lastError' = [kind |-> "io", at |-> "receive"]
    /\ UNCHANGED <<opened, url, call, expectHdr, objects, conn, site, connectionReused, served, faults>>

(* close(): what cannot be skipped, or was not finished, is dropped.       *)
Closed ==
    /\ op = "close"
    /\ \/ pc = "closed"
       \/ pc = "skip" /\ (SkipOver \/ \E kind \in {"io", "net"} : ReadFails(kind))
    /\ IF request # Nil \/ (pc = "skip" /\ ~SkipOver)
       THEN CloseConnection ELSE UNCHANGED <<objects, conn>>
    /\ pc' = "idle" /\ use' = "new"
    /\ UNCHANGED <<opened, url, call, expectHdr, site, connectionReused, history>>

Client ==
    \/ CreateRequest \/ ConnectFails \/ Skip \/ Skipped \/ SkipFails \/ WriteHead \/ AvoidReuse
    \/ (\E timeout \in BOOLEAN : Wait100(timeout)) \/ ReadHead100 \/ MayStream
    \/ Refused417 \/ Again417 \/ RefusedOther \/ CloseOutput \/ Load \/ Loaded
    \/ (\E kind \in {"io", "net"} : Breaks(kind)) \/ Retry \/ Throw \/ NoRequest \/ Closed

-----------------------------------------------------------------------------
(* The server, at the other end of the connection.                         *)
Server(stages) == conn # Nil /\ conn.peer = "up" /\ conn.stage \in stages
Piece(kind) == [kind |-> kind]
Answer(status, framing, ka) ==
    <<[kind |-> "head", n |-> conn.n, status |-> status, framing |-> framing, ka |-> ka]>> \o
    CASE framing = "none" -> <<>>
      [] framing = "chunked" -> <<Piece("chunk"), Piece("data"), Piece("last"), Piece("crlf")>>
      [] OTHER -> <<Piece("data")>>

ServerContinues ==
    /\ Server({"head", "full"}) /\ conn.expect
    /\ conn' = [conn EXCEPT !.in = Append(@, Piece("100")), !.expect = FALSE]

ServerRefuses(status) ==
    /\ Server({"head", "full"}) /\ conn.expect
    /\ conn' = [conn EXCEPT !.in = @ \o Answer(status, "none", TRUE), !.expect = FALSE,
                            !.stage = IF @ = "head" THEN "refused" ELSE "idle"]

ServerAnswers(framing, ka) ==
    /\ Server({"full"})
    /\ conn' = [conn EXCEPT !.in = @ \o Answer("200", framing, ka), !.stage = "idle", !.expect = FALSE,
                            !.chunked = (@ \/ framing = "chunked"),
                            !.peer = IF framing = "close" \/ ~ka THEN "shut" ELSE @]

ConnectionLost(how) ==
    /\ faults < MaxFaults /\ conn # Nil /\ conn.peer = "up"
    /\ faults' = faults + 1
    /\ \E i \in 0..Len(conn.in) : conn' = [conn EXCEPT !.in = SubSeq(@, 1, i), !.peer = how]

User ==
    \/ \E s \in Sites, tls \in BOOLEAN : Open([site |-> s, tls |-> tls])
    \/ \E o \in {"send", "sendBody", "sendNoWait"} : Send(o)
    \/ \E option \in Options : BeginBody(option)
    \/ Finish \/ Receive \/ ReadBody \/ Close

World ==
    /\ \/ /\ \/ ServerContinues \/ (\E status \in {"417", "403"} : ServerRefuses(status))
             \/ \E framing \in Framings, ka \in BOOLEAN : ServerAnswers(framing, ka)
          /\ UNCHANGED faults
       \/ \E how \in {"shut", "reset"} : ConnectionLost(how)
    /\ UNCHANGED <<user, pc, call, expectHdr, objects, site, connectionReused, served, lastError>>

Next == User \/ Client \/ World

(* Every wait of the client ends, by its timer at the latest, and its      *)
(* thread runs; nothing is assumed of servers.                             *)
Spec == Init /\ [][Next]_vars /\ WF_vars(Client)

-----------------------------------------------------------------------------
TypeOK ==
    /\ opened \in 0..MaxRequests /\ use \in Uses /\ op \in Calls /\ pso \in Options \cup {"avoid417", "force417"}
    /\ pc \in {"idle", "create", "skip", "head", "wait100", "head100", "skip417", "finish",
               "load", "raise", "fail", "closed"}
    /\ expectHdr \in BOOLEAN /\ currentTls \in BOOLEAN /\ connectionReused \in BOOLEAN
    /\ request = Nil \/ request.n \in Requests
    /\ response = Nil \/ response.mode \in HeaderModes \cup {"continue", "chunk", "limited", "unlimited", "eof"}
    /\ served \in [Requests -> [fresh : 0..1, reused : 0..1, stream : 0..1]]
    /\ faults \in 0..MaxFaults

(* When a call returns a response, it is the response to the request that  *)
(* was opened last: neither what an earlier request left on a connection   *)
(* kept alive, nor an interim 100, nor a failed attempt's comes instead    *)
(* (loadResponse, skipRemainBody, closeConnection).                        *)
OwnResponse == pc = "idle" /\ use = "done" => response.n = opened

(* However often connections break, a server gets a whole request at most  *)
(* twice, once over a reused connection and once over a new one, and one   *)
(* whose body the user streams only once (send, send(body), sendNoWait and *)
(* sendRequest repeat only if connectionReused).                           *)
AtMostTwice ==
    \A n \in Requests : /\ served[n].fresh <= 1 /\ served[n].reused <= 1
                        /\ served[n].stream + served[n].fresh <= 1
                        /\ served[n].stream + served[n].reused <= 1

(* A request that has been on a reused connection, or that was to reuse    *)
(* one, fails to its caller in four cases only: the rest of the response   *)
(* before it ended early (createRequest catches NetworkException alone),   *)
(* send(body) met the orderly end of the connection (it does not catch     *)
(* IOException, which send() does), its body was streamed or it was left   *)
(* by a call before, or its response was awaited separately.               *)
StaleErrorsKnown ==
    pc = "idle" /\ use = "failed" /\ op # "read" /\ lastError.kind # "status"
                /\ (connectionReused \/ lastError.at = "skip")
    => \/ lastError.at = "skip"
       \/ op = "sendBody" /\ lastError.kind = "io"
       \/ op \in {"finish", "flush", "receive"}

(* Known defects. "Force 100-continue, report 417 error back to caller"    *)
(* (httpClient.h:73): sendRequest() repeats such a request as well. And    *)
(* "will switch temporaryly to psoAvoid100 when 417 is returned" (line 71):*)
(* the Expect that was refused is still among the headers, is sent again   *)
(* and may be refused again, and now for good.                             *)
ForcedRepeated == pso \in {"force", "force417"}
ExpectKept == pso = "avoid417"

(* Only who has asked for 100-continue gets an Expect into a request, or   *)
(* has it repeated for a 417, whatever came before: attempts that failed,  *)
(* connections made anew, other requests (sendRequest, open).              *)
AskedFor == pso \in {"allow", "favour"} \/ ForcedRepeated
ExpectsKnown ==
    /\ pc = "skip417" => AskedFor
    /\ request # Nil /\ request.expect /\ request.n = opened => AskedFor \/ ExpectKept

(* A request is repeated when it should be, and only then.                 *)
RepeatedRightly == AtMostTwice /\ StaleErrorsKnown /\ ExpectsKnown

(* Known defect. "we have same encryption mode" (httpClient.cpp:395) is    *)
(* asked of currentTls, which a plain connection does not reset (466) and  *)
(* the constructor does not set: an https request may reuse a plain        *)
(* connection, in the clear.                                               *)
StaleTls == connectionReused /\ currentTls /\ ~conn.tls

(* A request travels on a connection to its own site and of its own kind,  *)
(* however the connections before it ended. And the client waits without   *)
(* the ten seconds' timer for an answer to Expect only if the end of an    *)
(* earlier chunked response, which the parser leaves unread, has passed    *)
(* for an answer.                                                          *)
ConnectionFits ==
    /\ TypeOK
    /\ pc \in {"wait100", "head100", "finish", "load"} /\ request # Nil =>
         /\ conn.site = url.site
         /\ conn.tls = url.tls \/ StaleTls
    /\ pc = "head100" /\ response.mode = "status" /\ conn.in = <<>> /\ conn.peer = "up" /\ conn.stage = "head"
         => conn.chunked

(* What a careful user can rely on: responses and connections.             *)
Consistent == OwnResponse /\ ConnectionFits

(* Every call of the user returns or throws: retries end and no wait is    *)
(* without a limit, whatever servers do.                                   *)
CallsEnd == pc # "idle" ~> pc = "idle"
=============================================================================
