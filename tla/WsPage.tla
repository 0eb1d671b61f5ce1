------------------------------- MODULE WsPage -------------------------------
(***************************************************************************)
(* The WebSocket client for web pages (resources/wsrpc.js): calls wait in  *)
(* idtable for their responses, are sent once the connection is open, and  *)
(* sent again when it had to be made anew. The handlers of a WebSocket     *)
(* serve the client whatever connection it has by now: events of one that  *)
(* was given up are taken for the present one's.                           *)
(*                                                                         *)
(* WebSockets are numbered in the order they are made. The browser raises  *)
(* one event at a time; send() throws while the socket connects, and does  *)
(* nothing once it closes.                                                 *)
(***************************************************************************)
EXTENDS Naturals, Sequences, FiniteSets, SequencesExt

CONSTANTS Script,       \* bound: calls of the page, in the order it makes them
          MaxSockets,   \* bound: WebSockets made
          MaxFaults,    \* bound: connections that fail or break
          MaxConnects,  \* bound: calls of connect() by the page
          MaxCloses,    \* bound: calls of close() by the page
          MaxAsked      \* bound: requests of the server

PageCalls == Range(Script)

(* Answers of the page to requests of the server, by their numbers. *)
Replies == [as : {"error", "result", "stray"}, to : Nat]

Admissible ==
    /\ Script \in Seq(PageCalls) /\ MaxSockets \in Nat
    /\ \A c \in PageCalls : c \notin Nat /\ c \notin Replies /\ c \notin {"none", "pending", "failed"}

ASSUME PageAssumption == Admissible

VARIABLES
    connection,      \* its WebSocket, or 0
    opened, reconnectIfNeed,
    idtable,         \* calls that wait for their response
    dialogs,         \* onConnectionErrors that have not resolved yet
    socket,          \* readyState of each WebSocket made; "broken" before its event
    fromPage, toPage,\* messages under way
    fate,            \* of each call's promise
    executed,        \* how often the server has executed the call
    promised,        \* requests whose client methods' promises have not resolved yet
    answers,         \* of the page to requests of the server, as the server reads them
    asked,           \* requests of the server, and the sockets they were sent to
    connects, closes, faults, retries

bounds == <<asked, connects, closes, faults, retries>>
client == <<connection, opened, reconnectIfNeed, idtable, dialogs>>
wires == <<socket, fromPage, toPage>>
calls == <<fate, executed>>
pageVars == <<client, wires, calls, promised, answers, bounds>>

Sockets == DOMAIN socket

PageInit ==
    /\ connection = 0 /\ opened = FALSE /\ reconnectIfNeed = FALSE
    /\ idtable = {} /\ dialogs = 0
    /\ socket = <<>> /\ fromPage = <<>> /\ toPage = <<>>
    /\ fate = [c \in PageCalls |-> "none"] /\ executed = [c \in PageCalls |-> 0]
    /\ promised = {} /\ answers = <<>> /\ asked = <<>>
    /\ connects = 0 /\ closes = 0 /\ faults = 0 /\ retries = 0

Rejected(cs) == [c \in PageCalls |-> IF c \in cs /\ fate[c] = "pending" THEN "failed"
                                        ELSE fate[c]]

-----------------------------------------------------------------------------
(* connect, when connection is null: a new WebSocket. *)
NewSocket(sockets) ==
    /\ Len(sockets) < MaxSockets
    /\ socket' = Append(sockets, "connecting")
    /\ fromPage' = Append(fromPage, <<>>) /\ toPage' = Append(toPage, <<>>)
    /\ connection' = Len(sockets) + 1 /\ reconnectIfNeed' = TRUE

(* this.connect *)
Connect ==
    /\ connects < MaxConnects /\ connects' = connects + 1
    /\ connection = 0 /\ NewSocket(socket)
    /\ UNCHANGED <<opened, idtable, dialogs, fate, executed, promised, answers, asked, closes, faults, retries>>

(* Mutant: requests are thrown away without telling their callers. *)
CleanupForgets(keeprq) ==
    /\ opened' = FALSE
    /\ IF keeprq THEN UNCHANGED <<idtable, fate>> ELSE idtable' = {} /\ UNCHANGED fate

(* cleanup, cancelRequests. The connection is given up, not closed. *)
Cleanup(keeprq) ==
    /\ opened' = FALSE
    /\ IF keeprq THEN UNCHANGED <<idtable, fate>>
       ELSE idtable' = {} /\ fate' = Rejected(idtable)

(* this.close; without a connection it throws, but has forbidden to        *)
(* reconnect.                                                              *)
Close ==
    /\ closes < MaxCloses /\ closes' = closes + 1
    /\ reconnectIfNeed' = FALSE
    /\ IF connection = 0 THEN UNCHANGED <<socket, connection, opened, idtable, fate>>
       ELSE /\ socket' = [socket EXCEPT ![connection] = IF @ \in {"connecting", "open"} THEN "closing" ELSE @]
            /\ connection' = 0 /\ Cleanup(FALSE)
    /\ UNCHANGED <<dialogs, fromPage, toPage, executed, promised, answers, asked, connects, faults, retries>>

-----------------------------------------------------------------------------
(* The socket that send() would use; it throws where there is none, or one *)
(* that is not open yet.                                                   *)
Throws(sockets) == connection = 0 \/ sockets[connection] = "connecting"

Sent(sockets, messages) ==
    IF ~Throws(sockets) /\ sockets[connection] = "open"
    THEN [fromPage EXCEPT ![connection] = @ \o messages]
    ELSE fromPage

(* callMethod. An exception of send() rejects the promise, the request     *)
(* stays in the table.                                                     *)
CallMethod(c) ==
    /\ fate[c] = "none" /\ SelectSeq(Script, LAMBDA d : fate[d] = "none")[1] = c
    /\ idtable' = idtable \cup {c}
    /\ fate' = [fate EXCEPT ![c] = IF opened /\ Throws(socket) THEN "failed" ELSE "pending"]
    /\ fromPage' = IF opened THEN Sent(socket, <<c>>) ELSE fromPage
    /\ UNCHANGED <<connection, opened, reconnectIfNeed, dialogs, socket, toPage, executed, promised, answers, bounds>>

(* The orders in which for (... in ...) may name requests.                 *)
Orders(cs) ==
    {order \in UNION {[1..n -> cs] : n \in 0..Len(Script)} : Range(order) = cs /\ IsInjective(order)}

(* onOpen, resendRequests: whatever socket it was that opened.             *)
OnOpen(s) ==
    /\ socket[s] = "connecting"
    /\ socket' = [socket EXCEPT ![s] = "open"]
    /\ opened' = TRUE
    /\ \E order \in Orders(idtable) : fromPage' = Sent(socket', order)
    /\ UNCHANGED <<connection, reconnectIfNeed, idtable, dialogs, toPage, fate, executed, promised,
                   answers, bounds>>

(* Mutant: the client reconnects at once, and sends again what it has sent.*)
OnCloseAtOnce(s) ==
    /\ socket[s] \in {"closing", "broken"}
    /\ LET sockets == [socket EXCEPT ![s] = "closed"]
       IN  IF reconnectIfNeed
           THEN Cleanup(TRUE) /\ NewSocket(sockets) /\ UNCHANGED dialogs
           ELSE /\ socket' = sockets
                /\ UNCHANGED <<dialogs, connection, opened, reconnectIfNeed, idtable, fromPage, toPage, fate>>
    /\ UNCHANGED <<executed, promised, answers, bounds>>

(* onClose, of any socket: without open requests the client reconnects at  *)
(* once, else it asks the user.                                            *)
OnClose(s) ==
    /\ socket[s] \in {"closing", "broken"}
    /\ LET sockets == [socket EXCEPT ![s] = "closed"]
       IN  IF reconnectIfNeed /\ idtable = {}
           THEN Cleanup(FALSE) /\ NewSocket(sockets) /\ UNCHANGED dialogs
           ELSE /\ socket' = sockets
                /\ dialogs' = dialogs + (IF reconnectIfNeed THEN 1 ELSE 0)
                /\ UNCHANGED <<connection, opened, reconnectIfNeed, idtable, fromPage, toPage, fate>>
    /\ UNCHANGED <<executed, promised, answers, bounds>>

(* onConnectionError resolves, after a while: retry or not, the client     *)
(* connects, also one that the page has closed in the meantime.            *)
Resolve(retry) ==
    /\ dialogs > 0 /\ dialogs' = dialogs - 1
    /\ retries' = retries + (IF retry THEN 1 ELSE 0)
    /\ Cleanup(retry) /\ NewSocket(socket)
    /\ UNCHANGED <<executed, promised, answers, asked, connects, closes, faults>>

-----------------------------------------------------------------------------
(* onMessage, onServerResponse: the response of a call. *)
OnResponse(s) ==
    /\ socket[s] = "open" /\ toPage[s] # <<>> /\ Head(toPage[s]) \in PageCalls
    /\ LET c == Head(toPage[s])
       IN  /\ idtable' = idtable \ {c}
           /\ fate' = IF c \in idtable /\ fate[c] = "pending" THEN [fate EXCEPT ![c] = c]
                      ELSE fate
    /\ toPage' = [toPage EXCEPT ![s] = Tail(@)]
    /\ UNCHANGED <<connection, opened, reconnectIfNeed, dialogs, socket, fromPage, executed, promised,
                   answers, bounds>>

(* onClientMethod: a request of the server. It answers  *)
(* only if it knows the method, and takes a result for an error and an     *)
(* error for a result (sendClientResponse); on the present connection.     *)
OnRequest(s) ==
    /\ socket[s] = "open" /\ toPage[s] # <<>> /\ Head(toPage[s]) \notin PageCalls
    /\ LET n == Head(toPage[s])
           m == asked[n].method
       IN  /\ fromPage' = CASE m = "succeeds" -> Sent(socket, <<[as |-> "error", to |-> n]>>)
                            [] m = "fails" -> Sent(socket, <<[as |-> "result", to |-> n]>>)
                            [] OTHER -> fromPage
           /\ promised' = promised \cup (IF m = "promises" THEN {n} ELSE {})
    /\ toPage' = [toPage EXCEPT ![s] = Tail(@)]
    /\ UNCHANGED <<client, socket, calls, answers, bounds>>

(* A promise of a client method resolves: bind(id, ...) has bound this to  *)
(* the id, so the answer goes out under another id, and on the connection  *)
(* the client has by now.                                                  *)
PromiseResolves(n) ==
    /\ promised' = promised \ {n}
    /\ fromPage' = Sent(socket, <<[as |-> "stray", to |-> n]>>)
    /\ UNCHANGED <<client, socket, toPage, calls, answers, bounds>>

-----------------------------------------------------------------------------
(* The server handles the messages of a connection in their order. *)
Serve(s) ==
    /\ socket[s] \in {"open", "closing"} /\ fromPage[s] # <<>>
    /\ LET m == Head(fromPage[s])
       IN  IF m \in PageCalls
           THEN /\ executed' = [executed EXCEPT ![m] = @ + 1]
                /\ toPage' = [toPage EXCEPT ![s] = Append(@, m)]
                /\ UNCHANGED answers
           ELSE /\ answers' = Append(answers, [by |-> s, as |-> m.as, to |-> m.to])
                /\ UNCHANGED <<executed, toPage>>
    /\ fromPage' = [fromPage EXCEPT ![s] = Tail(@)]
    /\ UNCHANGED <<client, socket, fate, promised, bounds>>

Ask(s, m) ==
    /\ Len(asked) < MaxAsked /\ socket[s] = "open"
    /\ asked' = Append(asked, [on |-> s, method |-> m])
    /\ toPage' = [toPage EXCEPT ![s] = Append(@, Len(asked) + 1)]
    /\ UNCHANGED <<client, socket, fromPage, fate, executed, promised, answers, connects, closes, faults, retries>>

(* A connection is not made, or breaks; what is under way is lost. *)
Break(s) ==
    /\ faults < MaxFaults /\ faults' = faults + 1
    /\ socket[s] \in {"connecting", "open"}
    /\ socket' = [socket EXCEPT ![s] = "broken"]
    /\ fromPage' = [fromPage EXCEPT ![s] = <<>>] /\ toPage' = [toPage EXCEPT ![s] = <<>>]
    /\ UNCHANGED <<client, fate, executed, promised, answers, asked, connects, closes, retries>>

Browser ==
    \/ \E s \in Sockets : OnOpen(s) \/ OnClose(s) \/ OnResponse(s) \/ OnRequest(s) \/ Serve(s)
    \/ \E retry \in BOOLEAN : Resolve(retry)
    \/ \E n \in promised : PromiseResolves(n)

PageNext ==
    \/ Browser
    \/ Connect \/ Close
    \/ \E c \in PageCalls : CallMethod(c)
    \/ \E s \in Sockets : Break(s) \/ \E m \in {"succeeds", "fails", "promises", "unknown"} : Ask(s, m)

PageSpec == PageInit /\ [][PageNext]_pageVars

(* The browser raises its events, the server serves, the user answers the  *)
(* dialog.                                                                 *)
PageFairSpec == PageSpec /\ WF_pageVars(Browser)

-----------------------------------------------------------------------------
Live(s) == socket[s] \in {"connecting", "open"}
Pending == {c \in PageCalls : fate[c] = "pending"}

PageTypeOK ==
    /\ connection \in 0..Len(socket) /\ {opened, reconnectIfNeed} \subseteq BOOLEAN
    /\ \A s \in Sockets : socket[s] \in {"connecting", "open", "closing", "broken", "closed"}
    /\ idtable \subseteq PageCalls

(* While the page does not close the client, there is one connection at    *)
(* most, it is the client's own, and open when the client says so.         *)
OneConnection ==
    closes = 0 => /\ \A s \in Sockets : Live(s) => s = connection
                  /\ connection # 0 /\ Live(connection) => (opened <=> socket[connection] = "open")
                  /\ dialogs <= 1

(* A call whose promise is open is in the table; one that is executed      *)
(* twice was sent again with the user's consent.                           *)
ConsentedRepeats == closes = 0 => \A c \in PageCalls : executed[c] <= 1 + retries

(* A request of the server is answered once at most and, while the page    *)
(* does not close the client, on the connection it came by: by an error if *)
(* the method succeeds, by a result if it fails, never if it is unknown,   *)
(* under another's id and wherever the client is by then if it promises.   *)
Fits(as, by, q) ==
    \/ as = "stray" /\ q.method = "promises"
    \/ /\ closes = 0 => by = q.on
       /\ \/ as = "error" /\ q.method = "succeeds"
          \/ as = "result" /\ q.method = "fails"

Answered ==
    /\ \A i, j \in DOMAIN answers : answers[i].to = answers[j].to => i = j
    /\ \A i \in DOMAIN answers :
          answers[i].to \in DOMAIN asked /\ Fits(answers[i].as, answers[i].by, asked[answers[i].to])

(* The client keeps one connection, answers where it was asked, repeats    *)
(* calls only when told to, and forgets none that waits.                   *)
PageConsistent == PageTypeOK /\ OneConnection /\ ConsentedRepeats /\ Answered /\ Pending \subseteq idtable

(* The client has no connection and nothing is about to make one.          *)
Dormant == connection = 0 /\ dialogs = 0

(* Each call is settled, also across lost connections; a call of a client  *)
(* that is not connected waits for the page's connect(), and a client that *)
(* has used up the instance's sockets cannot connect again.                *)
EverySettled ==
    \A c \in PageCalls : fate[c] = "pending" ~> fate[c] # "pending" \/ Dormant \/ Len(socket) = MaxSockets

=============================================================================
