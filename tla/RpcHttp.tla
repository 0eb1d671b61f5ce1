------------------------------- MODULE RpcHttp -------------------------------
(***************************************************************************)
(* JSON-RPC over HTTP POST: jsonrpc::HttpHandler (jsonrpc/httpHandler.cpp) *)
(* on the events of HttpReqImpl (processHandlerResponse), with the         *)
(* dispatcher behind it. The body of one POST holds requests one after     *)
(* another, as the batching client sends them; what is left at its end, or *)
(* in between, may not parse. A request is dispatched in the connection's  *)
(* thread; when its result is not there, the connection sleeps until the   *)
(* thread that resolves it wakes it up. A wake-up that comes before the    *)
(* sleep is kept (external: ITCPServerConnControl).                        *)
(***************************************************************************)
EXTENDS Dispatch, Sequences

CONSTANTS
    Body,       \* the requests, in their order in the body
    Garbage     \* bound: pieces of the body that do not parse

ASSUME BodyAssumption ==
    /\ Body \in Seq(Requests) /\ Garbage \in Nat
    /\ Requests \cap {"page", "error"} = {}
    /\ \A i, j \in DOMAIN Body : Body[i] = Body[j] => i = j

VARIABLES
    thread,     \* what the connection does
    at,         \* position of the request dispatched last
    garbage,    \* pieces that did not parse
    headerSent, closeConn,
    written,    \* what has been written, in order
    observed,   \* is wakeUpConnection to be called with the result?
    awake       \* has it been called?

hvars == <<thread, at, garbage, headerSent, closeConn, written, observed, awake>>
vars == <<hvars, dvars>>

Places == {"request", "data", "dispatch", "respond", "sleep", "end"}
Items == Requests \cup {"page", "error"}

TypeOK ==
    /\ DispatchTypeOK
    /\ thread \in Places /\ at \in Nat /\ garbage \in 0 .. Garbage
    /\ \A b \in {headerSent, closeConn, observed, awake} : b \in BOOLEAN
    /\ written \in Seq(Items)

Init ==
    /\ DispatchInit
    /\ thread = "request" /\ at = 0 /\ garbage = 0
    /\ headerSent = FALSE /\ closeConn = FALSE
    /\ written = <<>>
    /\ observed = FALSE /\ awake = FALSE

(* onRequest and onPOST: a context is made, the body is awaited.           *)
Post ==
    /\ thread = "request"
    /\ thread' = "data"
    /\ UNCHANGED <<at, garbage, headerSent, closeConn, written, observed, awake, dvars>>

(* evDataReady, the next request: it is parsed, its header goes out, it is *)
(* dispatched. The body's order is the requests' order.                    *)
DataReady ==
    /\ thread = "data"
    /\ at < Len(Body) /\ at' = at + 1
    /\ headerSent' = TRUE
    /\ Call(Body[at + 1])
    /\ thread' = "dispatch"
    /\ UNCHANGED <<garbage, closeConn, written, observed, awake>>

(* Mutant: what does not parse is answered as the request before it.       *)
DataGarbageAgain ==
    /\ thread = "data"
    /\ garbage < Garbage /\ garbage' = garbage + 1
    /\ headerSent' = TRUE
    /\ written' = IF at = 0 THEN written ELSE Append(written, Body[at])
    /\ UNCHANGED <<thread, at, closeConn, observed, awake, dvars>>

(* What does not parse: errorPage(400) when no header has been sent; then  *)
(* the function goes on with nothing in its hands. It fails on that, or    *)
(* dispatches it and writes the error response as well.                    *)
DataGarbage ==
    /\ thread = "data"
    /\ garbage < Garbage /\ garbage' = garbage + 1
    /\ headerSent' = TRUE /\ closeConn' = TRUE
    /\ LET page == IF headerSent THEN <<>> ELSE <<"page">>
       IN  \/ written' = written \o page \o <<"error">> /\ UNCHANGED thread
           \/ written' = written \o page /\ thread' = "end"
    /\ UNCHANGED <<at, observed, awake, dvars>>

(* A method whose name is not a string, or anything thrown: HttpReqImpl    *)
(* answers or cuts off, and closes.                                       *)
DataThrows ==
    /\ thread = "data" /\ at < Len(Body)
    /\ headerSent' = TRUE /\ closeConn' = TRUE
    /\ written' = IF headerSent THEN written ELSE Append(written, "page")
    /\ thread' = "end"
    /\ UNCHANGED <<at, garbage, observed, awake, dvars>>

(* dispatchMessage returns when the request waits for somebody else, or    *)
(* its result is there.                                                    *)
Returned ==
    /\ thread = "dispatch" /\ place[Body[at]] \in {"pending", "late", "done"}
    /\ thread' = "respond"
    /\ UNCHANGED <<at, garbage, headerSent, closeConn, written, observed, awake, dvars>>

(* sendResponse: the result is written, or its coming is observed.         *)
SendResponse ==
    /\ thread = "respond"
    /\ IF place[Body[at]] = "done"
       THEN written' = Append(written, Body[at]) /\ thread' = "data" /\ UNCHANGED observed
       ELSE observed' = TRUE /\ thread' = "sleep" /\ UNCHANGED written
    /\ UNCHANGED <<at, garbage, headerSent, closeConn, awake, dvars>>

(* wakeUpConnection, the callback of the result.                           *)
WakeUp ==
    /\ observed /\ place[Body[at]] = "done"
    /\ observed' = FALSE /\ awake' = TRUE
    /\ UNCHANGED <<thread, at, garbage, headerSent, closeConn, written, dvars>>

(* evUserWakeup: sendResponse. *)
Wakened ==
    /\ thread = "sleep" /\ awake
    /\ awake' = FALSE
    /\ thread' = "respond"
    /\ UNCHANGED <<at, garbage, headerSent, closeConn, written, observed, dvars>>

(* The body is at its end: evEndOfStream, stOK. Without any data in it the *)
(* event of the request is repeated, which is an error 500.                *)
EndOfStream ==
    /\ thread = "data" /\ at = Len(Body)
    /\ thread' = "end"
    /\ written' = IF headerSent THEN written ELSE Append(written, "page")
    /\ headerSent' = TRUE
    /\ UNCHANGED <<at, garbage, closeConn, observed, awake, dvars>>

(* The client hangs up: the context is destroyed, the result is cancelled. *)
Disconnect ==
    /\ thread \in {"data", "sleep"}
    /\ thread' = "end" /\ closeConn' = TRUE /\ observed' = FALSE /\ awake' = FALSE
    /\ UNCHANGED <<at, garbage, headerSent, written, dvars>>

Serves == \/ Post \/ DataReady \/ DataGarbage \/ DataThrows \/ Returned \/ SendResponse
          \/ WakeUp \/ Wakened \/ EndOfStream

Next ==
    \/ Serves \/ Disconnect
    \/ DispatchNext /\ UNCHANGED hvars

Spec == Init /\ [][Next]_vars

FairSpec == Spec /\ DispatchFairness /\ WF_vars(Serves)

-----------------------------------------------------------------------------
(* The responses written are those of the first n requests, each once, in  *)
(* the order of the body.                                                  *)
AnsweredUpTo(n) ==
    /\ \A k \in 1 .. n : \E i \in DOMAIN written : written[i] = Body[k]
    /\ \A i \in DOMAIN written : written[i] \in Requests =>
         \E k \in 1 .. n : /\ written[i] = Body[k]
                          /\ \A j \in 1 .. i - 1 : written[j] \in Requests =>
                               \E m \in 1 .. k - 1 : written[j] = Body[m]

(* Each request gets its response, in the order of the body, once, after   *)
(* nothing but responses; a page comes first or not at all, and what comes *)
(* after it goes to a connection that is going to close.                   *)
ResponsesOfRequests ==
    /\ AnsweredUpTo(at) \/ (at # 0 /\ AnsweredUpTo(at - 1))
    /\ \A i \in DOMAIN written : written[i] = "page" => i = 1
    /\ (\E i \in DOMAIN written : written[i] = "error") => closeConn

(* No thread wakes up a connection that has ended.                         *)
NoLateWakeUp == thread = "end" => ~observed /\ ~awake

(* Types, wake-ups and responses together.                                 *)
Consistent == TypeOK /\ NoLateWakeUp /\ ResponsesOfRequests

(* A connection that sleeps is woken when the result is there, unless the  *)
(* dispatcher is in its deadlock.                                          *)
SleepersWoken == thread = "sleep" ~> thread # "sleep" \/ Deadlock

(* Every request is answered, and its connection goes on with it.          *)
AllServed == EveryRequestAnswered /\ SleepersWoken
=============================================================================
