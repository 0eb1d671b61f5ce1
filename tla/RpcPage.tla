------------------------------- MODULE RpcPage -------------------------------
(***************************************************************************)
(* The client for web pages (resources/rpc.js) on the old server: one      *)
(* request at a time; calls made meanwhile are collected and sent as one   *)
(* Server.multicall, whose results are dealt out by position. Page and     *)
(* server each keep the context. The page's methods are those of the list  *)
(* that it has loaded from the server. Others post bodies of their own.    *)
(***************************************************************************)
EXTENDS JsonRpc

CONSTANTS Script,        \* bound: calls of the page, in the order it makes them
          Changing,      \* methods that the server's user erases and registers
          Bodies,        \* what others post
          PageOrigin,    \* the page's Origin
          MaxEvents      \* bound: faults, posts of others and changes of methods

(* Others post what they like; with a context of the values modelled here. *)
ASSUME RpcPageAssumption ==
    /\ Script \in Seq(Range(Script)) /\ Changing \subseteq UserMethods
    /\ Range(Script) \cap {"none", "pending", "failed", "request", "null"} = {}
    /\ \A b \in Bodies : b \in Seq(Range(b)) /\ \A i \in DOMAIN b : b[i].context \in Values \cup {"none"}

VARIABLES
    requests,        \* calls collected
    scheduled,       \* sheduleRequests chained to exchangePromise
    batch,           \* calls of the request under way
    xhr,             \* the request: "idle", "sent", "served" or "deal"
    dealt,           \* results dealt out, and errors among them
    context,         \* this.context
    methods,         \* the list loaded, NoList before
    method,          \* of each call made
    outcome,         \* of its promise
    reason,          \* what it was rejected with: the error of a call, or
                     \* "request" for all of the request
    faults, posts, changes,
    shifted,         \* calls dealt with at or after a result that is null
    agreed,          \* the server's context at its last answer to the page
    leaked           \* a nested multicall of the request has changed the context
                     \* and failed

page == <<requests, scheduled, batch, xhr, dealt, context, methods, method, outcome, reason>>
bounds == <<faults, posts, changes>>
history == <<shifted, agreed, leaked>>
Calls == Range(Script)
MayHappen == faults + posts + changes < MaxEvents

rpcVars == <<jvars, page, bounds, history>>

RpcInit ==
    /\ JInit
    /\ requests = <<>> /\ scheduled = 0 /\ batch = <<>> /\ xhr = "idle"
    /\ dealt = [results |-> 0, errors |-> 0]
    /\ context = "absent" /\ methods = NoList
    /\ method = [c \in Calls |-> "none"] /\ outcome = [c \in Calls |-> "none"]
    /\ reason = [c \in Calls |-> "none"]
    /\ faults = 0 /\ posts = 0 /\ changes = 0
    /\ shifted = {} /\ agreed = "absent" /\ leaked = FALSE

-----------------------------------------------------------------------------
(* The page links the script with the list, which its cache may hold. *)
LoadMethods ==
    /\ xhr = "idle" /\ requests = <<>> /\ methods \in {NoList, methodListTag}
    /\ DumpMethods(methods)
    /\ methods' = methodListTag'
    /\ UNCHANGED <<requests, scheduled, batch, xhr, dealt, context, method, outcome, reason,
                   bounds, history>>

(* doCall, for a method of the list. *)
DoCall(c, m) ==
    /\ xhr # "deal" /\ m \in methods /\ outcome[c] = "none"
    /\ SelectSeq(Script, LAMBDA d : outcome[d] = "none")[1] = c
    /\ method' = [method EXCEPT ![c] = m]
    /\ outcome' = [outcome EXCEPT ![c] = "pending"]
    /\ requests' = Append(requests, c)
    /\ scheduled' = scheduled + (IF requests = <<>> THEN 1 ELSE 0)
    /\ UNCHANGED <<jvars, batch, xhr, dealt, context, methods, reason, bounds, history>>

(* sheduleRequest, when the exchange before is over. *)
SheduleRequest ==
    /\ xhr = "idle" /\ scheduled > 0
    /\ scheduled' = scheduled - 1
    /\ batch' = requests /\ requests' = <<>>
    /\ xhr' = IF requests = <<>> THEN "idle" ELSE "sent"
    /\ dealt' = [results |-> 0, errors |-> 0]
    /\ UNCHANGED <<jvars, context, methods, method, outcome, reason, bounds, history>>

Leaf(c) == [method |-> method[c], by |-> c, args |-> <<>>]

(* Mutant: requests are popped, their promises shifted. *)
RequestReversed ==
    [kind |-> "request", id |-> "number", context |-> context,
     call |-> IF Len(batch) = 1 THEN Leaf(batch[1])
              ELSE [method |-> "multicall", by |-> "page",
                    args |-> [i \in DOMAIN batch |-> Leaf(Reverse(batch)[i])]]]

(* doCall2: the request as the server sees it. *)
PageRequest ==
    [kind |-> "request", id |-> "number", context |-> context,
     call |-> IF Len(batch) = 1 THEN Leaf(batch[1])
              ELSE [method |-> "multicall", by |-> "page",
                    args |-> [i \in DOMAIN batch |-> Leaf(batch[i])]]]

Arrives ==
    /\ xhr = "sent"
    /\ OnRequest(<<PageRequest>>, PageOrigin)
    /\ xhr' = "served"
    /\ UNCHANGED <<requests, scheduled, batch, dealt, context, methods, method, outcome, reason,
                   bounds, history>>

-----------------------------------------------------------------------------
PageResponse == written[1]
Succeeds == phase = "end" /\ status = 200 /\ PageResponse.error # "error"

(* updateContext: a null of the server is stored (it tests the key, not    *)
(* the value).                                                             *)
updateContext(new) == IF new = "none" THEN context ELSE new

(* What the server's calls have made of the context. *)
ServerContext ==
    IF Len(batch) > 1 \/ PageResponse.context = "none" THEN nodes[1]
    ELSE Merged(nodes[1], PageResponse.context)

ResponseOk ==
    /\ xhr = "served" /\ Succeeds
    /\ xhr' = "deal" /\ context' = updateContext(PageResponse.context)
    /\ agreed' = ServerContext
    /\ phase' = "dealt"
    /\ UNCHANGED <<request, calls, registry, requests, scheduled, batch, dealt, methods, method,
                   outcome, reason, bounds, shifted, leaked>>

(* Whose result it is. *)
ResultOf(result, c) == IF result = Null THEN c ELSE result[1]

(* The only call gets its result. *)
DealOne ==
    /\ xhr = "deal" /\ Len(batch) = 1
    /\ outcome' = [outcome EXCEPT ![batch[1]] = ResultOf(PageResponse.result, batch[1])]
    /\ xhr' = "idle" /\ batch' = <<>> /\ Freed
    /\ UNCHANGED <<requests, scheduled, dealt, context, methods, method, reason, bounds, history>>

(* Mutant: the error is looked up at the position of the result. *)
DealManyByPosition ==
    /\ xhr = "deal" /\ Len(batch) > 1 /\ dealt.results < Len(batch)
    /\ LET i == dealt.results + 1
           c == batch[i]
           results == PageResponse.result[1]
           errors == PageResponse.result[2]
       IN  /\ outcome' = [outcome EXCEPT ![c] = IF results[i] = Null THEN "failed" ELSE ResultOf(results[i], c)]
           /\ reason' = IF results[i] # Null THEN reason
                        ELSE [reason EXCEPT ![c] = IF i <= Len(errors) THEN errors[i].by ELSE "undefined"]
           /\ dealt' = [dealt EXCEPT !.results = i]
           /\ shifted' = IF method[c] = "null" THEN shifted \cup {batch[j] : j \in i..Len(batch)}
                         ELSE shifted
    /\ UNCHANGED <<jvars, requests, scheduled, batch, xhr, context, methods, method, bounds, agreed, leaked>>

(* Result by result; a null stands for the next error. *)
DealMany ==
    /\ xhr = "deal" /\ Len(batch) > 1 /\ dealt.results < Len(batch)
    /\ LET i == dealt.results + 1
           c == batch[i]
           results == PageResponse.result[1]
           errors == PageResponse.result[2]
           e == dealt.errors + 1
       IN  IF results[i] = Null
           THEN /\ outcome' = [outcome EXCEPT ![c] = "failed"]
                /\ reason' = [reason EXCEPT ![c] = IF e <= Len(errors) THEN errors[e].by ELSE "undefined"]
                /\ dealt' = [results |-> i, errors |-> e]
                /\ shifted' = IF method[c] = "null" THEN shifted \cup {batch[j] : j \in i..Len(batch)}
                              ELSE shifted
           ELSE /\ outcome' = [outcome EXCEPT ![c] = ResultOf(results[i], c)]
                /\ dealt' = [dealt EXCEPT !.results = i]
                /\ UNCHANGED <<reason, shifted>>
    /\ UNCHANGED <<jvars, requests, scheduled, batch, xhr, context, methods, method, bounds, agreed, leaked>>

DealtAll ==
    /\ xhr = "deal" /\ Len(batch) > 1 /\ dealt.results = Len(batch)
    /\ xhr' = "idle" /\ batch' = <<>> /\ Freed
    /\ UNCHANGED <<requests, scheduled, dealt, context, methods, method, outcome, reason, bounds,
                   history>>

(* Mutant: only the first call of the request is told. *)
RejectsFirst ==
    /\ xhr = "reject"
    /\ LET c == batch[1]
       IN  /\ outcome' = [outcome EXCEPT ![c] = "failed"]
           /\ reason' = [reason EXCEPT ![c] = IF Len(batch) = 1 THEN c ELSE "request"]
    /\ xhr' = "idle" /\ batch' = <<>>
    /\ UNCHANGED <<jvars, requests, scheduled, dealt, context, methods, method, bounds, history>>

-----------------------------------------------------------------------------
(* The calls of a request are rejected, with the request's error, one by   *)
(* one.                                                                    *)
Rejects ==
    /\ xhr = "reject"
    /\ LET c == batch[dealt.results + 1]
       IN  /\ outcome' = [outcome EXCEPT ![c] = "failed"]
           /\ reason' = [reason EXCEPT ![c] = IF Len(batch) = 1 THEN c ELSE "request"]
    /\ IF dealt.results + 1 = Len(batch)
       THEN xhr' = "idle" /\ batch' = <<>> /\ UNCHANGED dealt
       ELSE dealt' = [dealt EXCEPT !.results = @ + 1] /\ UNCHANGED <<xhr, batch>>
    /\ UNCHANGED <<jvars, requests, scheduled, context, methods, method, bounds, history>>

(* A response with an error. *)
ResponseError ==
    /\ xhr = "served" /\ phase = "end" /\ status = 200 /\ ~Succeeds
    /\ xhr' = "reject" /\ Freed
    /\ UNCHANGED <<requests, scheduled, batch, dealt, context, methods, method, outcome, reason,
                   bounds, history>>

(* onConnectionError: after a 404 the request has failed; after any other  *)
(* status the user may have it sent again.                                 *)
OnConnectionError(code) ==
    \/ xhr' = "reject" /\ UNCHANGED faults
    \/ code # 404 /\ MayHappen /\ faults' = faults + 1 /\ xhr' = "sent"

ResponseStatus ==
    /\ xhr = "served" /\ phase = "end" /\ status # 200
    /\ OnConnectionError(status) /\ Freed
    /\ UNCHANGED <<requests, scheduled, batch, dealt, context, methods, method, outcome, reason,
                   posts, changes, history>>

(* The connection breaks under the request or the response. *)
Breaks ==
    /\ MayHappen
    /\ \/ xhr = "sent" /\ UNCHANGED jvars
       \/ xhr = "served" /\ phase = "end" /\ Freed
    /\ \/ xhr' = "reject" /\ faults' = faults + 1
       \/ xhr' = "sent" /\ faults' = faults + 1
    /\ UNCHANGED <<requests, scheduled, batch, dealt, context, methods, method, outcome, reason,
                   posts, changes, history>>

-----------------------------------------------------------------------------
(* Others post, and the user of the server changes its methods. *)
OthersPost(b, origin) ==
    /\ MayHappen /\ posts' = posts + 1
    /\ OnRequest(b, origin)
    /\ UNCHANGED <<page, faults, changes, history>>

OthersEnd ==
    /\ phase = "end" /\ xhr # "served" /\ Freed
    /\ UNCHANGED <<page, bounds, history>>

MethodsChange(m) ==
    /\ MayHappen /\ changes' = changes + 1
    /\ RegisterMethod(m) \/ EraseMethod(m)
    /\ UNCHANGED <<page, faults, posts, history>>

(* A nested multicall fails half way: the context keeps what it has done. *)
Leaks == InCall /\ Current.method = "badform" /\ Len(stack) > 1 /\ Top.contextOut # "none"

Serves ==
    /\ JsonRpcNext
    /\ leaked' = (phase # "data" /\ (leaked \/ Leaks))
    /\ UNCHANGED <<page, bounds, shifted, agreed>>

PageNext ==
    \/ SheduleRequest \/ Arrives \/ ResponseOk \/ DealOne \/ DealMany \/ DealtAll
    \/ Rejects \/ ResponseError \/ ResponseStatus \/ OthersEnd

RpcNext ==
    \/ Serves \/ PageNext \/ Breaks \/ LoadMethods
    \/ \E c \in Calls, m \in Methods \cup Changing : DoCall(c, m)
    \/ \E b \in Bodies, origin \in {{}, {"null"}, {"elsewhere"}} : OthersPost(b, origin)
    \/ \E m \in Changing : MethodsChange(m)

RpcSpec == RpcInit /\ [][RpcNext]_rpcVars

(* The server serves, the browser runs the page, requests arrive.          *)
RpcFairSpec == RpcSpec /\ WF_rpcVars(Serves) /\ WF_rpcVars(PageNext)

-----------------------------------------------------------------------------
RpcTypeOK ==
    /\ phase \in {"idle", "data", "call", "return", "throw", "end", "dealt", "crashed"}
    /\ xhr \in {"idle", "sent", "served", "deal", "reject"}
    /\ context \in Values /\ \A n \in DOMAIN nodes : nodes[n] \in Values
    /\ methodMap \cup obsoleteMap \subseteq Methods \cup Changing
    /\ scheduled \in 0..1

(* Answers m to n are those to the items, one each and in their order.     *)
Answers(answers, m, n, items) ==
    /\ {answers[i].to : i \in m..n} = items
    /\ \A i, j \in m..n : i < j => answers[i].to < answers[j].to

(* Each request of a body is answered once, in the order of the body; what *)
(* is not a request is answered first; a notification only when it failed. *)
(* Unless the body ends in garbage: then that is all the client learns.    *)
RepliesOfRequests ==
    phase = "end" /\ status # 403 =>
      \E n \in 0..Len(written) :
         /\ Answers(written, 1, n, {i \in DOMAIN body : i < at /\ body[i].kind = "nonobject"})
         /\ IF at <= Len(body) THEN Len(written) = n + 1 /\ written[n + 1].to = 0
            ELSE LET replied == {written[i].to : i \in n + 1..Len(written)}
                 IN  Answers(written, n + 1, Len(written),
                        {i \in DOMAIN body : body[i].kind = "request" /\ (body[i].id = "null" => i \in replied)})
         /\ \A i \in n + 1..Len(written) :
               written[i].to > 0 /\ body[written[i].to].id = "null" => written[i].error = "error"

(* A multicall that succeeds tells its client all that its calls have done *)
(* to the context: what the client makes of it is what the last call would *)
(* have seen. But what a nested multicall that fails has done stays in the *)
(* object, and is not told. The page knows the context that the server has *)
(* left it.                                                                *)
ContextTold ==
    /\ phase = "return" /\ stack = <<>> /\ Item.call.method = "multicall" /\ Item.context # "none"
       /\ ret.error = "null" /\ ~leaked
       => nodes[1] = IF ret.context = "none" THEN Item.context
                     ELSE Merged(Item.context, ret.context)
    /\ context = agreed \/ {context, agreed} = {"null", "absent"}

(* The page's list is the one that the server would give, or the methods   *)
(* have changed since the list was made.                                   *)
ListKnown == methods # NoList /\ changes = 0 => methods = methodMap

(* A call is settled with its own result, its own error or that of the     *)
(* whole request, but for those at or after a result that is null in their *)
(* multicall.                                                              *)
OwnOutcome ==
    \A c \in Calls \ shifted :
       /\ outcome[c] = "failed" => reason[c] \in {c, "request"}
       /\ outcome[c] = c => method[c] \notin {"error", "callError"}

(* Replies, contexts, the list of methods and outcomes are as said above,  *)
(* whatever the page calls, others post, and fails (jsonRpc.cpp, rpc.js).  *)
RpcConsistent == RpcTypeOK /\ RepliesOfRequests /\ ContextTold /\ ListKnown /\ OwnOutcome

(* Each call of the page is settled at most once. *)
Promises == INSTANCE RpcCalls WITH Calls <- Calls, outcome <- outcome
EachCallOnce == Promises!Spec

(* Each call is settled in the end, whatever fails, but for a server that  *)
(* a multicall as a notification has crashed.                              *)
EverySettled ==
    \A c \in Calls : outcome[c] = "pending" ~> outcome[c] # "pending" \/ phase = "crashed"
=============================================================================
