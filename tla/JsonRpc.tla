------------------------------- MODULE JsonRpc -------------------------------
(***************************************************************************)
(* The old JSON-RPC server (jsonrpc/jsonRpc.cpp): one POST at a time, whose*)
(* body is a sequence of requests, executed in their order. Server.multi-  *)
(* call calls methods from inside a method, to any depth, and hands the    *)
(* context of one call over to the next. The context of a request is one   *)
(* JSON object that all the calls of a multicall share and change.         *)
(*                                                                         *)
(* Methods are named for what they do; the context has one key.            *)
(***************************************************************************)
EXTENDS Naturals, Sequences, FiniteSets, SequencesExt

CONSTANTS Methods,        \* methods of the user that may be registered
          corsEnabled,    \* enableCORS
          corsOrigin      \* setCORSOrigin: a set of origins or "*"

UserMethods == {"value", "null", "set", "clear", "error", "callError"}

ASSUME MethodsAssumption == Methods \subseteq UserMethods

VARIABLES
    phase,          \* of the handler's thread
    body,           \* the items of the request that is served
    at,             \* the one that is parsed or executed
    stack,          \* multicalls in progress, the innermost last
    nodes,          \* context objects: what their key holds
    ret,            \* CallResult of the call that has just ended
    thrown,         \* the exception under way: the status of RpcCallError, or 500
    replies,        \* replies collected by onData
    written,        \* response body
    status,         \* response status
    headersSent,
    methodMap, obsoleteMap,
    methodListTag   \* the list whose digest was computed last, or NoList

request == <<body, at, replies, written, status, headersSent>>
calls == <<stack, nodes, ret, thrown>>
registry == <<methodMap, obsoleteMap, methodListTag>>
jvars == <<phase, request, calls, registry>>

(* Values of the key: "null" is one, in what a page sends and what a       *)
(* method hands out. A context object 0 is no object.                      *)
Values == {"absent", "null", "v"}

NoList == {"none"}

(* A result is a sequence: of the caller's name, or of a multicall's       *)
(* results and errors.                                                     *)
Null == <<"null">>

Nothing == [result |-> <<>>, error |-> "nil", context |-> "none"]
Failed == [result |-> Null, error |-> "error", context |-> "none"]

JInit ==
    /\ phase = "idle" /\ body = <<>> /\ at = 1
    /\ stack = <<>> /\ nodes = <<>> /\ ret = Nothing /\ thrown = 0
    /\ replies = <<>> /\ written = <<>> /\ status = 200 /\ headersSent = FALSE
    /\ methodMap = Methods /\ obsoleteMap = {} /\ methodListTag = NoList

-----------------------------------------------------------------------------
(* onRequest, initJSONRPC: a request with an Origin that is not allowed is *)
(* refused before its body is read.                                        *)
matchOrigin(origin) ==
    \E o \in origin, allowed \in corsOrigin : o = allowed \/ (allowed = "*" /\ o # "null")

OnRequest(b, origin) ==
    /\ phase = "idle"
    /\ body' = b /\ at' = 1 /\ replies' = <<>> /\ written' = <<>>
    /\ IF corsEnabled /\ origin # {} /\ ~matchOrigin(origin)
       THEN phase' = "end" /\ status' = 403 /\ headersSent' = TRUE
       ELSE phase' = "data" /\ status' = 200 /\ headersSent' = FALSE
    /\ UNCHANGED <<stack, nodes, ret, thrown, registry>>

(* The response is complete: what belongs to the request is gone. *)
Freed ==
    /\ phase' = "idle"
    /\ body' = <<>> /\ at' = 1 /\ replies' = <<>> /\ written' = <<>>
    /\ status' = 200 /\ headersSent' = FALSE /\ nodes' = <<>>
    /\ UNCHANGED <<stack, ret, thrown, registry>>

Item == body[at]

(* JSON::parse throws: onData answers with the error alone. What has been  *)
(* executed before stays executed, its replies are dropped.                *)
DataGarbage ==
    /\ phase = "data" /\ at <= Len(body) /\ Item.kind = "garbage"
    /\ status' = IF headersSent THEN status ELSE 400
    /\ headersSent' = TRUE
    /\ written' = Append(written, [to |-> 0, result |-> Null, error |-> "error", context |-> "none"])
    /\ phase' = "end"
    /\ UNCHANGED <<body, at, replies, calls, registry>>

(* Not an object: replyError writes at once, ahead of collected replies. *)
DataNotObject ==
    /\ phase = "data" /\ at <= Len(body) /\ Item.kind = "nonobject"
    /\ headersSent' = TRUE
    /\ written' = Append(written, [to |-> at, result |-> Null, error |-> "error", context |-> "none"])
    /\ at' = at + 1
    /\ UNCHANGED <<phase, body, replies, status, calls, registry>>

(* parseRequest: the request's context is an object of its own, if any.    *)
(* Without "id" or "method" nothing is executed.                           *)
ParseRequest ==
    /\ phase = "data" /\ at <= Len(body) /\ Item.kind = "request"
    /\ nodes' = IF Item.context = "none" THEN <<>> ELSE <<Item.context>>
    /\ IF Item.id = "missing" THEN phase' = "throw" /\ thrown' = 400
       ELSE phase' = "call" /\ UNCHANGED thrown
    /\ UNCHANGED <<request, stack, ret, registry>>

-----------------------------------------------------------------------------
(* callMethod, by parseRequest or by the innermost multicall. *)
Top == Last(stack)
Current == IF stack = <<>> THEN Item.call ELSE Top.call.args[Len(Top.results) + 1]
Context == IF stack = <<>> THEN Len(nodes) ELSE Top.context
Notify == Item.id = "null"

InCall == phase = "call" /\ (stack # <<>> => Len(Top.results) < Len(Top.call.args))

Return(r) == phase' = "return" /\ ret' = r /\ UNCHANGED thrown
Throw(code) == phase' = "throw" /\ thrown' = code /\ UNCHANGED ret

(* An exception in a method becomes the error of its call, but a           *)
(* notification's, and RpcCallError always, passes through all callers.    *)
Raise == IF Notify THEN Throw(500) ELSE Return(Failed)

(* A method of the user, and the global handlers after it. *)
CallMethod ==
    /\ InCall /\ Current.method \in methodMap
    /\ CASE Current.method = "callError" -> Throw(400)
         [] Current.method = "error" -> Raise
         [] OTHER ->
              Return(IF Notify THEN Nothing
                     ELSE [result |-> IF Current.method = "null" THEN Null ELSE <<Current.by>>,
                           error |-> "null",
                           context |-> CASE Current.method = "set" -> "v"
                                         [] Current.method = "clear" -> "null"
                                         [] OTHER -> "none"])
    /\ UNCHANGED <<request, stack, nodes, registry>>

(* Not found, or registered as obsolete: that is not an exception. *)
CallUnknown ==
    /\ InCall /\ Current.method \notin methodMap \cup {"multicall", "badform"}
    /\ IF Current.method \in obsoleteMap THEN Return(Failed) ELSE Throw(404)
    /\ UNCHANGED <<request, stack, nodes, registry>>

(* rpcMulticall1, rpcMulticallN. Their RpcRequest begins with the caller's *)
(* context object; no arguments at all are an error.                       *)
CallMulticall ==
    /\ InCall /\ Current.method = "multicall"
    /\ IF Current.args = <<>> THEN Raise /\ UNCHANGED stack
       ELSE /\ stack' = Append(stack, [call |-> Current, context |-> Context,
                                       contextOut |-> "none", results |-> <<>>, errors |-> <<>>])
            /\ UNCHANGED <<phase, ret, thrown>>
    /\ UNCHANGED <<request, nodes, registry>>

(* An argument of a multicall that is not a pair of a name and an array:   *)
(* the multicall fails, what it has called stays called.                   *)
BadForm ==
    /\ InCall /\ Current.method = "badform" /\ stack # <<>>
    /\ stack' = Front(stack) /\ Raise
    /\ UNCHANGED <<request, nodes, registry>>

(* A call of a multicall has returned: its context is merged into the      *)
(* object that the next calls see (mergeContext2) and into what the        *)
(* multicall hands out (mergeContext3), which keeps nulls. A notification  *)
(* has no error object to look at.                                         *)
Merged(old, new) == IF new = "null" THEN "absent" ELSE new

MergeContext(new) ==
    LET n == IF Top.context = 0 THEN Len(nodes) + 1 ELSE Top.context
        frame(c, o) == [Top EXCEPT !.context = c, !.contextOut = o,
                          !.results = Append(@, ret.result),
                          !.errors = IF ret.error = "error" THEN Append(@, Current) ELSE @]
    IN  IF new = "none"
        THEN stack' = Append(Front(stack), frame(Top.context, Top.contextOut)) /\ UNCHANGED nodes
        ELSE /\ stack' = Append(Front(stack), frame(n, new))
             /\ nodes' = IF n > Len(nodes) THEN Append(nodes, Merged("absent", new))
                         ELSE [nodes EXCEPT ![n] = Merged(@, new)]

CallReturned ==
    /\ phase = "return" /\ stack # <<>>
    /\ IF ret.error = "nil"
       THEN /\ phase' \in {"throw", "crashed"} /\ thrown' = 500
            /\ UNCHANGED <<stack, nodes>>
       ELSE /\ MergeContext(ret.context)
            /\ phase' = "call" /\ UNCHANGED thrown
    /\ UNCHANGED <<request, ret, registry>>

(* The multicall is through: its results are all there, its errors are     *)
(* those of the calls that failed, in their order, named here by the call. *)
MulticallEnds ==
    /\ phase = "call" /\ stack # <<>> /\ Len(Top.results) = Len(Top.call.args)
    /\ stack' = Front(stack)
    /\ Return(IF Notify THEN Nothing ELSE [result |-> <<Top.results, Top.errors>>, error |-> "null", context |-> Top.contextOut])
    /\ UNCHANGED <<request, nodes, registry>>

-----------------------------------------------------------------------------
(* parseRequest returns to onData: a notification gets no reply, unless it *)
(* failed.                                                                 *)
Reply ==
    /\ phase = "return" /\ stack = <<>>
    /\ replies' = IF ret = Nothing THEN replies
                  ELSE Append(replies, [to |-> at, result |-> ret.result, error |-> ret.error,
                                        context |-> ret.context])
    /\ at' = at + 1 /\ phase' = "data" /\ ret' = Nothing
    /\ UNCHANGED <<body, written, status, headersSent, stack, nodes, thrown, registry>>

(* RpcCallError also sets the status of the response. *)
ReplyException ==
    /\ phase = "throw"
    /\ status' = IF thrown = 500 \/ headersSent THEN status ELSE thrown
    /\ replies' = Append(replies, [to |-> at, result |-> Null, error |-> "error", context |-> "none"])
    /\ at' = at + 1 /\ phase' = "data"
    /\ stack' = <<>> /\ ret' = Nothing /\ thrown' = 0
    /\ UNCHANGED <<body, written, headersSent, nodes, registry>>

(* canRead() is false: the replies are written. *)
SendReplies ==
    /\ phase = "data" /\ at > Len(body)
    /\ written' = written \o replies /\ headersSent' = TRUE
    /\ phase' = "end"
    /\ UNCHANGED <<body, at, replies, status, calls, registry>>

JsonRpcNext ==
    \/ DataGarbage \/ DataNotObject \/ ParseRequest
    \/ CallMethod \/ CallUnknown \/ CallMulticall \/ BadForm \/ CallReturned \/ MulticallEnds
    \/ Reply \/ ReplyException \/ SendReplies

-----------------------------------------------------------------------------
(* registerMethod and eraseMethod, between requests: nothing guards the    *)
(* maps against those who read them. registerMethodObsolete besides.       *)
RegisterMethod(m) ==
    /\ phase = "idle" /\ m \notin methodMap
    /\ methodMap' = methodMap \cup {m}
    /\ UNCHANGED <<phase, request, calls, obsoleteMap, methodListTag>>

EraseMethod(m) ==
    /\ phase = "idle" /\ m \in methodMap
    /\ methodMap' = methodMap \ {m}
    /\ obsoleteMap' \in {obsoleteMap, obsoleteMap \cup {m}}
    /\ UNCHANGED <<phase, request, calls, methodListTag>>

(* dumpMethods: compares the browser's tag (the list it has) with the tag  *)
(* of the list made last, whoever asked for it; else makes the list.       *)
DumpMethods(has) ==
    /\ phase = "idle"
    /\ methodListTag' = IF has # NoList /\ has = methodListTag THEN methodListTag ELSE methodMap
    /\ UNCHANGED <<phase, request, calls, methodMap, obsoleteMap>>
=============================================================================
