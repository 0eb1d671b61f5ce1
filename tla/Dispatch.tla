------------------------------ MODULE Dispatch ------------------------------
(***************************************************************************)
(* jsonrpc::Dispatcher (jsonrpc/dispatch.cpp, methodreg.tcc): a request is *)
(* looked up by its prototype, then by its name; the method answers at     *)
(* once, later, or with an exception; an exception is offered to the       *)
(* handlers of exceptions, one after another, under the read lock of the   *)
(* maps. Whatever happens, the observer of the request makes one response. *)
(*                                                                         *)
(* The answers themselves do not matter: a response is the request's own   *)
(* result, or an error. Other threads register and unregister methods and  *)
(* handlers. External: methods, handlers, LightSpeed's futures (callbacks  *)
(* run in the thread that resolves) and its RWLock, of which the worst is  *)
(* assumed: a writer that waits holds back new readers.                    *)
(***************************************************************************)
EXTENDS Naturals, FiniteSets

CONSTANTS
    Requests,
    Handlers,       \* exception handlers 1 .. Handlers, in the order of the map
    Registrars,     \* threads that register and unregister
    Changes,        \* bound: how many times each of them does
    Reentrant       \* do exception handlers use the dispatcher themselves?

ASSUME DispatchAssumption ==
    /\ Requests \cap {"none", "pending", "failed"} = {}
    /\ Handlers \in Nat /\ Changes \in Nat /\ Reentrant \in BOOLEAN

VARIABLES
    place,      \* how far each request is
    outcome,    \* of the future of each request, see RpcCalls
    handler,    \* exception handler whose turn it is
    methodMap, exceptionMap,    \* keys that are registered
    readers, queue,             \* mapLock: those inside, and writers that wait
    changes

dvars == <<place, outcome, handler, methodMap, exceptionMap, readers, queue, changes>>

(* "find": in callMethod; "run": the method; "pending", "late": a future of*)
(* the method or of an exception handler is awaited; "reject", "handlers": *)
(* dispatchException, before and under the read lock; "nested": a handler  *)
(* that waits for the lock itself.                                         *)
Steps == {"idle", "find", "findName", "malformed", "run", "pending", "reject", "handlers", 
          "nested", "late", "done"}

DispatchTypeOK ==
    /\ place \in [Requests -> Steps]
    /\ outcome \in [Requests -> {"none", "pending", "failed"} \cup Requests]
    /\ handler \in [Requests -> 1 .. Handlers + 1]
    /\ methodMap \subseteq {"prototype", "name"} /\ exceptionMap \subseteq 1 .. Handlers
    /\ readers \subseteq Requests /\ queue \subseteq Registrars
    /\ changes \in [Registrars -> 0 .. Changes]

DispatchInit ==
    /\ place = [r \in Requests |-> "idle"]
    /\ outcome = [r \in Requests |-> "none"]
    /\ handler = [r \in Requests |-> 1]
    /\ methodMap = {"name"} /\ exceptionMap = 1 .. Handlers
    /\ readers = {} /\ queue = {}
    /\ changes = [w \in Registrars |-> 0]

Go(r, step) == place' = [place EXCEPT ![r] = step]
Resolve(r, o) == outcome' = [outcome EXCEPT ![r] = o] /\ Go(r, "done")
maps == <<methodMap, exceptionMap, queue, changes>>
MayRead == queue = {}


(* dispatchMessage; what is no request fails without further ado.          *)
Call(r) ==
    /\ place[r] = "idle"
    /\ outcome' = [outcome EXCEPT ![r] = "pending"]
    /\ \E step \in {"find", "malformed"} : Go(r, step)
    /\ UNCHANGED <<handler, readers, maps>>

Malformed(r) ==
    /\ place[r] = "malformed"
    /\ Resolve(r, "failed")
    /\ UNCHANGED <<handler, readers, maps>>

(* callMethod, findMethod: two lookups, each under the lock; what is found *)
(* is kept by a counted pointer.                                           *)
Find(r) ==
    /\ place[r] \in {"find", "findName"} /\ MayRead
    /\ Go(r, IF place[r] = "find"
             THEN IF "prototype" \in methodMap THEN "run" ELSE "findName"
             ELSE IF "name" \in methodMap THEN "run" ELSE "reject")
    /\ UNCHANGED <<outcome, handler, readers, maps>>

(* The method returns a value (or a null future, which stands for false),  *)
(* throws, or returns a future.                                            *)
Run(r) ==
    /\ place[r] = "run"
    /\ \/ Resolve(r, r)
       \/ \E step \in {"pending", "reject"} : Go(r, step) /\ UNCHANGED outcome
    /\ UNCHANGED <<handler, readers, maps>>

(* The future of the method is resolved, by any thread. Mutant: an         *)
(* exception is the answer, and is offered to the handlers as well.        *)
ResultTwice(r) ==
    /\ place[r] = "pending"
    /\ outcome' = [outcome EXCEPT ![r] = IF Handlers > 0 THEN "failed" ELSE r]
    /\ Go(r, "reject")
    /\ UNCHANGED <<handler, readers, maps>>

Result(r) ==
    /\ place[r] = "pending"
    /\ \/ Resolve(r, r)
       \/ Go(r, "reject") /\ UNCHANGED outcome
    /\ UNCHANGED <<handler, readers, maps>>

(* dispatchException: unless the dispatcher is gone, the handlers are      *)
(* asked.                                                                  *)
Translate(r) ==
    /\ place[r] = "reject" /\ MayRead
    /\ readers' = readers \cup {r}
    /\ Go(r, "handlers") /\ handler' = [handler EXCEPT ![r] = 1]
    /\ UNCHANGED <<outcome, maps>>

(* A handler returns nothing, a result or exception, or a future. When     *)
(* none is left, the exception is the answer. Mutant: the lock is not given *)
(* back then.                                                              *)
HandleKeepsLock(r) ==
    /\ place[r] = "handlers"
    /\ IF handler[r] > Handlers
       THEN Resolve(r, "failed") /\ UNCHANGED <<handler, readers>>
       ELSE \/ handler' = [handler EXCEPT ![r] = @ + 1] /\ UNCHANGED <<place, outcome, readers>>
            \/ /\ handler[r] \in exceptionMap /\ readers' = readers \ {r}
               /\ (Resolve(r, r) \/ Resolve(r, "failed") \/ (Go(r, "late") /\ UNCHANGED outcome))
               /\ UNCHANGED handler
    /\ UNCHANGED maps

Handle(r) ==
    /\ place[r] = "handlers"
    /\ IF handler[r] > Handlers
       THEN Resolve(r, "failed") /\ readers' = readers \ {r} /\ UNCHANGED handler
       ELSE \/ handler' = [handler EXCEPT ![r] = @ + 1] /\ UNCHANGED <<place, outcome, readers>>
            \/ /\ handler[r] \in exceptionMap /\ readers' = readers \ {r}
               /\ (Resolve(r, r) \/ Resolve(r, "failed") \/ (Go(r, "late") /\ UNCHANGED outcome))
               /\ UNCHANGED handler
            \/ /\ handler[r] \in exceptionMap /\ Reentrant
               /\ Go(r, "nested") /\ UNCHANGED <<handler, outcome, readers>>
    /\ UNCHANGED maps

(* The handler asks the dispatcher, with a second read lock.               *)
Nested(r) ==
    /\ place[r] = "nested" /\ MayRead
    /\ Go(r, "handlers") /\ handler' = [handler EXCEPT ![r] = @ + 1]
    /\ UNCHANGED <<outcome, readers, maps>>

(* The future of the exception handler: its outcome is the answer.         *)
Late(r) ==
    /\ place[r] = "late"
    /\ Resolve(r, r) \/ Resolve(r, "failed")
    /\ UNCHANGED <<handler, readers, maps>>

(* regMethodHandler, unregMethod, regExceptionHandler, unregExceptionHandler. *)
Register(w) ==
    /\ changes[w] < Changes /\ w \notin queue /\ queue' = queue \cup {w}
    /\ UNCHANGED <<place, outcome, handler, methodMap, exceptionMap, readers, changes>>

Registered(w) ==
    /\ w \in queue /\ readers = {}
    /\ queue' = queue \ {w} /\ changes' = [changes EXCEPT ![w] = @ + 1]
    /\ \/ \E m \in {"prototype", "name"}, on \in BOOLEAN :
            /\ methodMap' = IF on THEN methodMap \cup {m} ELSE methodMap \ {m}
            /\ UNCHANGED exceptionMap
       \/ \E h \in 1 .. Handlers, on \in BOOLEAN :
            /\ exceptionMap' = IF on THEN exceptionMap \cup {h} ELSE exceptionMap \ {h}
            /\ UNCHANGED methodMap
    /\ UNCHANGED <<place, outcome, handler, readers>>

Locked(r) == Find(r) \/ Translate(r) \/ Nested(r)
Works(r) == Malformed(r) \/ Run(r) \/ Handle(r)
Later(r) == Result(r) \/ Late(r)

DispatchNext ==
    \/ \E r \in Requests : Locked(r) \/ Works(r) \/ Later(r)
    \/ \E w \in Registrars : Register(w) \/ Registered(w)

(* Methods and handlers return, their futures are resolved (idispatch.h    *)
(* asks for that), nobody is overtaken forever at the lock.                *)
DispatchFairness ==
    /\ \A r \in Requests : SF_dvars(Locked(r)) /\ WF_dvars(Works(r)) /\ WF_dvars(Later(r))
    /\ \A w \in Registrars : SF_dvars(Registered(w))

-----------------------------------------------------------------------------
(* The handlers of exceptions stay what they are while one of them runs.   *)
HandlersHold == [][exceptionMap' # exceptionMap => \A r \in Requests : place[r] \notin {"handlers", "nested"}]_dvars

(* Every request is answered once, with its own result or an error, which  *)
(* the handlers make that were there when the first of them was asked.     *)
Answers == INSTANCE RpcCalls WITH Calls <- Requests, outcome <- outcome
AnsweredOnce == Answers!Spec /\ HandlersHold

(* A handler that uses the dispatcher while another thread waits to        *)
(* register something: each waits for the other.                           *)
Deadlock == queue # {} /\ \E r \in Requests : place[r] = "nested"

(* Every request is answered in the end, but for that deadlock.            *)
EveryRequestAnswered ==
    \A r \in Requests : outcome[r] = "pending" ~> outcome[r] # "pending" \/ Deadlock
=============================================================================
