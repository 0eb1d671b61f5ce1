-------------------------------- MODULE WsRpc --------------------------------
(***************************************************************************)
(* The older JSON-RPC peer over WebSockets (jsonrpc/jsonRpcWebsockets.cpp) *)
(* with the collector of connections (jsonrpc/wscollector.tcc), on top of  *)
(* the permits for busy threads (BusyThreads).                             *)
(*                                                                         *)
(* Three kinds of locks meet here: the recursive lock of each connection,  *)
(* held while a message is handled and while anything is written; the      *)
(* collector's _lock, held while forEach visits its members; and the busy  *)
(* permits, which a thread gives back and takes again when a write has to  *)
(* wait (ConnHandler::wait). The pointers of the collector are plain: a    *)
(* connection leaves it by the callback of its onClose() future.           *)
(*                                                                         *)
(* External: the peers, the handlers' code (which signs in and off, calls  *)
(* the peer, broadcasts), LightSpeed's locks and futures: callbacks run in *)
(* the thread that resolves, at once if the future is resolved already;    *)
(* an erased registration takes its callback along and waits for nothing.  *)
(***************************************************************************)
EXTENDS Naturals, FiniteSets

CONSTANTS
    Conns,      \* connections, each with the server's thread that handles it
    Jobs,       \* other threads that broadcast
    MaxBusy,
    CallbackBroadcasts  \* do callbacks of calls broadcast?

ASSUME WsRpcAssumption ==
    /\ IsFiniteSet(Conns) /\ IsFiniteSet(Jobs) /\ Conns \cap Jobs = {} /\ Conns # {}
    /\ MaxBusy \in Nat \ {0}
    /\ CallbackBroadcasts \in BOOLEAN

Actors == Conns \cup Jobs

VARIABLES
    pc,         \* where each thread is, see Places
    task,       \* what it writes, or closes, for
    target,     \* the connection it does that to
    todo, toRemove,     \* locals of forEach
    inText,     \* readers inside onTextMessage's own lock, in a callback
    lock,       \* of each connection, its holders
    collector,  \* holders of the collector's _lock
    members, resolved, freed,   \* connections: in the collector, with onClose()
                                \* resolved, destroyed
    asked,      \* connections with a call sent and its promise in the table
    permits

locals == <<task, target, todo, toRemove, inText>>
conns == <<members, resolved, freed, asked>>
vars == <<pc, locals, lock, collector, conns, permits>>

(* "own", "relock", "member", "closing" wait for the lock of a connection, *)
(* "collect", "signin", "signoff", "remove" for the collector's; "stuck"   *)
(* does so holding it. "write" holds the target's lock, "poll" and         *)
(* "rewait" are the wait inside a write.                                   *)
Places == {"idle", "enter", "own", "text", "handler", "relock", "leave", "collect", "each",
           "member", "write", "poll", "rewait", "drop", "remove", "closing", "signin",
           "signoff", "stuck"}

TypeOK ==
    /\ pc \in [Actors -> Places]
    /\ task \in [Actors -> {"none", "each", "call", "response", "destroy"}]
    /\ target \in [Actors -> Conns]
    /\ todo \in [Actors -> SUBSET Conns] /\ toRemove \in [Actors -> SUBSET Conns]
    /\ inText \subseteq Conns
    /\ lock \in [Conns -> SUBSET Actors] /\ collector \subseteq Actors
    /\ \A s \in {members, resolved, freed, asked} : s \subseteq Conns
    /\ permits \in Nat

Init ==
    /\ pc = [a \in Actors |-> "idle"]
    /\ task = [a \in Actors |-> "none"]
    /\ target = [a \in Actors |-> IF a \in Conns THEN a ELSE CHOOSE x \in Conns : TRUE]
    /\ todo = [a \in Actors |-> {}] /\ toRemove = [a \in Actors |-> {}]
    /\ inText = {}
    /\ lock = [x \in Conns |-> {}] /\ collector = {}
    /\ members = {} /\ resolved = {} /\ freed = {} /\ asked = {}
    /\ permits = MaxBusy

Goto(a, place) == pc' = [pc EXCEPT ![a] = place]
Aim(a, x, why) == target' = [target EXCEPT ![a] = x] /\ task' = [task EXCEPT ![a] = why]
Free(x, a) == lock[x] \subseteq {a}
Take(x, a) == Free(x, a) /\ lock' = [lock EXCEPT ![x] = {a}]
Release(x, a) == lock' = [lock EXCEPT ![x] = IF a = x /\ a \in inText THEN {a} ELSE {}]

(* The first resolution of onClose() calls removeConnection, when the      *)
(* connection is a member. Mutant: nobody has registered.                  *)
ResolveOnly(a, x, why) ==
    /\ resolved' = resolved \cup {x}
    /\ Aim(a, x, why)
    /\ Goto(a, "closing")
    /\ UNCHANGED <<todo, inText, members, freed, asked>>

Resolve(a, x, why) ==
    /\ resolved' = resolved \cup {x}
    /\ Aim(a, x, why)
    /\ Goto(a, IF x \in members \ resolved THEN "remove" ELSE "closing")
    /\ UNCHANGED <<todo, inText, members, freed, asked>>

-----------------------------------------------------------------------------
(* The connection's thread *)

Event(x) ==
    /\ pc[x] = "idle" /\ x \notin freed
    /\ Goto(x, "enter")
    /\ UNCHANGED <<locals, lock, collector, conns, permits>>

(* A text message; or the stream has ended, and the object is destroyed.   *)
Enter(x) ==
    /\ pc[x] = "enter" /\ permits > 0 /\ permits' = permits - 1
    /\ \/ Goto(x, "own") /\ UNCHANGED <<locals, conns>>
       \/ Resolve(x, x, "destroy") /\ UNCHANGED toRemove
    /\ UNCHANGED <<lock, collector>>

(* onTextMessage. *)
OwnLock(x) ==
    /\ pc[x] = "own" /\ Take(x, x)
    /\ Goto(x, "text")
    /\ UNCHANGED <<locals, collector, conns, permits>>

Request(x) ==
    /\ pc[x] = "text"
    /\ Release(x, x)
    /\ Goto(x, "handler")
    /\ UNCHANGED <<locals, collector, conns, permits>>

(* A response: the promise is found, erased and settled, its callbacks run *)
(* under the lock.                                                         *)
Response(x) ==
    /\ pc[x] = "text" /\ x \in asked
    /\ asked' = asked \ {x}
    /\ \/ CallbackBroadcasts /\ Goto(x, "collect") /\ inText' = inText \cup {x} /\ UNCHANGED lock
       \/ Goto(x, "leave") /\ Release(x, x) /\ UNCHANGED inText
    /\ UNCHANGED <<task, target, todo, toRemove, collector, members, resolved, freed, permits>>

(* What the handler may do: sign in or off, broadcast, call the peer; then *)
(* the lock is taken again.                                                *)
Handler(x) ==
    /\ pc[x] = "handler"
    /\ \/ \E place \in {"signin", "signoff", "collect", "relock"} :
            Goto(x, place) /\ UNCHANGED locals
       \/ /\ x \notin asked
          /\ Goto(x, "member") /\ Aim(x, x, "call")
          /\ UNCHANGED <<todo, toRemove, inText>>
    /\ UNCHANGED <<lock, collector, conns, permits>>

(* The response is written under the lock, unless it was a notification.   *)
Relock(x) ==
    /\ pc[x] = "relock"
    /\ \/ Take(x, x) /\ Goto(x, "write") /\ Aim(x, x, "response")
       \/ Free(x, x) /\ Goto(x, "leave") /\ UNCHANGED <<lock, target, task>>
    /\ UNCHANGED <<todo, toRemove, inText, collector, conns, permits>>

(* Mutant: the permit is kept. *)
LeaveLocked(x) ==
    /\ pc[x] = "leave"
    /\ Goto(x, "idle")
    /\ UNCHANGED <<locals, lock, collector, conns, permits>>

Leave(x) ==
    /\ pc[x] = "leave"
    /\ permits' = permits + 1
    /\ Goto(x, "idle")
    /\ UNCHANGED <<locals, lock, collector, conns>>

-----------------------------------------------------------------------------
(* Writing: sendPrepared, callAsync, the response. *)

LockTarget(a) ==
    /\ pc[a] = "member" /\ Take(target[a], a)
    /\ Goto(a, "write")
    /\ UNCHANGED <<locals, collector, conns, permits>>

(* The frame is written; callAsync inserts its promise under the same lock.*)
Written(a) ==
    /\ pc[a] = "write"
    /\ Release(target[a], a)
    /\ Goto(a, CASE task[a] = "each" -> "each" [] task[a] = "call" -> "handler"
                 [] task[a] = "response" -> "leave")
    /\ asked' = IF task[a] = "call" THEN asked \cup {a} ELSE asked
    /\ UNCHANGED <<locals, collector, members, resolved, freed, permits>>

(* It throws: forEach notes the member, a handler goes on, after a failed  *)
(* response the connection is closed and destroyed.                        *)
WriteFails(a) ==
    /\ pc[a] = "write"
    /\ Release(target[a], a)
    /\ IF task[a] = "response" THEN Resolve(a, a, "destroy") /\ UNCHANGED toRemove
       ELSE /\ Goto(a, IF task[a] = "each" THEN "each" ELSE "handler")
            /\ toRemove' = IF task[a] # "each" THEN toRemove
                           ELSE [toRemove EXCEPT ![a] = @ \cup {target[a]}]
            /\ UNCHANGED <<task, target, todo, inText, conns>>
    /\ UNCHANGED <<collector, permits>>

(* The write has to wait: ConnHandler::wait. *)
WriteWaits(a) ==
    /\ pc[a] = "write"
    /\ permits' = permits + 1
    /\ Goto(a, "poll")
    /\ UNCHANGED <<locals, lock, collector, conns>>

EndPoll(a) ==
    /\ pc[a] = "poll"
    /\ Goto(a, "rewait")
    /\ UNCHANGED <<locals, lock, collector, conns, permits>>

EndWait(a) ==
    /\ pc[a] = "rewait" /\ permits > 0 /\ permits' = permits - 1
    /\ Goto(a, "write")
    /\ UNCHANGED <<locals, lock, collector, conns>>

-----------------------------------------------------------------------------
(* The collector *)

Broadcast(j) ==
    /\ pc[j] = "idle" /\ Goto(j, "collect")
    /\ UNCHANGED <<locals, lock, collector, conns, permits>>

(* forEach takes the lock, visits the members, and lets go of the lock.    *)
ForEach(a) ==
    /\ pc[a] = "collect" /\ collector = {} /\ collector' = {a}
    /\ todo' = [todo EXCEPT ![a] = members]
    /\ Goto(a, "each")
    /\ UNCHANGED <<task, target, toRemove, inText, lock, conns, permits>>

Visit(a) ==
    /\ pc[a] = "each"
    /\ IF todo[a] = {}
       THEN collector' = {} /\ Goto(a, "drop") /\ UNCHANGED <<task, target, todo>>
       ELSE \E x \in todo[a] :
              /\ todo' = [todo EXCEPT ![a] = @ \ {x}]
              /\ Aim(a, x, "each") /\ Goto(a, "member")
              /\ UNCHANGED collector
    /\ UNCHANGED <<toRemove, inText, lock, conns, permits>>

(* Then it drops the members that failed, by the pointers it has noted.    *)
(* Mutant: before it lets go of the lock.                                  *)
DropUnderLock(a) ==
    /\ pc[a] = "each" /\ toRemove[a] # {}
    /\ \E x \in toRemove[a] :
         /\ toRemove' = [toRemove EXCEPT ![a] = @ \ {x}]
         /\ Resolve(a, x, "each")
    /\ UNCHANGED <<lock, collector, permits>>

Drop(a) ==
    /\ pc[a] = "drop" /\ toRemove[a] # {}
    /\ \E x \in toRemove[a] :
         /\ toRemove' = [toRemove EXCEPT ![a] = @ \ {x}]
         /\ Resolve(a, x, "each")
    /\ UNCHANGED <<lock, collector, permits>>

ForEachReturns(a) ==
    /\ pc[a] = "drop" /\ toRemove[a] = {}
    /\ IF a \in inText
       THEN inText' = inText \ {a} /\ lock' = [lock EXCEPT ![a] = {}] /\ Goto(a, "leave")
       ELSE Goto(a, IF a \in Jobs THEN "idle" ELSE "handler") /\ UNCHANGED <<inText, lock>>
    /\ UNCHANGED <<task, target, todo, toRemove, collector, conns, permits>>

(* removeConnection, from the callback of onClose(). *)
RemoveConnection(a) ==
    /\ pc[a] = "remove" /\ collector = {}
    /\ members' = members \ {target[a]}
    /\ Goto(a, "closing")
    /\ UNCHANGED <<locals, lock, collector, resolved, freed, asked, permits>>

(* dropConnection and the destructor, the part under the lock. *)
Close(a) ==
    /\ pc[a] = "closing" /\ Free(target[a], a)
    /\ IF task[a] = "destroy"
       THEN Goto(a, "leave") /\ freed' = freed \cup {a} /\ asked' = asked \ {a}
       ELSE Goto(a, "drop") /\ UNCHANGED <<freed, asked>>
    /\ UNCHANGED <<locals, lock, collector, members, resolved, permits>>

(* signIn registers for onClose() under the lock. On a future that is      *)
(* resolved the callback runs at once, and waits for the lock.             *)
SignIn(x) ==
    /\ pc[x] = "signin" /\ collector = {}
    /\ IF x \in resolved \ members
       THEN collector' = {x} /\ Goto(x, "stuck") /\ UNCHANGED members
       ELSE members' = members \cup {x} /\ Goto(x, "handler") /\ UNCHANGED collector
    /\ UNCHANGED <<locals, lock, resolved, freed, asked, permits>>

SignOff(x) ==
    /\ pc[x] = "signoff" /\ collector = {}
    /\ members' = members \ {x}
    /\ Goto(x, "handler")
    /\ UNCHANGED <<locals, lock, collector, resolved, freed, asked, permits>>

-----------------------------------------------------------------------------
Reads(x) == Event(x) \/ Enter(x) \/ OwnLock(x) \/ Request(x) \/ Response(x) \/ Handler(x) \/ Relock(x)
            \/ Leave(x) \/ SignIn(x) \/ SignOff(x)

Writes(a) == LockTarget(a) \/ Written(a) \/ WriteFails(a) \/ WriteWaits(a) \/ EndPoll(a)
             \/ EndWait(a)

Collects(a) == ForEach(a) \/ Visit(a) \/ Drop(a) \/ ForEachReturns(a) \/ RemoveConnection(a) \/ Close(a)

Next ==
    \/ \E x \in Conns : Reads(x)
    \/ \E j \in Jobs : Broadcast(j)
    \/ \E a \in Actors : Writes(a) \/ Collects(a)

Spec == Init /\ [][Next]_vars

-----------------------------------------------------------------------------
(* The permits are used as BusyThreads says: its theorems about them hold  *)
(* here.                                                                   *)
BusyPc(a) == IF pc[a] \in {"enter", "poll", "rewait"} THEN pc[a]
             ELSE IF pc[a] = "idle" /\ a \in Conns THEN "idle" ELSE "run"

Busy == INSTANCE BusyThreads WITH
    Handlers <- Conns, Outsiders <- Jobs, MaxDepth <- 0, WaitInSection <- FALSE,
    permits <- permits, pc <- [a \in Actors |-> BusyPc(a)], depth <- [x \in Conns |-> 0]

PermitsUsedRightly == Busy!BusySpec

(* What a thread waits for: the holders of a lock, itself, or all those    *)
(* who have a permit.                                                      *)
HasPermit == {x \in Conns : BusyPc(x) = "run"}
WaitsFor(a) ==
    CASE pc[a] \in {"own", "relock"} -> lock[a] \ {a}
      [] pc[a] \in {"member", "closing"} -> lock[target[a]] \ {a}
      [] pc[a] \in {"collect", "signin", "signoff", "remove"} -> collector
      [] pc[a] = "stuck" -> {a}
      [] pc[a] \in {"enter", "rewait"} /\ permits = 0 -> HasPermit
      [] OTHER -> {}

Deadlocked(as) == as # {} /\ \A a \in as : WaitsFor(a) # {} /\ WaitsFor(a) \subseteq as

(* Threads block each other for ever in three ways only: one has signed in *)
(* a connection that was closed already; one waits for a permit with a     *)
(* lock in its hands; one broadcasts from a callback of a call, with the   *)
(* connection's lock in its hands.                                         *)
KnownDeadlocks ==
    \A as \in SUBSET Actors : Deadlocked(as) =>
        \E a \in as : \/ pc[a] \in {"stuck", "rewait"}
                      \/ a \in inText

(* The collector "can automatically remove the closed connections"         *)
(* (wscollector.h:32): as long as a closed connection is a member, whoever *)
(* closes it, some thread is on its way to remove it.                      *)
ClosedLeaves == \A x \in members \cap resolved : \E a \in Actors : pc[a] = "remove" /\ target[a] = x

(* Known defect. "Object also ensures, that code will not use already      *)
(* closed or destroyed connection" (wscollector.h:36): forEach drops the   *)
(* members that failed by plain pointers, without the lock                 *)
(* (wscollector.tcc:72), when they may be destroyed already. And a drop    *)
(* that has to wait for the lock lets the destructor pass, which finds     *)
(* onClose() resolved: the dead connection is a member till the drop goes  *)
(* on, and other broadcasts visit it.                                      *)
OvertakenDrop(x) == \E a \in Actors : pc[a] = "remove" /\ target[a] = x /\ task[a] = "each"

(* But for these drops nobody comes to a destroyed connection: it is not a *)
(* member, and nobody writes to it or waits for its lock.                  *)
Uses(a, x) == target[a] = x /\ pc[a] \in {"member", "write", "poll", "rewait"}
NoDeadUse ==
    \A x \in freed : (x \in members \/ \E a \in Actors : Uses(a, x)) => OvertakenDrop(x)

(* Types, the members of the collector and the use of dead ones together.  *)
Consistent == TypeOK /\ ClosedLeaves /\ NoDeadUse
=============================================================================
