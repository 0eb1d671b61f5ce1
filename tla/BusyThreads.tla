---------------------------- MODULE BusyThreads ----------------------------
(***************************************************************************)
(* The semaphore that limits how many threads of the HTTP server are busy  *)
(* at a time: httpserver/busyThreadsControl.cpp, with the places that use  *)
(* it: ConnHandler::processEvent (one permit per event being handled),     *)
(* IHttpRequestInfo::SectionIO (a handler gives its permit back around     *)
(* blocking operations; sections nest) and ConnHandler::wait (the network  *)
(* stream calls it when a read or a write would block).                    *)
(*                                                                         *)
(* Handlers are the threads of the TCP server; a thread works on one       *)
(* connection at a time, so the connection's LockStatus is the thread's.   *)
(* Outsiders are threads that write to a connection without handling an    *)
(* event of it (a notification sent from a job thread): they come through  *)
(* ConnHandler::wait as well, since the wait handler belongs to the stream.*)
(* The semaphore itself is LightSpeed's (external): lock() blocks while    *)
(* the count is zero.                                                      *)
(***************************************************************************)
EXTENDS Naturals, FiniteSets

CONSTANTS
    Handlers,       \* threads of the server that handle events
    Outsiders,      \* other threads that write to connections
    MaxBusy,        \* "busyThreads" of the configuration
    MaxDepth,       \* bound on the nesting of I/O sections
    WaitInSection   \* does a handler use the network inside an I/O section?

Admissible ==
    /\ IsFiniteSet(Handlers) /\ IsFiniteSet(Outsiders)
    /\ Handlers \cap Outsiders = {}
    /\ MaxBusy \in Nat \ {0}
    /\ MaxDepth \in Nat
    /\ WaitInSection \in BOOLEAN

ASSUME BusyAssumption == Admissible

VARIABLES
    permits,    \* count of the semaphore
    pc,         \* what each thread does
    depth       \* LockStatus::counter of the connection a handler works on

busyVars == <<permits, pc, depth>>

Users == Handlers \cup Outsiders

\* "enter":  blocked in semaphore.lock() of processEvent
\* "run":    executing the handler (an outsider: its own code)
\* "relock": blocked in lock(status) at the end of the outermost section
\* "poll":   waiting for the network, inside ConnHandler::wait
\* "rewait": network ready, blocked in ~SyncReleased of ConnHandler::wait
States == {"idle", "enter", "run", "relock", "poll", "rewait"}

BusyTypeOK ==
    /\ permits \in Nat
    /\ pc \in [Users -> States]
    /\ depth \in [Handlers -> Nat]
    /\ \A t \in Outsiders : pc[t] \in {"run", "poll", "rewait"}

BusyInit ==
    /\ permits = MaxBusy
    /\ pc = [t \in Users |-> IF t \in Handlers THEN "idle" ELSE "run"]
    /\ depth = [t \in Handlers |-> 0]

Become(t, state) == pc' = [pc EXCEPT ![t] = state]

(* semaphore.unlock() never blocks, semaphore.lock() does. *)
Unlock == permits' = permits + 1
Lock   == permits > 0 /\ permits' = permits - 1

-----------------------------------------------------------------------------
(* The TCP server hands an event to the thread: processEvent is called.    *)
EventArrives(t) ==
    /\ pc[t] = "idle"
    /\ Become(t, "enter")
    /\ UNCHANGED <<permits, depth>>

(* Synchronized<PBusyThreadsControl> of processEvent. *)
EnterBusy(t) ==
    /\ pc[t] = "enter"
    /\ Lock
    /\ Become(t, "run")
    /\ UNCHANGED depth

(* Mutant: a nested section gives a permit back, too. *)
BeginIOAlways(t) ==
    /\ pc[t] = "run"
    /\ depth[t] < MaxDepth
    /\ Unlock
    /\ depth' = [depth EXCEPT ![t] = @ + 1]
    /\ UNCHANGED pc

(* beginIO(): only the outermost section gives the permit back. *)
BeginIO(t) ==
    /\ pc[t] = "run"
    /\ depth[t] < MaxDepth
    /\ IF depth[t] = 0 THEN Unlock ELSE UNCHANGED permits
    /\ depth' = [depth EXCEPT ![t] = @ + 1]
    /\ UNCHANGED pc

(* endIO(): the counter goes down first, the permit is awaited after. *)
EndIO(t) ==
    /\ pc[t] = "run"
    /\ depth[t] > 0
    /\ depth' = [depth EXCEPT ![t] = @ - 1]
    /\ IF depth[t] = 1 THEN Become(t, "relock") ELSE UNCHANGED pc
    /\ UNCHANGED permits

Relock(t) ==
    /\ pc[t] = "relock"
    /\ Lock
    /\ Become(t, "run")
    /\ UNCHANGED depth

(* ConnHandler::wait, when the poll with timeout 0 found nothing: the      *)
(* permit is released whether or not the thread owns one.                  *)
BeginWait(t) ==
    /\ pc[t] = "run"
    /\ t \in Handlers => (depth[t] = 0 \/ WaitInSection)
    /\ Unlock
    /\ Become(t, "poll")
    /\ UNCHANGED depth

(* The network is ready, or the timeout of the wait has passed. *)
EndPoll(t) ==
    /\ pc[t] = "poll"
    /\ Become(t, "rewait")
    /\ UNCHANGED <<permits, depth>>

EndWait(t) ==
    /\ pc[t] = "rewait"
    /\ Lock
    /\ Become(t, "run")
    /\ UNCHANGED depth

(* Mutant: an early return keeps the permit. *)
LeaveLocked(t) ==
    /\ pc[t] = "run"
    /\ depth[t] = 0
    /\ Become(t, "idle")
    /\ UNCHANGED <<permits, depth>>

(* processEvent returns. A SectionIO is an object on the handler's stack,  *)
(* so no section is open any more, not even after an exception.            *)
Leave(t) ==
    /\ pc[t] = "run"
    /\ depth[t] = 0
    /\ Unlock
    /\ Become(t, "idle")
    /\ UNCHANGED depth

Handle(t) ==
    \/ EventArrives(t) \/ EnterBusy(t) \/ Leave(t)
    \/ BeginIO(t) \/ EndIO(t) \/ Relock(t)

WaitForNetwork(t) == BeginWait(t) \/ EndPoll(t) \/ EndWait(t)

BusyNext ==
    \/ \E t \in Handlers : Handle(t)
    \/ \E t \in Users : WaitForNetwork(t)

BusySpec == BusyInit /\ [][BusyNext]_busyVars

(* Handlers finish what they begin: a wait ends by its timeout at the      *)
(* latest, an outermost section is left and the handler returns sooner or  *)
(* later even when it goes on beginning sections and waits. A thread at    *)
(* the semaphore is not overtaken forever.                                 *)
HandlerFairness(t) ==
    /\ SF_busyVars(EnterBusy(t)) /\ SF_busyVars(Relock(t)) /\ SF_busyVars(EndWait(t))
    /\ WF_busyVars(EndPoll(t))
    /\ SF_busyVars(EndIO(t) /\ depth[t] = 1) /\ SF_busyVars(EndIO(t))
    /\ SF_busyVars(Leave(t))

BusyFairness ==
    /\ \A t \in Handlers : HandlerFairness(t)
    /\ \A t \in Outsiders : SF_busyVars(EndWait(t)) /\ WF_busyVars(EndPoll(t))

BusyFairSpec == BusySpec /\ BusyFairness

-----------------------------------------------------------------------------
(* Threads in the documented "busy mode": handler code outside any I/O     *)
(* section.                                                                *)
Busy == {t \in Handlers : pc[t] = "run" /\ depth[t] = 0}

(* Threads that released a permit they did not own: ConnHandler::wait      *)
(* entered from an open I/O section or by an outsider.                     *)
DoubleReleased ==
    {t \in Users : /\ pc[t] \in {"poll", "rewait"}
                   /\ t \in Handlers => depth[t] > 0}

(* Between events, and while a thread waits to become busy, the counter of *)
(* its LockStatus is back at zero.                                         *)
SectionsClosed ==
    \A t \in Handlers : pc[t] \in {"idle", "enter", "relock"} => depth[t] = 0

(* No permit is ever lost or invented, whatever the interleaving of        *)
(* events, nested sections and waits: the permits and the busy threads     *)
(* make up MaxBusy, plus one for every thread that is, right now, inside a *)
(* wait for which it had no permit to give.                                *)
Accounting ==
    permits + Cardinality(Busy) = MaxBusy + Cardinality(DoubleReleased)

(* Types and permits together.                                             *)
PermitsConsistent == BusyTypeOK /\ Accounting

(* "Because count of busy threads is limited" (httprequest.h, beginIO and  *)
(* endIO): never more than MaxBusy threads run handler code in busy mode.  *)
BusyLimit == Cardinality(Busy) <= MaxBusy

(* An event handed to a thread is handled to the end: the semaphore cannot *)
(* be drained by threads that come and go through sections and waits.      *)
EveryEventHandled ==
    \A t \in Handlers : pc[t] = "enter" ~> pc[t] = "idle"
=============================================================================
