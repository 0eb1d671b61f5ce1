------------------------------- MODULE WsClient -------------------------------
(***************************************************************************)
(* The JSON-RPC client over a WebSocket (jsonrpc/clientWS.cpp on top of    *)
(* httpclient/webSocketsClient.cpp): calls, answers and the peer's own     *)
(* requests, the queue of messages while there is no connection, the loss  *)
(* of a connection, reconnects by the scheduler, and disconnect().         *)
(*                                                                         *)
(* Threads: one per call; "reader", which runs rearmStream (in an executor *)
(* or in the thread of the network listener); "worker", the scheduler's;   *)
(* "closer", which calls disconnect(); and the listener itself. The lock   *)
(* is recursive. A program that used what is gone, or what another thread  *)
(* is changing, may crash, and then stops; what it may do otherwise is in  *)
(* the actions.                                                            *)
(*                                                                         *)
(* External: the peer; the listener, which serves removals between its     *)
(* events; the scheduler (IJobScheduler.h), which carries a cancellation   *)
(* out between two jobs; promises, which callbacks do not use here; a      *)
(* promise that is dropped from the table counts as failed.                *)
(***************************************************************************)
EXTENDS Naturals, FiniteSets

CONSTANTS
    Calls,
    MaxConnections, \* bounds connections made
    MaxIncidents    \* bounds attempts to connect that fail and requests of the peer, together

ASSUME WsClientAssumption ==
    /\ IsFiniteSet(Calls)
    /\ Calls \cap {"reader", "worker", "closer", "request", "response", "none", "pending", "failed"} = {}
    /\ MaxConnections \in Nat \ {0} /\ MaxIncidents \in Nat

VARIABLES
    executor,   \* is there an executor for the reader?
    pc,         \* where each thread is, see Places
    listening,  \* has the listener's thread a wake-up that waits for inExecutor?
    lock, inExecutor,   \* the holder, or "none"
    stream,     \* is there a stream?
    up,         \* is the current connection alive?
    armed,      \* is it with the listener, waiting for input?
    listener, scheduler,    \* are the pointers set?
    queuedMsgs, flushing,   \* messages kept for a reconnect, and being sent after it
    waitingResults, outcome,
    reqid,      \* the call whose answer the reader has in its hands, or "none"
    toServer, inbox,        \* of the current connection: requests sent, messages back
    jobs, reconnectMsg, nextJob, canceling, \* scheduled reconnects, by number
    givenUp,    \* history: the last attempt to connect was refused and is not repeated
    raced, orphaned,    \* history: calls whose answer came before their entry in the table
                        \* or whose entry was lost, calls whose connection was replaced
    crash,      \* "none", or where something was used that was gone
    connections, incidents     \* counters

net == <<stream, up, armed, toServer, inbox>>
table == <<waitingResults, outcome>>
queues == <<queuedMsgs, flushing>>
timer == <<jobs, reconnectMsg, nextJob, givenUp>>
config == <<executor, listener, scheduler>>
locks == <<lock, inExecutor, listening>>
history == <<raced, orphaned, crash, connections, incidents>>
vars == <<config, pc, locks, net, queues, table, reqid, timer, canceling, history>>

Threads == Calls \cup {"reader", "worker", "closer"}

(* "remove" waits for the listener to forget the stream, "relock" then for *)
(* the lock, "lost" and "drop" are inside onLostConnection. "write" has    *)
(* seen a stream and will use it; "insert" ends callAsync. "loop", "find", *)
(* "take", "respond" and "end" are the reader's, "reconnect", "connect"    *)
(* and "flush" the worker's, "cancel", "quit" and "close" the closer's.    *)
Places == {"idle", "write", "remove", "relock", "lost", "drop", "insert", "loop", "find", "take",
           "respond", "end", "reconnect", "connect", "flush", "cancel", "quit", "close", "done"}

Init ==
    /\ executor \in BOOLEAN /\ listener = TRUE /\ scheduler = TRUE
    /\ pc = [t \in Threads |-> "idle"]
    /\ listening = FALSE /\ lock = "none" /\ inExecutor = "none"
    /\ stream = TRUE /\ up = TRUE /\ armed = TRUE
    /\ toServer = {} /\ inbox = {} /\ queuedMsgs = {} /\ flushing = {}
    /\ waitingResults = {} /\ outcome = [c \in Calls |-> "none"]
    /\ reqid = "none" /\ jobs = {} /\ reconnectMsg = 0 /\ nextJob = 1 /\ canceling = 0 /\ givenUp = FALSE
    /\ raced = {} /\ orphaned = {} /\ crash = "none" /\ connections = 1 /\ incidents = 0

Goto(t, place) == pc' = [pc EXCEPT ![t] = place]

(* The listener's thread is where the reader runs if there is no executor. *)
ListenerFree(t) == IF executor THEN ~listening ELSE pc["reader"] = "idle" \/ t = "reader"

scheduleReconnect ==
    IF scheduler
    THEN /\ jobs' = jobs \cup {nextJob} /\ reconnectMsg' = nextJob /\ nextJob' = nextJob + 1
         /\ givenUp' = FALSE /\ UNCHANGED crash
    ELSE crash' = "schedule" /\ UNCHANGED timer

(* processMessage looks a call up, copies its promise and erases it with   *)
(* no lock (reader at "find" or "take"). A change of the table meanwhile   *)
(* is undefined: the program crashes or gets away with it.                 *)
Searching == pc["reader"] \in {"find", "take"}
Clearing == \E t \in Threads : pc[t] \in {"lost", "drop"}
Unguarded(clash) == crash' \in {crash} \cup (IF clash THEN {"table"} ELSE {})

-----------------------------------------------------------------------------
(* sendTextMessage, under the lock: a message goes to the stream, or to    *)
(* the queue when there is none.                                           *)
SendTextMessage(t, m, next) ==
    IF stream THEN Goto(t, "write") /\ UNCHANGED queuedMsgs
    ELSE queuedMsgs' = queuedMsgs \cup {m} /\ Goto(t, next)

(* Mutant: a message that meets a broken connection is dropped.            *)
WriteOnce(t, m, next) ==
    /\ pc[t] = "write"
    /\ IF ~stream THEN crash' = "write" /\ UNCHANGED <<pc, queuedMsgs, toServer>>
       ELSE /\ IF up THEN toServer' = toServer \cup ({m} \cap Calls) /\ Goto(t, next)
               ELSE Goto(t, "remove") /\ UNCHANGED toServer
            /\ UNCHANGED <<crash, queuedMsgs>>

(* The reader may have cleared the stream since it was looked at. A write  *)
(* into a broken connection finds out that it is lost.                     *)
Write(t, m, next) ==
    /\ pc[t] = "write"
    /\ IF ~stream THEN crash' = "write" /\ UNCHANGED <<pc, queuedMsgs, toServer>>
       ELSE /\ IF up THEN toServer' = toServer \cup ({m} \cap Calls) /\ Goto(t, next) /\ UNCHANGED queuedMsgs
               ELSE queuedMsgs' = queuedMsgs \cup {m} /\ Goto(t, "remove") /\ UNCHANGED toServer
            /\ UNCHANGED crash

(* callAsync: the message goes out, or to the queue, before the promise is *)
(* in the table.                                                           *)
CallAsync(c) ==
    /\ outcome[c] = "none" /\ lock = "none" /\ pc["closer"] = "idle"
    /\ lock' = c /\ outcome' = [outcome EXCEPT ![c] = "pending"]
    /\ SendTextMessage(c, c, "insert")
    /\ UNCHANGED <<config, inExecutor, listening, net, flushing, waitingResults, reqid, timer, canceling, history>>

CallWrites(c) ==
    /\ Write(c, c, "insert")
    /\ UNCHANGED <<config, locks, stream, up, armed, inbox, flushing, table, reqid, timer, canceling,
                   raced, orphaned, connections, incidents>>

(* An entry made while the reader searches may be lost.                    *)
Insert(c) ==
    /\ pc[c] = "insert"
    /\ \/ waitingResults' = waitingResults \cup {c} /\ UNCHANGED raced
       \/ Searching /\ raced' = raced \cup {c} /\ UNCHANGED waitingResults
    /\ Unguarded(Searching)
    /\ lock' = "none" /\ Goto(c, "done")
    /\ UNCHANGED <<config, inExecutor, listening, net, queues, outcome, reqid, timer, canceling,
                   orphaned, connections, incidents>>

(* disconnectInternal, then onLostConnection under the lock, which the     *)
(* reader has not when it has found out itself. It fails the calls in the  *)
(* table, one by one, and schedules a reconnect; the queue stays.          *)
Removed(t) ==
    /\ pc[t] = "remove" /\ t # "closer" /\ ListenerFree(t)
    /\ stream' = FALSE /\ armed' = FALSE /\ toServer' = {} /\ inbox' = {}
    /\ Goto(t, IF lock = t THEN "lost" ELSE "relock")
    /\ UNCHANGED <<config, locks, up, queues, table, reqid, timer, canceling, history>>

Relock ==
    /\ pc["reader"] = "relock" /\ lock = "none"
    /\ lock' = "reader" /\ Goto("reader", "drop")
    /\ UNCHANGED <<config, inExecutor, listening, net, queues, table, reqid, timer, canceling, history>>

Fail(t, c) ==
    /\ pc[t] \in {"lost", "drop"} /\ c \in waitingResults
    /\ waitingResults' = waitingResults \ {c} /\ outcome' = [outcome EXCEPT ![c] = "failed"]
    /\ Unguarded(Searching)
    /\ UNCHANGED <<config, pc, locks, net, queues, reqid, timer, canceling, raced, orphaned, connections, incidents>>

(* Mutant: a loss that the reader has found is not followed by a reconnect.*)
LostOnce(t, next) ==
    /\ waitingResults = {}
    /\ IF scheduler /\ t # "reader" THEN scheduleReconnect ELSE UNCHANGED <<timer, crash>>
    /\ lock' = IF t = "reader" THEN "none" ELSE lock
    /\ Goto(t, next)
    /\ UNCHANGED <<config, inExecutor, listening, net, queues, table, reqid, canceling, raced, orphaned, connections, incidents>>

Lost(t, next) ==
    /\ waitingResults = {}
    /\ IF scheduler THEN scheduleReconnect ELSE UNCHANGED <<timer, crash>>
    /\ lock' = IF t = "reader" THEN "none" ELSE lock
    /\ Goto(t, next)
    /\ UNCHANGED <<config, inExecutor, listening, net, queues, table, reqid, canceling, raced, orphaned, connections, incidents>>

LostConnection ==
    \/ Relock
    \/ \E t \in Threads, c \in Calls : Fail(t, c)
    \/ \E c \in Calls : pc[c] = "lost" /\ Lost(c, "insert")
    \/ pc["worker"] = "lost" /\ Lost("worker", "flush")
    \/ pc["reader"] = "lost" /\ Lost("reader", "loop")
    \/ pc["reader"] = "drop" /\ Lost("reader", "end")

-----------------------------------------------------------------------------
(* The listener reports input once; wakeUp() takes inExecutor for the      *)
(* executor's task, if there is an executor.                               *)
Event ==
    /\ armed /\ (inbox # {} \/ ~up)
    /\ ~listening /\ (executor \/ pc["reader"] = "idle")
    /\ armed' = FALSE
    /\ IF executor THEN listening' = TRUE /\ UNCHANGED pc ELSE Goto("reader", "loop") /\ UNCHANGED listening
    /\ UNCHANGED <<config, lock, inExecutor, stream, up, toServer, inbox, queues, table, reqid, timer, canceling, history>>

WakeUp ==
    /\ listening /\ inExecutor = "none"
    /\ listening' = FALSE /\ inExecutor' = "reader" /\ Goto("reader", "loop")
    /\ UNCHANGED <<config, lock, net, queues, table, reqid, timer, canceling, history>>

(* rearmStream reads while there is input, through the stream pointer,     *)
(* which another thread, or a response of its own, may have cleared.       *)
NoStream ==
    /\ pc["reader"] = "loop" /\ ~stream
    /\ crash' = "loop"
    /\ UNCHANGED <<config, pc, locks, net, queues, table, reqid, timer, canceling, raced, orphaned, connections, incidents>>

(* An answer is found in the table, or not; then its promise is copied and *)
(* erased, though it may be gone by then.                                  *)
Response(c) ==
    /\ pc["reader"] = "loop" /\ stream /\ c \in inbox \cap Calls
    /\ inbox' = inbox \ {c} /\ reqid' = c /\ Goto("reader", "find")
    /\ UNCHANGED <<config, locks, stream, up, armed, toServer, queues, table, timer, canceling, history>>

Find ==
    /\ pc["reader"] = "find"
    /\ IF reqid \in waitingResults THEN Goto("reader", "take") /\ UNCHANGED <<reqid, raced>>
       ELSE raced' = raced \cup {reqid} /\ reqid' = "none" /\ Goto("reader", "loop")
    /\ Unguarded(Clearing)
    /\ UNCHANGED <<config, locks, net, queues, table, timer, canceling, orphaned, connections, incidents>>

(* Mutant: the promise stays in the table after it is resolved.            *)
TakeKept ==
    /\ pc["reader"] = "take"
    /\ outcome' = IF reqid \in waitingResults THEN [outcome EXCEPT ![reqid] = reqid] ELSE outcome
    /\ Unguarded(Clearing \/ reqid \notin waitingResults)
    /\ reqid' = "none" /\ Goto("reader", "loop")
    /\ UNCHANGED <<config, locks, net, queues, waitingResults, timer, canceling, raced, orphaned, connections, incidents>>

Take ==
    /\ pc["reader"] = "take"
    /\ IF reqid \in waitingResults
       THEN waitingResults' = waitingResults \ {reqid} /\ outcome' = [outcome EXCEPT ![reqid] = reqid]
       ELSE UNCHANGED table
    /\ Unguarded(Clearing \/ reqid \notin waitingResults)
    /\ reqid' = "none" /\ Goto("reader", "loop")
    /\ UNCHANGED <<config, locks, net, queues, timer, canceling, raced, orphaned, connections, incidents>>

Request ==
    /\ pc["reader"] = "loop" /\ stream /\ "request" \in inbox
    /\ inbox' = inbox \ {"request"} /\ Goto("reader", "respond")
    /\ UNCHANGED <<config, locks, stream, up, armed, toServer, queues, table, reqid, timer, canceling, history>>

sendResponse ==
    /\ pc["reader"] = "respond" /\ lock = "none"
    /\ SendTextMessage("reader", "response", "loop")
    /\ lock' = IF stream THEN "reader" ELSE "none"
    /\ UNCHANGED <<config, inExecutor, listening, net, flushing, table, reqid, timer, canceling, history>>

ReaderWrites ==
    /\ Write("reader", "response", "loop")
    /\ lock' = IF stream /\ up THEN "none" ELSE "reader"
    /\ UNCHANGED <<config, inExecutor, listening, stream, up, armed, inbox, flushing, table, reqid, timer, canceling,
                   raced, orphaned, connections, incidents>>

(* Nothing is left to read: the stream goes back to the listener, or the   *)
(* connection was lost.                                                    *)
Rearm ==
    /\ pc["reader"] = "loop" /\ stream /\ inbox = {}
    /\ IF up THEN armed' = listener /\ Goto("reader", "end")
       ELSE Goto("reader", "remove") /\ UNCHANGED armed
    /\ UNCHANGED <<config, locks, stream, up, toServer, inbox, queues, table, reqid, timer, canceling, history>>

ReaderEnds ==
    /\ pc["reader"] = "end"
    /\ Goto("reader", "idle") /\ inExecutor' = IF executor THEN "none" ELSE inExecutor
    /\ UNCHANGED <<config, lock, listening, net, queues, table, reqid, timer, canceling, history>>

-----------------------------------------------------------------------------
(* The scheduler's thread. reconnect() connects under the lock.            *)
RunJob(j) ==
    /\ j \in jobs /\ pc["worker"] = "idle" /\ connections < MaxConnections
    /\ jobs' = jobs \ {j} /\ Goto("worker", "reconnect")
    /\ UNCHANGED <<config, locks, net, queues, table, reqid, reconnectMsg, nextJob, givenUp, canceling, history>>

Reconnect ==
    /\ pc["worker"] = "reconnect" /\ lock = "none"
    /\ lock' = "worker" /\ Goto("worker", "connect")
    /\ UNCHANGED <<config, inExecutor, listening, net, queues, table, reqid, timer, canceling, history>>

(* connectInternal: the new stream takes the place of whatever was there,  *)
(* and onConnect() sends what was kept.                                    *)
Connected ==
    /\ pc["worker"] = "connect"
    /\ IF listener
       THEN /\ stream' = TRUE /\ connections' = connections + 1 /\ up' = TRUE /\ armed' = TRUE /\ toServer' = {} /\ inbox' = {}
            /\ orphaned' = IF ~stream THEN orphaned
                           ELSE orphaned \cup {c \in Calls : outcome[c] = "pending" /\ c \notin queuedMsgs}
            /\ flushing' = queuedMsgs /\ queuedMsgs' = {}
            /\ givenUp' = FALSE /\ Goto("worker", "flush") /\ UNCHANGED crash
       ELSE crash' = "add" /\ UNCHANGED <<pc, net, queues, orphaned, connections, givenUp>>
    /\ UNCHANGED <<config, locks, table, reqid, jobs, reconnectMsg, nextJob, canceling, raced, incidents>>

ConnectFails ==
    /\ pc["worker"] = "connect" /\ incidents < MaxIncidents
    /\ incidents' = incidents + 1
    /\ lock' = "none" /\ Goto("worker", "idle") /\ scheduleReconnect
    /\ UNCHANGED <<config, inExecutor, listening, net, queues, table, reqid, canceling, raced, orphaned, connections>>

(* An answer other than 101 is an exception of another type, which         *)
(* reconnect() lets through: the scheduler reports it, and that was it.    *)
ConnectRefused ==
    /\ pc["worker"] = "connect" /\ incidents < MaxIncidents
    /\ incidents' = incidents + 1 /\ givenUp' = TRUE
    /\ lock' = "none" /\ Goto("worker", "idle")
    /\ UNCHANGED <<config, inExecutor, listening, net, queues, table, reqid, jobs, reconnectMsg, nextJob, canceling,
                   raced, orphaned, crash, connections>>

(* The messages kept go out one by one.                                    *)
Flush(m) ==
    /\ pc["worker"] = "flush" /\ m \in flushing
    /\ SendTextMessage("worker", m, "flush")
    /\ flushing' = IF stream THEN flushing ELSE flushing \ {m}
    /\ UNCHANGED <<config, locks, net, table, reqid, timer, canceling, history>>

FlushWrites(m) ==
    /\ m \in flushing /\ Write("worker", m, "flush")
    /\ flushing' = IF stream THEN flushing \ {m} ELSE flushing
    /\ UNCHANGED <<config, locks, stream, up, armed, inbox, table, reqid, timer, canceling,
                   raced, orphaned, connections, incidents>>

Flushed ==
    /\ pc["worker"] = "flush" /\ flushing = {}
    /\ lock' = "none" /\ Goto("worker", "idle")
    /\ UNCHANGED <<config, inExecutor, listening, net, queues, table, reqid, timer, canceling, history>>

-----------------------------------------------------------------------------
(* disconnect(): the scheduled reconnect is canceled, no new one will be,  *)
(* the reader is waited for, and then the stream is removed.               *)
Disconnect ==
    /\ pc["closer"] = "idle" /\ \A c \in Calls : pc[c] \in {"idle", "done"}
    /\ canceling' = reconnectMsg /\ Goto("closer", "cancel")
    /\ UNCHANGED <<config, locks, net, queues, table, reqid, timer, history>>

Canceled ==
    /\ pc["closer"] = "cancel" /\ pc["worker"] = "idle"
    /\ jobs' = jobs \ {canceling} /\ scheduler' = FALSE
    /\ Goto("closer", "quit")
    /\ UNCHANGED <<executor, listener, locks, net, queues, table, reqid, reconnectMsg, nextJob, givenUp, canceling, history>>

Quit ==
    /\ pc["closer"] = "quit" /\ inExecutor = "none"
    /\ inExecutor' = "closer" /\ Goto("closer", "close")
    /\ UNCHANGED <<config, lock, listening, net, queues, table, reqid, timer, canceling, history>>

CloseStream ==
    /\ pc["closer"] = "close" /\ lock = "none"
    /\ lock' = "closer" /\ Goto("closer", "remove")
    /\ UNCHANGED <<config, inExecutor, listening, net, queues, table, reqid, timer, canceling, history>>

Disconnected ==
    /\ pc["closer"] = "remove" /\ (stream => ListenerFree("closer"))
    /\ stream' = FALSE /\ armed' = FALSE /\ toServer' = {} /\ inbox' = {} /\ listener' = FALSE
    /\ lock' = "none" /\ inExecutor' = "none" /\ Goto("closer", "done")
    /\ UNCHANGED <<executor, scheduler, listening, up, queues, table, reqid, timer, canceling, history>>

-----------------------------------------------------------------------------
(* The peer, and the network between.                                      *)
Peer ==
    /\ stream /\ up
    /\ \/ \E c \in toServer \cap Calls : toServer' = toServer \ {c} /\ inbox' = inbox \cup {c} /\ UNCHANGED <<up, incidents>>
       \/ /\ incidents < MaxIncidents /\ incidents' = incidents + 1
          /\ inbox' = inbox \cup {"request"} /\ UNCHANGED <<up, toServer>>
       \/ connections < MaxConnections /\ up' = FALSE /\ UNCHANGED <<toServer, inbox, incidents>>
    /\ UNCHANGED <<config, pc, locks, stream, armed, queues, table, reqid, timer, canceling, raced, orphaned, crash, connections>>

Reader ==
    \/ NoStream \/ (\E c \in Calls : Response(c)) \/ Find \/ Take
    \/ Request \/ sendResponse \/ ReaderWrites \/ Rearm \/ ReaderEnds
Worker ==
    \/ (\E j \in jobs : RunJob(j)) \/ Reconnect \/ Connected
    \/ (\E m \in flushing : Flush(m) \/ FlushWrites(m)) \/ Flushed
Closer == Canceled \/ Quit \/ CloseStream \/ Disconnected

Client ==
    \/ \E c \in Calls : CallWrites(c) \/ Insert(c)
    \/ (\E t \in Threads : Removed(t)) \/ LostConnection
    \/ Event \/ WakeUp \/ Reader \/ Worker \/ Closer

Next ==
    /\ crash = "none"
    /\ \/ \E c \in Calls : CallAsync(c)
       \/ Client \/ ConnectFails \/ ConnectRefused \/ Disconnect \/ Peer

Spec == Init /\ [][Next]_vars

(* The client's threads, the listener's and the scheduler's run on while   *)
(* one of them can; calls, connections and the peer's doings are finite,   *)
(* so no thread can be overtaken for ever.                                 *)
Fairness == WF_vars(crash = "none" /\ Client)

FairSpec == Spec /\ Fairness

-----------------------------------------------------------------------------
TypeOK ==
    /\ pc \in [Threads -> Places]
    /\ {executor, listener, scheduler, listening, stream, up, armed, givenUp} \subseteq BOOLEAN
    /\ {lock, inExecutor} \subseteq Threads \cup {"none"}
    /\ toServer \cup inbox \cup queuedMsgs \cup flushing \subseteq Calls \cup {"request", "response"}
    /\ waitingResults \subseteq Calls /\ reqid \in Calls \cup {"none"}
    /\ outcome \in [Calls -> {"none", "pending", "failed"} \cup Calls]

(* Each call is settled at most once, by its own answer or by the loss of  *)
(* a connection, however often the client reconnects (callAsync,           *)
(* processMessage, onLostConnection).                                      *)
Promised == INSTANCE RpcCalls WITH Calls <- Calls, outcome <- outcome
EachCallOnce == Promised!Spec

(* No call is forgotten: while its future is open its promise is in the    *)
(* table and its message or answer is somewhere between the queue, the     *)
(* peer and the reader. The code forgets a call in three ways: answered    *)
(* between sendTextMessage and the insertion in callAsync, entered while   *)
(* the reader searches the table without the lock, or sent on a connection *)
(* that a second reconnect replaces (connectInternal looks at no stream it *)
(* overwrites).                                                            *)
NoCallForgotten ==
    /\ TypeOK
    /\ \A c \in Calls : outcome[c] = "pending" /\ pc[c] = "done" =>
          \/ c \in waitingResults \cap (queuedMsgs \cup flushing \cup toServer \cup inbox \cup {reqid})
          \/ c \in raced \cup orphaned
          \/ \E t \in Threads : pc[t] \in {"relock", "lost", "drop"}
          \/ pc["closer"] = "done"

(* Nobody will connect: the last attempt was answered by other than 101.   *)
GaveUp == givenUp /\ jobs = {} /\ pc["worker"] = "idle"

(* What is gone while it is used: the stream, under the reader whose loop  *)
(* reads it without the lock or under a writer that had just looked at it; *)
(* the table, searched by the reader while another thread adds to it or    *)
(* clears it; and the listener or the scheduler, in a reconnect that has   *)
(* survived disconnect(). And while nobody disconnects, the stream goes    *)
(* only with a loss that schedules a reconnect, which is tried until it    *)
(* succeeds or the server refuses the handshake.                           *)
KnownCrashes ==
    /\ crash \in {"loop", "write"} => ~stream
    /\ crash = "write" => lock \in Calls \cup {"worker"} /\ pc["reader"] = "relock"
    /\ crash \in {"add", "schedule"} => ~scheduler
    /\ pc["closer"] = "idle" /\ ~stream /\ crash = "none" =>
          \/ jobs # {} \/ pc["worker"] # "idle" \/ GaveUp
          \/ \E t \in Threads : pc[t] \in {"relock", "lost", "drop"}

(* Calls and connections together.                                         *)
Consistent == NoCallForgotten /\ KnownCrashes

(* Waits that never end. For the listener to forget a stream, while its    *)
(* thread waits for inExecutor, which disconnect() holds, or a reader that *)
(* waits for the listener or for the lock; without an executor, while the  *)
(* listener's thread is a reader that waits for the lock.                  *)
Deadlocked ==
    \E t \in Threads : pc[t] = "remove" /\ ~ListenerFree(t)
        /\ (inExecutor = "closer" \/ pc["reader"] \in {"respond", "relock", "remove"})

(* A client that is not being disconnected gets a connection again when it *)
(* has lost one, unless it crashed, is in such a wait, or was refused.     *)
Reconnects ==
    ~stream /\ connections < MaxConnections ~> stream \/ pc["closer"] # "idle" \/ crash # "none" \/ Deadlocked \/ GaveUp

(* disconnect() ends, with the same exceptions.                            *)
DisconnectEnds ==
    pc["closer"] = "cancel" ~> pc["closer"] = "done" \/ crash # "none" \/ Deadlocked

(* The client is either connected again or let go.                         *)
NeverStuck == Reconnects /\ DisconnectEnds
=============================================================================
