--------------------------- MODULE WsClient_proofs ---------------------------
(***************************************************************************)
(* Theorems about WsClient, for any calls, connections and requests of the *)
(* peer; and at the end about WsPage, its counterpart on web pages.        *)
(***************************************************************************)
EXTENDS WsClient, WsPage, TLAPS

-----------------------------------------------------------------------------
(* Types *)

Messages == Calls \cup {"request", "response"}

LEMMA TypeInit == Init => TypeOK
BY DEF Init, TypeOK, Threads, Places

(* Where each thread may go, and what it may write.                        *)
LEMMA Written ==
    ASSUME TypeOK, NEW t \in Threads, NEW m \in Messages, NEW next \in Places, Write(t, m, next)
    PROVE  /\ pc' \in [Threads -> Places]
           /\ toServer' \subseteq Messages /\ queuedMsgs' \subseteq Messages
BY DEF TypeOK, Write, Goto, Places, Messages

LEMMA PutThrough ==
    ASSUME TypeOK, NEW t \in Threads, NEW m \in Messages, NEW next \in Places, SendTextMessage(t, m, next)
    PROVE  pc' \in [Threads -> Places] /\ queuedMsgs' \subseteq Messages
BY DEF TypeOK, SendTextMessage, Goto, Places, Messages

LEMMA CallsTyped ==
    ASSUME TypeOK, NEW c \in Calls, CallAsync(c) \/ CallWrites(c) \/ Insert(c)
    PROVE  TypeOK'
<1> USE DEF net, table, queues, timer, config, locks, history
<1>1. c \in Threads /\ c \in Messages /\ "insert" \in Places
  BY DEF Threads, Messages, Places
<1>2. CASE CallAsync(c)
  <2>1. outcome' \in [Calls -> {"none", "pending", "failed"} \cup Calls] /\ lock' \in Threads \cup {"none"}
    BY <1>1, <1>2 DEF TypeOK, CallAsync
  <2> QED
    BY <1>1, <1>2, <2>1, PutThrough DEF TypeOK, CallAsync, Messages
<1>3. CASE CallWrites(c)
  BY <1>1, <1>3, Written DEF TypeOK, CallWrites, Messages
<1>4. CASE Insert(c)
  BY <1>1, <1>4 DEF TypeOK, Insert, Goto, Places
<1> QED
  BY <1>2, <1>3, <1>4

LEMMA LossTyped ==
    ASSUME TypeOK, LostConnection \/ \E t \in Threads : Removed(t)
    PROVE  TypeOK'
<1> USE DEF net, table, queues, timer, config, locks, history
<1>1. ASSUME NEW t \in Threads, Removed(t)
      PROVE  TypeOK'
  BY <1>1 DEF TypeOK, Removed, Goto, Places
<1>2. CASE Relock
  BY <1>2 DEF TypeOK, Relock, Goto, Places, Threads
<1>3. ASSUME NEW t \in Threads, NEW c \in Calls, Fail(t, c)
      PROVE  TypeOK'
  BY <1>3 DEF TypeOK, Fail
<1>4. ASSUME NEW t \in Threads, NEW next \in Places, Lost(t, next)
      PROVE  TypeOK'
  BY <1>4 DEF TypeOK, Lost, scheduleReconnect, Goto
<1> QED
  BY <1>1, <1>2, <1>3, <1>4 DEF LostConnection, Threads, Places

LEMMA ReaderTyped ==
    ASSUME TypeOK, Event \/ WakeUp \/ Reader
    PROVE  TypeOK'
<1> USE DEF net, table, queues, timer, config, locks, history
<1>1. "reader" \in Threads
  BY DEF Threads
<1>2. CASE Event
  BY <1>1, <1>2 DEF TypeOK, Event, Goto, Places
<1>3. CASE WakeUp
  BY <1>1, <1>3 DEF TypeOK, WakeUp, Goto, Places
<1>4. CASE NoStream
  BY <1>4 DEF TypeOK, NoStream
<1>5. ASSUME NEW c \in Calls, Response(c)
      PROVE  TypeOK'
  BY <1>1, <1>5 DEF TypeOK, Response, Goto, Places
<1>6. CASE Request
  BY <1>1, <1>6 DEF TypeOK, Request, Goto, Places
<1>7. CASE sendResponse
  <2>1. SendTextMessage("reader", "response", "loop") /\ lock' \in Threads \cup {"none"}
    BY <1>1, <1>7 DEF sendResponse
  <2> QED
    BY <1>1, <1>7, <2>1, PutThrough DEF TypeOK, sendResponse, Messages, Places
<1>8. CASE Rearm
  BY <1>1, <1>8 DEF TypeOK, Rearm, Goto, Places
<1>9. CASE ReaderEnds
  BY <1>1, <1>9 DEF TypeOK, ReaderEnds, Goto, Places
<1>10. CASE ReaderWrites
  <2>1. Write("reader", "response", "loop") /\ lock' \in Threads \cup {"none"}
    BY <1>1, <1>10 DEF ReaderWrites
  <2> QED
    BY <1>1, <1>10, <2>1, Written DEF TypeOK, ReaderWrites, Messages, Places
<1>11. CASE Find
  BY <1>1, <1>11 DEF TypeOK, Find, Goto, Places
<1>12. CASE Take
  BY <1>1, <1>12 DEF TypeOK, Take, Goto, Places
<1> QED
  BY <1>2, <1>3, <1>4, <1>5, <1>6, <1>7, <1>8, <1>9, <1>10, <1>11, <1>12 DEF Reader

LEMMA WorkerTyped ==
    ASSUME TypeOK, Worker \/ ConnectFails \/ ConnectRefused
    PROVE  TypeOK'
<1> USE DEF net, table, queues, timer, config, locks, history
<1>1. "worker" \in Threads
  BY DEF Threads
<1>2. ASSUME NEW j \in jobs, RunJob(j)
      PROVE  TypeOK'
  BY <1>1, <1>2 DEF TypeOK, RunJob, Goto, Places
<1>3. CASE Reconnect
  BY <1>1, <1>3 DEF TypeOK, Reconnect, Goto, Places
<1>4. CASE Connected
  BY <1>1, <1>4 DEF TypeOK, Connected, Goto, Places
<1>5. ASSUME NEW m \in flushing, Flush(m)
      PROVE  TypeOK'
  <2>1. m \in Messages /\ flushing' \subseteq Messages
    BY <1>5 DEF TypeOK, Flush, Messages
  <2> QED
    BY <1>1, <1>5, <2>1, PutThrough DEF TypeOK, Flush, Messages, Places
<1>8. ASSUME NEW m \in flushing, FlushWrites(m)
      PROVE  TypeOK'
  <2>1. m \in Messages /\ flushing' \subseteq Messages
    BY <1>8 DEF TypeOK, FlushWrites, Messages
  <2> QED
    BY <1>1, <1>8, <2>1, Written DEF TypeOK, FlushWrites, Messages, Places
<1>6. CASE Flushed
  BY <1>1, <1>6 DEF TypeOK, Flushed, Goto, Places
<1>7. CASE ConnectFails
  BY <1>1, <1>7 DEF TypeOK, ConnectFails, scheduleReconnect, Goto, Places
<1>9. CASE ConnectRefused
  BY <1>1, <1>9 DEF TypeOK, ConnectRefused, Goto, Places
<1> QED
  BY <1>2, <1>3, <1>4, <1>5, <1>6, <1>7, <1>8, <1>9 DEF Worker

LEMMA CloserTyped ==
    ASSUME TypeOK, Closer \/ Disconnect
    PROVE  TypeOK'
<1> USE DEF net, table, queues, timer, config, locks, history
<1>1. "closer" \in Threads
  BY DEF Threads
<1>2. CASE Canceled
  BY <1>1, <1>2 DEF TypeOK, Canceled, Goto, Places
<1>3. CASE Quit
  BY <1>1, <1>3 DEF TypeOK, Quit, Goto, Places
<1>4. CASE CloseStream
  BY <1>1, <1>4 DEF TypeOK, CloseStream, Goto, Places
<1>5. CASE Disconnected
  BY <1>1, <1>5 DEF TypeOK, Disconnected, Goto, Places
<1>6. CASE Disconnect
  BY <1>1, <1>6 DEF TypeOK, Disconnect, Goto, Places
<1> QED
  BY <1>2, <1>3, <1>4, <1>5, <1>6 DEF Closer

LEMMA TypeStep ==
    ASSUME TypeOK, [Next]_vars
    PROVE  TypeOK'
<1> USE DEF net, table, queues, timer, config, locks, history
<1>1. CASE UNCHANGED vars
  BY <1>1 DEF TypeOK, vars, config, locks, net, queues, table
<1>2. CASE Peer
  BY <1>2 DEF TypeOK, Peer
<1> QED
  BY <1>1, <1>2, CallsTyped, LossTyped, ReaderTyped, WorkerTyped, CloserTyped DEF Next, Client

-----------------------------------------------------------------------------
(* Calls *)

(* A call in the table is open. A call whose thread is still in callAsync  *)
(* is open and not yet in the table; one that was not made has a thread    *)
(* that has not begun.                                                     *)
Entered == \A c \in waitingResults : outcome[c] = "pending"
Calling == \A c \in Calls : pc[c] \notin {"idle", "done"} => outcome[c] = "pending" /\ c \notin waitingResults
Unmade == \A c \in Calls : outcome[c] = "none" => pc[c] = "idle"

CInv == TypeOK /\ Entered /\ Calling /\ Unmade

LEMMA CInit == Init => CInv
BY TypeInit DEF Init, CInv, Entered, Calling, Unmade, Threads

Settled(c) == \E o \in {c, "failed"} : outcome' = [outcome EXCEPT ![c] = o] /\ waitingResults' = waitingResults \ {c}

LEMMA SettledSteps ==
    ASSUME CInv, NEW c \in waitingResults, Settled(c), \A d \in Calls : pc'[d] = pc[d]
    PROVE  (Entered /\ Calling /\ Unmade)' /\ Promised!Next
<1>1. c \in Calls /\ outcome[c] = "pending" /\ outcome \in [Calls -> {"none", "pending", "failed"} \cup Calls]
  BY DEF CInv, TypeOK, Entered
<1>2. PICK o \in {c, "failed"} : outcome' = [outcome EXCEPT ![c] = o] /\ waitingResults' = waitingResults \ {c}
  BY DEF Settled
<1>3. Entered' /\ Calling' /\ Unmade'
  BY <1>1, <1>2, WsClientAssumption DEF CInv, TypeOK, Entered, Calling, Unmade
<1> QED
  BY <1>1, <1>2, <1>3 DEF Promised!Next, Promised!Settle

(* A step that leaves the calls alone and takes no thread out of or into   *)
(* callAsync.                                                              *)
LEMMA OtherSteps ==
    ASSUME CInv, UNCHANGED table,
           \A c \in Calls : \/ pc'[c] = pc[c]
                            \/ pc[c] \notin {"idle", "done"} /\ pc'[c] \notin {"idle", "done"}
    PROVE  (Entered /\ Calling /\ Unmade)'
BY DEF CInv, Entered, Calling, Unmade, table

(* The other threads leave the calls alone, but for those they settle.     *)
Elsewhere == UNCHANGED table /\ \A c \in Calls : pc'[c] = pc[c]

LEMMA OthersElsewhere ==
    ASSUME CInv, NEW t \in {"reader", "worker", "closer"}, NEW place, Goto(t, place)
    PROVE  \A c \in Calls : pc'[c] = pc[c]
BY WsClientAssumption DEF CInv, TypeOK, Goto, Threads

LEMMA WritesElsewhere ==
    ASSUME CInv, NEW t \in {"reader", "worker", "closer"}, NEW m, NEW next, Write(t, m, next)
    PROVE  \A c \in Calls : pc'[c] = pc[c]
BY OthersElsewhere DEF Write

LEMMA SendsElsewhere ==
    ASSUME CInv, NEW t \in {"reader", "worker", "closer"}, NEW m, NEW next, SendTextMessage(t, m, next)
    PROVE  \A c \in Calls : pc'[c] = pc[c]
BY OthersElsewhere DEF SendTextMessage

LEMMA ReaderElsewhere ==
    ASSUME CInv, \/ Event \/ WakeUp \/ NoStream \/ (\E c \in Calls : Response(c)) \/ Find
                 \/ Request \/ sendResponse \/ ReaderWrites \/ Rearm \/ ReaderEnds \/ Relock
    PROVE  Elsewhere
<1> USE DEF Elsewhere
<1>1. CASE Event \/ WakeUp \/ NoStream
  BY <1>1, OthersElsewhere DEF Event, WakeUp, NoStream
<1>2. CASE sendResponse \/ ReaderWrites
  BY <1>2, WritesElsewhere, SendsElsewhere DEF sendResponse, ReaderWrites
<1>4. CASE (\E c \in Calls : Response(c)) \/ Find
  BY <1>4, OthersElsewhere DEF Response, Find
<1>3. CASE Request \/ Rearm \/ ReaderEnds \/ Relock
  BY <1>3, OthersElsewhere DEF Request, Rearm, ReaderEnds, Relock
<1> QED
  BY <1>1, <1>2, <1>3, <1>4

LEMMA WorkerElsewhere ==
    ASSUME CInv, Worker \/ ConnectFails \/ ConnectRefused
    PROVE  Elsewhere
<1> USE DEF Elsewhere
<1>1. ASSUME NEW m, Flush(m) \/ FlushWrites(m)
      PROVE  Elsewhere
  BY <1>1, WritesElsewhere, SendsElsewhere DEF Flush, FlushWrites
<1>2. CASE Connected
  BY <1>2, OthersElsewhere DEF Connected
<1> QED
  BY <1>1, <1>2, OthersElsewhere DEF Worker, RunJob, Reconnect, Flushed, ConnectFails, ConnectRefused

LEMMA CloserElsewhere ==
    ASSUME CInv, Closer \/ Disconnect
    PROVE  Elsewhere
BY OthersElsewhere DEF Elsewhere, Closer, Canceled, Quit, CloseStream, Disconnected, Disconnect

LEMMA LostElsewhere ==
    ASSUME CInv, NEW t \in {"reader", "worker"}, NEW next, Lost(t, next)
    PROVE  Elsewhere
BY OthersElsewhere DEF Elsewhere, Lost

LEMMA CStep ==
    ASSUME CInv, [Next]_vars
    PROVE  CInv' /\ [Promised!Next]_outcome
<1>1. TypeOK'
  BY TypeStep DEF CInv
<1>2. pc \in [Threads -> Places] /\ Calls \subseteq Threads /\ Calls \cap {"reader", "worker", "closer"} = {}
  BY WsClientAssumption DEF CInv, TypeOK, Threads
<1>3. ASSUME NEW c \in Calls, CallAsync(c)
      PROVE  (Entered /\ Calling /\ Unmade)' /\ Promised!Next
  <2>1. outcome[c] = "none" /\ outcome' = [outcome EXCEPT ![c] = "pending"] /\ UNCHANGED waitingResults
    BY <1>3 DEF CallAsync
  <2>2. \E place \in {"insert", "write"} : pc' = [pc EXCEPT ![c] = place]
    BY <1>3 DEF CallAsync, SendTextMessage, Goto
  <2>3. Promised!Next
    BY <2>1 DEF Promised!Next, Promised!Make
  <2> QED
    BY <1>2, <2>1, <2>2, <2>3 DEF CInv, TypeOK, Entered, Calling, Unmade
<1>4. ASSUME NEW c \in Calls, Insert(c)
      PROVE  (Entered /\ Calling /\ Unmade)' /\ UNCHANGED outcome
  BY <1>2, <1>4 DEF Insert, Goto, CInv, TypeOK, Entered, Calling, Unmade
<1>5. ASSUME NEW t \in Threads, NEW c \in Calls, Fail(t, c)
      PROVE  (Entered /\ Calling /\ Unmade)' /\ Promised!Next
  BY <1>5, SettledSteps DEF Fail, Settled
<1>6. ASSUME Take
      PROVE  (Entered /\ Calling /\ Unmade)' /\ [Promised!Next]_outcome
  <2>1. \A d \in Calls : pc'[d] = pc[d]
    BY <1>6, OthersElsewhere DEF Take
  <2>2. CASE reqid \in waitingResults
    <3>1. Settled(reqid)
      BY <1>6, <2>2 DEF Take, Settled
    <3> QED
      BY <2>1, <2>2, <3>1, SettledSteps
  <2>3. CASE reqid \notin waitingResults
    BY <1>6, <2>1, <2>3, OtherSteps DEF Take, table
  <2> QED
    BY <2>2, <2>3
<1>12. ASSUME NEW c \in Calls, CallWrites(c)
      PROVE  (Entered /\ Calling /\ Unmade)' /\ UNCHANGED outcome
  BY <1>2, <1>12, OtherSteps DEF CallWrites, Write, Goto, table
<1>7. ASSUME NEW t \in Threads, Removed(t)
      PROVE  (Entered /\ Calling /\ Unmade)' /\ UNCHANGED outcome
  BY <1>2, <1>7, OtherSteps DEF Removed, Goto, table
<1>8. ASSUME NEW c \in Calls, pc[c] = "lost", Lost(c, "insert")
      PROVE  (Entered /\ Calling /\ Unmade)' /\ UNCHANGED outcome
  BY <1>2, <1>8, OtherSteps DEF Lost, Goto, table
<1>9. CASE Elsewhere
  BY <1>1, <1>9, OtherSteps DEF Elsewhere, CInv, table
<1>10. CASE UNCHANGED vars \/ Peer
  BY <1>10, <1>9 DEF Elsewhere, vars, Peer
<1>11. CASE LostConnection
  BY <1>5, <1>8, <1>9, <1>11, <1>1, ReaderElsewhere, LostElsewhere DEF LostConnection, CInv, Elsewhere, table
<1> QED
  BY <1>1, <1>3, <1>4, <1>6, <1>7, <1>9, <1>10, <1>11, <1>12, ReaderElsewhere, WorkerElsewhere, CloserElsewhere
     DEF Next, Client, Reader, CInv, Elsewhere, table

-----------------------------------------------------------------------------
(* Places, locks and the end *)

(* A thread that is inside a call, a reconnect or the loss of a connection *)
(* holds the lock, but for a reader that has yet to get it.                *)
Locking ==
    /\ \A c \in Calls : pc[c] \in {"write", "insert", "remove", "lost"} => lock = c
    /\ pc["worker"] \in {"connect", "flush", "write", "remove", "lost"} => lock = "worker"
    /\ pc["reader"] \in {"write", "drop", "lost"} => lock = "reader"
    /\ pc["closer"] = "remove" => lock = "closer"

(* The reader runs in an executor's task, or in the listener's thread.     *)
Running ==
    /\ executor /\ pc["reader"] # "idle" => inExecutor = "reader"
    /\ pc["closer"] \in {"close", "remove"} => inExecutor = "closer"
    /\ listening => executor

Paths ==
    /\ \A c \in Calls : pc[c] \in {"idle", "write", "insert", "remove", "lost", "done"}
    /\ pc["worker"] \in {"idle", "reconnect", "connect", "flush", "write", "remove", "lost"}
    /\ pc["reader"] \in {"idle", "loop", "find", "take", "respond", "write", "remove", "relock", "lost", "drop", "end"}
    /\ pc["closer"] \in {"idle", "cancel", "quit", "close", "remove", "done"}

(* disconnect() comes after the last call; it gives the scheduler up, then *)
(* the listener.                                                           *)
Closing ==
    /\ pc["closer"] # "idle" => \A c \in Calls : pc[c] \in {"idle", "done"}
    /\ pc["closer"] \in {"quit", "close", "remove", "done"} <=> ~scheduler
    /\ ~listener => ~scheduler

(* Without a stream nothing is on its way; only a flush has messages of a  *)
(* former connection.                                                      *)
Cleared ==
    /\ ~stream => toServer = {} /\ inbox = {}
    /\ pc["worker"] \notin {"flush", "write", "remove", "lost"} => flushing = {}

(* A connection is being given up: its calls are about to fail.            *)
Losing == \E t \in Threads : pc[t] \in {"relock", "lost", "drop"}

(* What a writer is about to use is there, but for a reader that has given *)
(* it up and waits for the lock.                                           *)
Writing == \A t \in Threads : pc[t] = "write" => stream \/ (t # "reader" /\ pc["reader"] = "relock")

(* The reader has a call in its hands while it searches; one it has found  *)
(* stays in the table unless it is settled.                                *)
Held ==
    /\ pc["reader"] \in {"find", "take"} <=> reqid \in Calls
    /\ pc["reader"] = "take" => reqid \in waitingResults \/ outcome[reqid] \notin {"none", "pending"}

(* The promise of a call that is open is in the table once its thread is   *)
(* out of callAsync, and its message is kept meanwhile and after.          *)
Tabled == \A c \in Calls : outcome[c] = "pending" /\ pc[c] = "done" => c \in waitingResults \cup raced
Kept(c) ==
    \/ c \in queuedMsgs \cup flushing \cup toServer \cup inbox \cup {reqid} \cup raced \cup orphaned
    \/ Losing
    \/ pc["closer"] = "done"
Sought == \A c \in Calls : outcome[c] = "pending" =>
    /\ pc[c] \in {"remove", "lost"} => c \in queuedMsgs
    /\ pc[c] \in {"insert", "done"} => Kept(c)

(* A crash has its reason, and a lost connection its reconnect.            *)
Reasons ==
    /\ crash \in {"loop", "write"} => ~stream
    /\ crash = "write" => lock \in Calls \cup {"worker"} /\ pc["reader"] = "relock"
    /\ crash \in {"add", "schedule"} => ~scheduler
    /\ pc["closer"] = "idle" /\ ~stream /\ crash = "none" =>
          jobs # {} \/ pc["worker"] \in {"reconnect", "connect"} \/ Losing \/ GaveUp

FInv ==
    /\ CInv /\ Locking /\ Running /\ Paths /\ Closing /\ Cleared
    /\ Writing /\ Held /\ Tabled /\ Sought /\ Reasons

(* Who holds a lock, and how a thread goes on.                             *)
LEMMA PathsStep ==
    ASSUME FInv, [Next]_vars
    PROVE  (Locking /\ Running /\ Paths)'
<1> USE DEF net, table, queues, timer, config, locks, history
<1>1. /\ pc \in [Threads -> Places] /\ Calls \subseteq Threads /\ {"reader", "worker", "closer"} \subseteq Threads
      /\ \A a \in {"reader", "worker", "closer", "request", "none", "pending", "failed"} : a \notin Calls
  BY WsClientAssumption DEF FInv, CInv, TypeOK, Threads
<1> USE <1>1 DEF FInv, Goto, Locking, Running, Paths
<1>2. ASSUME NEW c \in Calls, CallAsync(c)
      PROVE  (Locking /\ Running /\ Paths)'
  BY <1>2 DEF CallAsync, SendTextMessage
<1>3. ASSUME NEW c \in Calls, Insert(c)
      PROVE  (Locking /\ Running /\ Paths)'
  BY <1>3 DEF Insert
<1>4. ASSUME NEW t \in Threads, Removed(t)
      PROVE  (Locking /\ Running /\ Paths)'
  BY <1>4 DEF Removed
<1>5. CASE Relock
  BY <1>5 DEF Relock
<1>6. ASSUME NEW t \in Threads, NEW c \in Calls, Fail(t, c)
      PROVE  (Locking /\ Running /\ Paths)'
  BY <1>6 DEF Fail
<1>7. ASSUME NEW c \in Calls, pc[c] = "lost", Lost(c, "insert")
      PROVE  (Locking /\ Running /\ Paths)'
  BY <1>7 DEF Lost, scheduleReconnect
<1>8. CASE pc["worker"] = "lost" /\ Lost("worker", "flush")
  BY <1>8 DEF Lost, scheduleReconnect
<1>9. CASE pc["reader"] = "lost" /\ Lost("reader", "loop")
  BY <1>9 DEF Lost, scheduleReconnect
<1>10. CASE pc["reader"] = "drop" /\ Lost("reader", "end")
  BY <1>10 DEF Lost, scheduleReconnect
<1>11. CASE Event
  BY <1>11 DEF Event
<1>12. CASE WakeUp
  BY <1>12 DEF WakeUp
<1>13. CASE NoStream
  BY <1>13 DEF NoStream
<1>14. ASSUME NEW c \in Calls, Response(c)
      PROVE  (Locking /\ Running /\ Paths)'
  BY <1>14 DEF Response
<1>15. CASE Request
  BY <1>15 DEF Request
<1>16. CASE sendResponse
  BY <1>16 DEF sendResponse, SendTextMessage
<1>17. CASE Rearm
  BY <1>17 DEF Rearm
<1>18. CASE ReaderEnds
  BY <1>18 DEF ReaderEnds
<1>19. ASSUME NEW j \in jobs, RunJob(j)
      PROVE  (Locking /\ Running /\ Paths)'
  BY <1>19 DEF RunJob
<1>20. CASE Reconnect
  BY <1>20 DEF Reconnect
<1>21. CASE Connected
  BY <1>21 DEF Connected
<1>22. ASSUME NEW m \in flushing, Flush(m)
      PROVE  (Locking /\ Running /\ Paths)'
  BY <1>22 DEF Flush, SendTextMessage
<1>23. CASE Flushed
  BY <1>23 DEF Flushed
<1>24. CASE ConnectFails
  BY <1>24 DEF ConnectFails, scheduleReconnect
<1>25. CASE Canceled
  BY <1>25 DEF Canceled
<1>26. CASE Quit
  BY <1>26 DEF Quit
<1>27. CASE CloseStream
  BY <1>27 DEF CloseStream
<1>28. CASE Disconnected
  BY <1>28 DEF Disconnected
<1>29. CASE Disconnect
  BY <1>29 DEF Disconnect
<1>30. CASE Peer
  BY <1>30 DEF Peer
<1>31. CASE UNCHANGED vars
  BY <1>31 DEF vars
<1>32. ASSUME NEW c \in Calls, CallWrites(c)
      PROVE  (Locking /\ Running /\ Paths)'
  BY <1>32 DEF CallWrites, Write
<1>33. CASE ReaderWrites
  BY <1>33 DEF ReaderWrites, Write
<1>34. ASSUME NEW m \in flushing, FlushWrites(m)
      PROVE  (Locking /\ Running /\ Paths)'
  BY <1>34 DEF FlushWrites, Write
<1>35. CASE Find
  BY <1>35 DEF Find
<1>36. CASE Take
  BY <1>36 DEF Take
<1>37. CASE ConnectRefused
  BY <1>37 DEF ConnectRefused
<1> QED
  BY <1>2, <1>3, <1>4, <1>5, <1>6, <1>7, <1>8, <1>9, <1>10, <1>11, <1>12, <1>13,
     <1>14, <1>15, <1>16, <1>17, <1>18, <1>19, <1>20, <1>21, <1>22, <1>23, <1>24, <1>25,
     <1>26, <1>27, <1>28, <1>29, <1>30, <1>31,
     <1>32, <1>33, <1>34, <1>35, <1>36, <1>37
     DEF Next, Client, Reader, Worker, Closer, LostConnection

(* What is given up, and what is cleared with it.                          *)
LEMMA ClosingStep ==
    ASSUME FInv, [Next]_vars
    PROVE  (Closing /\ Cleared)'
<1> USE DEF net, table, queues, timer, config, locks, history
<1>1. /\ pc \in [Threads -> Places] /\ Calls \subseteq Threads /\ {"reader", "worker", "closer"} \subseteq Threads
      /\ \A a \in {"reader", "worker", "closer", "request", "none", "pending", "failed"} : a \notin Calls
  BY WsClientAssumption DEF FInv, CInv, TypeOK, Threads
<1> USE <1>1 DEF FInv, Goto, Locking, Paths, Closing, Cleared
<1>2. ASSUME NEW c \in Calls, CallAsync(c)
      PROVE  (Closing /\ Cleared)'
  BY <1>2 DEF CallAsync, SendTextMessage
<1>3. ASSUME NEW c \in Calls, Insert(c)
      PROVE  (Closing /\ Cleared)'
  BY <1>3 DEF Insert
<1>4. ASSUME NEW t \in Threads, Removed(t)
      PROVE  (Closing /\ Cleared)'
  BY <1>4 DEF Removed
<1>5. CASE Relock
  BY <1>5 DEF Relock
<1>6. ASSUME NEW t \in Threads, NEW c \in Calls, Fail(t, c)
      PROVE  (Closing /\ Cleared)'
  BY <1>6 DEF Fail
<1>7. ASSUME NEW c \in Calls, pc[c] = "lost", Lost(c, "insert")
      PROVE  (Closing /\ Cleared)'
  BY <1>7 DEF Lost, scheduleReconnect
<1>8. CASE pc["worker"] = "lost" /\ Lost("worker", "flush")
  BY <1>8 DEF Lost, scheduleReconnect
<1>9. CASE pc["reader"] = "lost" /\ Lost("reader", "loop")
  BY <1>9 DEF Lost, scheduleReconnect
<1>10. CASE pc["reader"] = "drop" /\ Lost("reader", "end")
  BY <1>10 DEF Lost, scheduleReconnect
<1>11. CASE Event
  BY <1>11 DEF Event
<1>12. CASE WakeUp
  BY <1>12 DEF WakeUp
<1>13. CASE NoStream
  BY <1>13 DEF NoStream
<1>14. ASSUME NEW c \in Calls, Response(c)
      PROVE  (Closing /\ Cleared)'
  BY <1>14 DEF Response
<1>15. CASE Request
  BY <1>15 DEF Request
<1>16. CASE sendResponse
  BY <1>16 DEF sendResponse, SendTextMessage
<1>17. CASE Rearm
  BY <1>17 DEF Rearm
<1>18. CASE ReaderEnds
  BY <1>18 DEF ReaderEnds
<1>19. ASSUME NEW j \in jobs, RunJob(j)
      PROVE  (Closing /\ Cleared)'
  BY <1>19 DEF RunJob
<1>20. CASE Reconnect
  BY <1>20 DEF Reconnect
<1>21. CASE Connected
  BY <1>21 DEF Connected
<1>22. ASSUME NEW m \in flushing, Flush(m)
      PROVE  (Closing /\ Cleared)'
  BY <1>22 DEF Flush, SendTextMessage
<1>23. CASE Flushed
  BY <1>23 DEF Flushed
<1>24. CASE ConnectFails
  BY <1>24 DEF ConnectFails, scheduleReconnect
<1>25. CASE Canceled
  BY <1>25 DEF Canceled
<1>26. CASE Quit
  BY <1>26 DEF Quit
<1>27. CASE CloseStream
  BY <1>27 DEF CloseStream
<1>28. CASE Disconnected
  BY <1>28 DEF Disconnected
<1>29. CASE Disconnect
  BY <1>29 DEF Disconnect
<1>30. CASE Peer
  BY <1>30 DEF Peer
<1>31. CASE UNCHANGED vars
  BY <1>31 DEF vars
<1>32. ASSUME NEW c \in Calls, CallWrites(c)
      PROVE  (Closing /\ Cleared)'
  BY <1>32 DEF CallWrites, Write
<1>33. CASE ReaderWrites
  BY <1>33 DEF ReaderWrites, Write
<1>34. ASSUME NEW m \in flushing, FlushWrites(m)
      PROVE  (Closing /\ Cleared)'
  BY <1>34 DEF FlushWrites, Write
<1>35. CASE Find
  BY <1>35 DEF Find
<1>36. CASE Take
  BY <1>36 DEF Take
<1>37. CASE ConnectRefused
  BY <1>37 DEF ConnectRefused
<1> QED
  BY <1>2, <1>3, <1>4, <1>5, <1>6, <1>7, <1>8, <1>9, <1>10, <1>11, <1>12, <1>13,
     <1>14, <1>15, <1>16, <1>17, <1>18, <1>19, <1>20, <1>21, <1>22, <1>23, <1>24, <1>25,
     <1>26, <1>27, <1>28, <1>29, <1>30, <1>31,
     <1>32, <1>33, <1>34, <1>35, <1>36, <1>37
     DEF Next, Client, Reader, Worker, Closer, LostConnection

(* What a writer uses, and what the reader has in its hands.               *)
LEMMA HeldStep ==
    ASSUME FInv, [Next]_vars
    PROVE  (Writing /\ Held)'
<1> USE DEF net, table, queues, timer, config, locks, history
<1>1. /\ pc \in [Threads -> Places] /\ Calls \subseteq Threads /\ {"reader", "worker", "closer"} \subseteq Threads
      /\ \A a \in {"reader", "worker", "closer", "request", "none", "pending", "failed"} : a \notin Calls
  BY WsClientAssumption DEF FInv, CInv, TypeOK, Threads
<1>0. /\ \A t \in Threads : pc[t] = "write" => lock = t
      /\ \A t \in Threads : pc[t] = "remove" => lock = t \/ t = "reader"
      /\ "none" \notin Threads
  BY <1>1 DEF FInv, Locking, Paths, Threads
<1> USE <1>0, <1>1 DEF FInv, Goto, CInv, TypeOK, Entered, Unmade, Locking, Paths, Cleared, Writing, Held
<1>2. ASSUME NEW c \in Calls, CallAsync(c)
      PROVE  (Writing /\ Held)'
  BY <1>2 DEF CallAsync, SendTextMessage
<1>3. ASSUME NEW c \in Calls, Insert(c)
      PROVE  (Writing /\ Held)'
  BY <1>3 DEF Insert
<1>4. ASSUME NEW t \in Threads, Removed(t)
      PROVE  (Writing /\ Held)'
  BY <1>4 DEF Removed
<1>5. CASE Relock
  BY <1>5 DEF Relock
<1>6. ASSUME NEW t \in Threads, NEW c \in Calls, Fail(t, c)
      PROVE  (Writing /\ Held)'
  BY <1>6 DEF Fail
<1>7. ASSUME NEW c \in Calls, pc[c] = "lost", Lost(c, "insert")
      PROVE  (Writing /\ Held)'
  BY <1>7 DEF Lost, scheduleReconnect
<1>8. CASE pc["worker"] = "lost" /\ Lost("worker", "flush")
  BY <1>8 DEF Lost, scheduleReconnect
<1>9. CASE pc["reader"] = "lost" /\ Lost("reader", "loop")
  BY <1>9 DEF Lost, scheduleReconnect
<1>10. CASE pc["reader"] = "drop" /\ Lost("reader", "end")
  BY <1>10 DEF Lost, scheduleReconnect
<1>11. CASE Event
  BY <1>11 DEF Event
<1>12. CASE WakeUp
  BY <1>12 DEF WakeUp, Running
<1>13. CASE NoStream
  BY <1>13 DEF NoStream
<1>14. ASSUME NEW c \in Calls, Response(c)
      PROVE  (Writing /\ Held)'
  BY <1>14 DEF Response
<1>15. CASE Request
  BY <1>15 DEF Request
<1>16. CASE sendResponse
  BY <1>16 DEF sendResponse, SendTextMessage
<1>17. CASE Rearm
  BY <1>17 DEF Rearm
<1>18. CASE ReaderEnds
  BY <1>18 DEF ReaderEnds
<1>19. ASSUME NEW j \in jobs, RunJob(j)
      PROVE  (Writing /\ Held)'
  BY <1>19 DEF RunJob
<1>20. CASE Reconnect
  BY <1>20 DEF Reconnect
<1>21. CASE Connected
  BY <1>21 DEF Connected
<1>22. ASSUME NEW m \in flushing, Flush(m)
      PROVE  (Writing /\ Held)'
  BY <1>22 DEF Flush, SendTextMessage
<1>23. CASE Flushed
  BY <1>23 DEF Flushed
<1>24. CASE ConnectFails
  BY <1>24 DEF ConnectFails, scheduleReconnect
<1>25. CASE Canceled
  BY <1>25 DEF Canceled
<1>26. CASE Quit
  BY <1>26 DEF Quit
<1>27. CASE CloseStream
  BY <1>27 DEF CloseStream
<1>28. CASE Disconnected
  BY <1>28 DEF Disconnected
<1>29. CASE Disconnect
  BY <1>29 DEF Disconnect
<1>30. CASE Peer
  BY <1>30 DEF Peer
<1>31. CASE UNCHANGED vars
  BY <1>31 DEF vars
<1>32. ASSUME NEW c \in Calls, CallWrites(c)
      PROVE  (Writing /\ Held)'
  BY <1>32 DEF CallWrites, Write
<1>33. CASE ReaderWrites
  BY <1>33 DEF ReaderWrites, Write
<1>34. ASSUME NEW m \in flushing, FlushWrites(m)
      PROVE  (Writing /\ Held)'
  BY <1>34 DEF FlushWrites, Write
<1>35. CASE Find
  BY <1>35 DEF Find
<1>36. CASE Take
  BY <1>36 DEF Take
<1>37. CASE ConnectRefused
  BY <1>37 DEF ConnectRefused
<1> QED
  BY <1>2, <1>3, <1>4, <1>5, <1>6, <1>7, <1>8, <1>9, <1>10, <1>11, <1>12, <1>13,
     <1>14, <1>15, <1>16, <1>17, <1>18, <1>19, <1>20, <1>21, <1>22, <1>23, <1>24, <1>25,
     <1>26, <1>27, <1>28, <1>29, <1>30, <1>31,
     <1>32, <1>33, <1>34, <1>35, <1>36, <1>37
     DEF Next, Client, Reader, Worker, Closer, LostConnection

(* What becomes of a call that is open.                                    *)
LEMMA SoughtStep ==
    ASSUME FInv, [Next]_vars
    PROVE  (Tabled /\ Sought)'
<1> USE DEF net, table, queues, timer, config, locks, history
<1>1. /\ pc \in [Threads -> Places] /\ Calls \subseteq Threads /\ {"reader", "worker", "closer"} \subseteq Threads
      /\ \A a \in {"reader", "worker", "closer", "request", "none", "pending", "failed"} : a \notin Calls
  BY WsClientAssumption DEF FInv, CInv, TypeOK, Threads
<1> USE <1>1 DEF FInv, Goto, CInv, TypeOK, Calling, Locking, Paths, Closing, Cleared, Running, Held, Tabled, Sought, Kept, Losing
<1>2. ASSUME NEW c \in Calls, CallAsync(c)
      PROVE  (Tabled /\ Sought)'
  BY <1>2 DEF CallAsync, SendTextMessage
<1>3. ASSUME NEW c \in Calls, Insert(c)
      PROVE  (Tabled /\ Sought)'
  BY <1>3 DEF Insert
<1>4. ASSUME NEW t \in Threads, Removed(t)
      PROVE  (Tabled /\ Sought)'
  BY <1>4 DEF Removed
<1>5. CASE Relock
  BY <1>5 DEF Relock
<1>6. ASSUME NEW t \in Threads, NEW c \in Calls, Fail(t, c)
      PROVE  (Tabled /\ Sought)'
  BY <1>6 DEF Fail
<1>7. ASSUME NEW c \in Calls, pc[c] = "lost", Lost(c, "insert")
      PROVE  (Tabled /\ Sought)'
  BY <1>7 DEF Lost, scheduleReconnect
<1>8. CASE pc["worker"] = "lost" /\ Lost("worker", "flush")
  BY <1>8 DEF Lost, scheduleReconnect
<1>9. CASE pc["reader"] = "lost" /\ Lost("reader", "loop")
  BY <1>9 DEF Lost, scheduleReconnect
<1>10. CASE pc["reader"] = "drop" /\ Lost("reader", "end")
  BY <1>10 DEF Lost, scheduleReconnect
<1>11. CASE Event
  BY <1>11 DEF Event
<1>12. CASE WakeUp
  BY <1>12 DEF WakeUp
<1>13. CASE NoStream
  BY <1>13 DEF NoStream
<1>14. ASSUME NEW c \in Calls, Response(c)
      PROVE  (Tabled /\ Sought)'
  BY <1>14 DEF Response
<1>15. CASE Request
  BY <1>15 DEF Request
<1>16. CASE sendResponse
  BY <1>16 DEF sendResponse, SendTextMessage
<1>17. CASE Rearm
  BY <1>17 DEF Rearm
<1>18. CASE ReaderEnds
  BY <1>18 DEF ReaderEnds
<1>19. ASSUME NEW j \in jobs, RunJob(j)
      PROVE  (Tabled /\ Sought)'
  BY <1>19 DEF RunJob
<1>20. CASE Reconnect
  BY <1>20 DEF Reconnect
<1>21. CASE Connected
  BY <1>21 DEF Connected
<1>22. ASSUME NEW m \in flushing, Flush(m)
      PROVE  (Tabled /\ Sought)'
  BY <1>22 DEF Flush, SendTextMessage
<1>23. CASE Flushed
  BY <1>23 DEF Flushed
<1>24. CASE ConnectFails
  BY <1>24 DEF ConnectFails, scheduleReconnect
<1>25. CASE Canceled
  BY <1>25 DEF Canceled
<1>26. CASE Quit
  BY <1>26 DEF Quit
<1>27. CASE CloseStream
  BY <1>27 DEF CloseStream
<1>28. CASE Disconnected
  BY <1>28 DEF Disconnected
<1>29. CASE Disconnect
  BY <1>29 DEF Disconnect
<1>30. CASE Peer
  BY <1>30 DEF Peer
<1>31. CASE UNCHANGED vars
  BY <1>31 DEF vars
<1>32. ASSUME NEW c \in Calls, CallWrites(c)
      PROVE  (Tabled /\ Sought)'
  BY <1>32 DEF CallWrites, Write
<1>33. CASE ReaderWrites
  BY <1>33 DEF ReaderWrites, Write
<1>34. ASSUME NEW m \in flushing, FlushWrites(m)
      PROVE  (Tabled /\ Sought)'
  BY <1>34 DEF FlushWrites, Write
<1>35. CASE Find
  BY <1>35 DEF Find
<1>36. CASE Take
  BY <1>36 DEF Take
<1>37. CASE ConnectRefused
  BY <1>37 DEF ConnectRefused
<1> QED
  BY <1>2, <1>3, <1>4, <1>5, <1>6, <1>7, <1>8, <1>9, <1>10, <1>11, <1>12, <1>13,
     <1>14, <1>15, <1>16, <1>17, <1>18, <1>19, <1>20, <1>21, <1>22, <1>23, <1>24, <1>25,
     <1>26, <1>27, <1>28, <1>29, <1>30, <1>31,
     <1>32, <1>33, <1>34, <1>35, <1>36, <1>37
     DEF Next, Client, Reader, Worker, Closer, LostConnection

(* Crashes, and the reconnect after a loss.                                *)
LEMMA ReasonsStep ==
    ASSUME FInv, [Next]_vars
    PROVE  Reasons'
<1> USE DEF net, table, queues, timer, config, locks, history
<1>1. /\ pc \in [Threads -> Places] /\ Calls \subseteq Threads /\ {"reader", "worker", "closer"} \subseteq Threads
      /\ \A a \in {"reader", "worker", "closer", "request", "none", "pending", "failed"} : a \notin Calls
  BY WsClientAssumption DEF FInv, CInv, TypeOK, Threads
<1> USE <1>1 DEF FInv, Goto, Unguarded, Locking, Paths, Closing, Running, Writing, Reasons, Losing, GaveUp
<1>2. ASSUME NEW c \in Calls, CallAsync(c)
      PROVE  Reasons'
  BY <1>2 DEF CallAsync, SendTextMessage
<1>3. ASSUME NEW c \in Calls, Insert(c), crash = "none"
      PROVE  Reasons'
  BY <1>3 DEF Insert
<1>4. ASSUME NEW t \in Threads, Removed(t)
      PROVE  Reasons'
  BY <1>4 DEF Removed
<1>5. CASE Relock
  BY <1>5 DEF Relock
<1>6. ASSUME NEW t \in Threads, NEW c \in Calls, Fail(t, c)
      PROVE  Reasons'
  BY <1>6 DEF Fail
<1>7. ASSUME NEW c \in Calls, pc[c] = "lost", Lost(c, "insert")
      PROVE  Reasons'
  BY <1>7 DEF Lost, scheduleReconnect
<1>8. CASE pc["worker"] = "lost" /\ Lost("worker", "flush")
  BY <1>8 DEF Lost, scheduleReconnect
<1>9. CASE pc["reader"] = "lost" /\ Lost("reader", "loop")
  BY <1>9 DEF Lost, scheduleReconnect
<1>10. CASE pc["reader"] = "drop" /\ Lost("reader", "end")
  BY <1>10 DEF Lost, scheduleReconnect
<1>11. CASE Event
  BY <1>11 DEF Event
<1>12. CASE WakeUp
  BY <1>12 DEF WakeUp
<1>13. CASE NoStream
  BY <1>13 DEF NoStream
<1>14. ASSUME NEW c \in Calls, Response(c)
      PROVE  Reasons'
  BY <1>14 DEF Response
<1>15. CASE Request
  BY <1>15 DEF Request
<1>16. CASE sendResponse
  BY <1>16 DEF sendResponse, SendTextMessage
<1>17. CASE Rearm
  BY <1>17 DEF Rearm
<1>18. CASE ReaderEnds
  BY <1>18 DEF ReaderEnds
<1>19. ASSUME NEW j \in jobs, RunJob(j)
      PROVE  Reasons'
  BY <1>19 DEF RunJob
<1>20. CASE Reconnect
  BY <1>20 DEF Reconnect
<1>21. CASE Connected /\ crash = "none"
  BY <1>21 DEF Connected
<1>22. ASSUME NEW m \in flushing, Flush(m)
      PROVE  Reasons'
  BY <1>22 DEF Flush, SendTextMessage
<1>23. CASE Flushed /\ crash = "none"
  BY <1>23 DEF Flushed
<1>24. CASE ConnectFails /\ crash = "none"
  BY <1>24 DEF ConnectFails, scheduleReconnect
<1>25. CASE Canceled
  BY <1>25 DEF Canceled
<1>26. CASE Quit
  BY <1>26 DEF Quit
<1>27. CASE CloseStream
  BY <1>27 DEF CloseStream
<1>28. CASE Disconnected
  BY <1>28 DEF Disconnected
<1>29. CASE Disconnect
  BY <1>29 DEF Disconnect
<1>30. CASE Peer
  BY <1>30 DEF Peer
<1>31. CASE UNCHANGED vars
  BY <1>31 DEF vars
<1>32. ASSUME NEW c \in Calls, CallWrites(c)
      PROVE  Reasons'
  BY <1>32 DEF CallWrites, Write
<1>33. CASE ReaderWrites
  BY <1>33 DEF ReaderWrites, Write
<1>34. ASSUME NEW m \in flushing, FlushWrites(m)
      PROVE  Reasons'
  BY <1>34 DEF FlushWrites, Write
<1>35. CASE Find
  BY <1>35 DEF Find
<1>36. CASE Take
  BY <1>36 DEF Take
<1>37. CASE ConnectRefused /\ crash = "none"
  BY <1>37 DEF ConnectRefused
<1> QED
  BY <1>2, <1>3, <1>4, <1>5, <1>6, <1>7, <1>8, <1>9, <1>10, <1>11, <1>12, <1>13,
     <1>14, <1>15, <1>16, <1>17, <1>18, <1>19, <1>20, <1>21, <1>22, <1>23, <1>24, <1>25,
     <1>26, <1>27, <1>28, <1>29, <1>30, <1>31,
     <1>32, <1>33, <1>34, <1>35, <1>36, <1>37
     DEF Next, Client, Reader, Worker, Closer, LostConnection

LEMMA FInit == Init => FInv
<1> SUFFICES ASSUME Init PROVE FInv
  OBVIOUS
<1>1. \A t \in Threads : pc[t] = "idle"
  BY DEF Init
<1>2. Locking /\ Running /\ Paths /\ Closing /\ Cleared
  BY <1>1 DEF Init, Threads, Locking, Running, Paths, Closing, Cleared
<1>3. Writing /\ Held /\ Tabled /\ Sought /\ Reasons
  BY <1>1, WsClientAssumption DEF Init, Threads, Writing, Held, Tabled, Sought, Reasons
<1> QED
  BY CInit, <1>2, <1>3 DEF FInv

LEMMA FStep == FInv /\ [Next]_vars => FInv'
BY CStep, PathsStep, ClosingStep, HeldStep, SoughtStep, ReasonsStep DEF FInv

LEMMA FInvConsistent == FInv => Consistent
<1> SUFFICES ASSUME FInv PROVE Consistent
  OBVIOUS
<1>1. NoCallForgotten
  BY DEF FInv, CInv, Tabled, Sought, Kept, Losing, NoCallForgotten
<1>2. KnownCrashes
  BY DEF FInv, Reasons, Losing, GaveUp, KnownCrashes
<1> QED
  BY <1>1, <1>2 DEF Consistent

-----------------------------------------------------------------------------
(* All state of the client keeps its type.                                 *)
THEOREM TypeCorrect == Spec => []TypeOK
<1>1. CInv => TypeOK
  BY DEF CInv
<1> QED
  BY <1>1, CInit, CStep, PTL DEF Spec

(* Each call is settled at most once, by its own answer or by the loss of  *)
(* a connection, however often the client reconnects (callAsync,           *)
(* processMessage, onLostConnection).                                      *)
THEOREM ImplementsCalls == Spec => EachCallOnce
<1>1. Init => Promised!Init
  BY DEF Init, Promised!Init
<1> QED
  BY <1>1, CInit, CStep, PTL DEF Spec, EachCallOnce, Promised!Spec

(* No open call is forgotten, but for the three ways the code has; a       *)
(* program that crashes has used what disconnect() or the reader took, or  *)
(* a table another thread was changing; and a connection that is lost is   *)
(* made again unless the server refuses the handshake (callAsync,          *)
(* processMessage, onLostConnection, reconnect).                           *)
THEOREM AlwaysConsistent == Spec => []Consistent
BY FInit, FStep, FInvConsistent, PTL DEF Spec

-----------------------------------------------------------------------------
(* WsPage, for any calls of the page and any bounds: the client of         *)
(* wsrpc.js.                                                               *)

ReadyStates == {"connecting", "open", "closing", "broken", "closed"}
Methods == {"succeeds", "fails", "promises", "unknown"}
ToServer == PageCalls \cup Replies
ToPage == PageCalls \cup Nat

(* Types of the page, the sockets and the server.                          *)
PageTyped ==
    /\ connection \in 0..Len(socket) /\ opened \in BOOLEAN /\ reconnectIfNeed \in BOOLEAN
    /\ idtable \subseteq PageCalls /\ dialogs \in Nat
    /\ socket \in Seq(ReadyStates)
    /\ fromPage \in Seq(Seq(ToServer)) /\ Len(fromPage) = Len(socket)
    /\ toPage \in Seq(Seq(ToPage)) /\ Len(toPage) = Len(socket)
    /\ executed \in [PageCalls -> Nat] /\ DOMAIN fate = PageCalls
    /\ promised \subseteq Nat
    /\ answers \in Seq([by : Nat, as : {"error", "result", "stray"}, to : Nat])
    /\ asked \in Seq([on : Nat, method : Methods])
    /\ connects \in Nat /\ closes \in Nat /\ faults \in Nat /\ retries \in Nat

-----------------------------------------------------------------------------
(* What is done to the messages under way. *)

(* Messages are added behind those to one of the sockets.                  *)
LEMMA AddedTo ==
    ASSUME NEW M, NEW Q \in Seq(Seq(M)), NEW at \in DOMAIN Q, NEW ms \in Seq(M),
           NEW R, R = [Q EXCEPT ![at] = @ \o ms]
    PROVE  /\ R \in Seq(Seq(M)) /\ Len(R) = Len(Q) /\ DOMAIN R = DOMAIN Q
           /\ \A s \in DOMAIN Q : s # at => R[s] = Q[s]
           /\ Len(R[at]) = Len(Q[at]) + Len(ms)
           /\ \A i \in 1..Len(Q[at]) : R[at][i] = Q[at][i]
           /\ \A i \in 1..Len(R[at]) : i \notin 1..Len(Q[at]) =>
                 /\ i - Len(Q[at]) \in 1..Len(ms) /\ R[at][i] = ms[i - Len(Q[at])]
           /\ DOMAIN R[at] = 1..Len(R[at]) /\ DOMAIN Q[at] = 1..Len(Q[at])
<1>1. Q[at] \in Seq(M) /\ Q[at] \o ms \in Seq(M) /\ Len(Q[at] \o ms) = Len(Q[at]) + Len(ms)
  OBVIOUS
<1>2. R[at] = Q[at] \o ms /\ DOMAIN R = DOMAIN Q /\ DOMAIN Q = 1..Len(Q)
  OBVIOUS
<1>3. R \in Seq(Seq(M)) /\ Len(R) = Len(Q)
  <2>1. \A s \in 1..Len(Q) : R[s] \in Seq(M)
    BY <1>1, <1>2
  <2> QED
    BY <1>2, <2>1
<1>4. \A i \in 1..Len(Q[at]) : R[at][i] = Q[at][i]
  BY <1>1, <1>2
<1>5. \A i \in 1..Len(R[at]) : i \notin 1..Len(Q[at]) =>
                 /\ i - Len(Q[at]) \in 1..Len(ms) /\ R[at][i] = ms[i - Len(Q[at])]
  BY <1>1, <1>2
<1> QED
  BY <1>1, <1>2, <1>3, <1>4, <1>5

LEMMA OneMore ==
    ASSUME NEW M, NEW q \in Seq(M), NEW m, m \in M
    PROVE  /\ \A i \in DOMAIN (q \o <<m>>) : \/ i \in DOMAIN q /\ (q \o <<m>>)[i] = q[i]
                                             \/ i = Len(q) + 1 /\ (q \o <<m>>)[i] = m
           /\ Len(q) + 1 \notin DOMAIN q
OBVIOUS

LEMMA OneAppended ==
    ASSUME NEW M, NEW q \in Seq(M), NEW m, m \in M, NEW r, r = Append(q, m)
    PROVE  /\ DOMAIN r = DOMAIN q \cup {Len(q) + 1} /\ Len(q) + 1 \notin DOMAIN q
           /\ \A i \in DOMAIN q : r[i] = q[i]
           /\ r[Len(q) + 1] = m /\ r = q \o <<m>>
OBVIOUS

(* The first message of one of them is taken.                              *)
LEMMA HeadTaken ==
    ASSUME NEW M, NEW Q \in Seq(Seq(M)), NEW at \in DOMAIN Q, Q[at] # <<>>,
           NEW R, R = [Q EXCEPT ![at] = Tail(@)]
    PROVE  /\ R \in Seq(Seq(M)) /\ Len(R) = Len(Q) /\ DOMAIN R = DOMAIN Q
           /\ \A s \in DOMAIN Q : s # at => R[s] = Q[s]
           /\ 1 \in DOMAIN Q[at] /\ Head(Q[at]) = Q[at][1] /\ Head(Q[at]) \in M
           /\ \A i \in DOMAIN R[at] : i + 1 \in DOMAIN Q[at] /\ R[at][i] = Q[at][i + 1] /\ i \in Nat /\ i > 0
<1>1. Q[at] \in Seq(M) /\ Tail(Q[at]) \in Seq(M) /\ Len(Tail(Q[at])) = Len(Q[at]) - 1 /\ Len(Q[at]) > 0
  OBVIOUS
<1>2. R[at] = Tail(Q[at]) /\ DOMAIN R = DOMAIN Q /\ DOMAIN Q = 1..Len(Q)
  OBVIOUS
<1>3. R \in Seq(Seq(M)) /\ Len(R) = Len(Q)
  <2>1. \A s \in 1..Len(Q) : R[s] \in Seq(M)
    BY <1>1, <1>2
  <2> QED
    BY <1>2, <2>1
<1>4. \A i \in DOMAIN R[at] : i + 1 \in DOMAIN Q[at] /\ R[at][i] = Q[at][i + 1] /\ i \in Nat /\ i > 0
  BY <1>1, <1>2
<1>5. 1 \in DOMAIN Q[at] /\ Head(Q[at]) = Q[at][1] /\ Head(Q[at]) \in M
  BY <1>1
<1> QED
  BY <1>1, <1>2, <1>3, <1>4, <1>5

(* One of them loses its messages.                                         *)
LEMMA Emptied ==
    ASSUME NEW M, NEW Q \in Seq(Seq(M)), NEW at \in DOMAIN Q,
           NEW R, R = [Q EXCEPT ![at] = <<>>]
    PROVE  /\ R \in Seq(Seq(M)) /\ Len(R) = Len(Q) /\ DOMAIN R = DOMAIN Q
           /\ \A s \in DOMAIN Q : s # at => R[s] = Q[s]
           /\ R[at] = <<>> /\ DOMAIN R[at] = {}
<1>1. R[at] = <<>> /\ DOMAIN R = DOMAIN Q /\ DOMAIN Q = 1..Len(Q)
  OBVIOUS
<1>2. R \in Seq(Seq(M)) /\ Len(R) = Len(Q)
  <2>1. \A s \in 1..Len(Q) : R[s] \in Seq(M)
    BY <1>1
  <2> QED
    BY <1>1, <2>1
<1> QED
  BY <1>1, <1>2

(* A socket more, with no messages.                                        *)
LEMMA QueueAdded ==
    ASSUME NEW M, NEW Q \in Seq(Seq(M)), NEW R, R = Append(Q, <<>>)
    PROVE  /\ R \in Seq(Seq(M)) /\ Len(R) = Len(Q) + 1
           /\ \A s \in DOMAIN Q : s \in DOMAIN R /\ R[s] = Q[s]
           /\ \A s \in DOMAIN R : s \in DOMAIN Q \/ s = Len(Q) + 1
           /\ R[Len(Q) + 1] = <<>> /\ DOMAIN R[Len(Q) + 1] = {} /\ Len(Q) + 1 \notin DOMAIN Q
<1>1. <<>> \in Seq(M)
  OBVIOUS
<1> QED
  BY <1>1

-----------------------------------------------------------------------------
(* Types *)

(* What an open page sends: the calls or replies, behind what is there.    *)
LEMMA SentForm ==
    ASSUME PageTyped, NEW sockets, NEW messages, fromPage' = Sent(sockets, messages)
    PROVE  \/ fromPage' = fromPage
           \/ /\ connection \in DOMAIN fromPage /\ connection # 0 /\ sockets[connection] = "open"
              /\ fromPage' = [fromPage EXCEPT ![connection] = @ \o messages]
BY DEF PageTyped, Sent, Throws

LEMMA SentTyped ==
    ASSUME PageTyped, NEW sockets, NEW messages \in Seq(ToServer), fromPage' = Sent(sockets, messages)
    PROVE  fromPage' \in Seq(Seq(ToServer)) /\ Len(fromPage') = Len(fromPage)
<1>1. fromPage \in Seq(Seq(ToServer))
  BY DEF PageTyped
<1>2. messages \in Seq(ToServer)
  OBVIOUS
<1>3. ASSUME connection \in DOMAIN fromPage, fromPage' = [fromPage EXCEPT ![connection] = @ \o messages]
      PROVE  fromPage' \in Seq(Seq(ToServer)) /\ Len(fromPage') = Len(fromPage)
  BY <1>1, <1>2, <1>3, AddedTo
<1> QED
  BY <1>1, <1>3, SentForm

LEMMA SocketAdded ==
    ASSUME PageTyped, NEW sockets \in Seq(ReadyStates), Len(sockets) = Len(socket), NewSocket(sockets)
    PROVE  /\ socket' \in Seq(ReadyStates) /\ Len(socket') = Len(socket) + 1
           /\ connection' = Len(socket') /\ connection' \in 0..Len(socket') /\ connection' # 0 /\ reconnectIfNeed' = TRUE
           /\ socket'[connection'] = "connecting" /\ connection' \notin DOMAIN socket
           /\ \A s \in DOMAIN socket' : s = connection' \/ (s \in DOMAIN socket /\ socket'[s] = sockets[s])
           /\ fromPage' \in Seq(Seq(ToServer)) /\ Len(fromPage') = Len(socket')
           /\ toPage' \in Seq(Seq(ToPage)) /\ Len(toPage') = Len(socket')
           /\ fromPage' = Append(fromPage, <<>>) /\ toPage' = Append(toPage, <<>>)
<1>1. "connecting" \in ReadyStates
  BY DEF ReadyStates
<1>2. fromPage' \in Seq(Seq(ToServer)) /\ Len(fromPage') = Len(fromPage) + 1
  BY QueueAdded DEF PageTyped, NewSocket
<1>3. toPage' \in Seq(Seq(ToPage)) /\ Len(toPage') = Len(toPage) + 1
  BY QueueAdded DEF PageTyped, NewSocket
<1>4. socket' \in Seq(ReadyStates) /\ Len(socket') = Len(socket) + 1
  BY <1>1 DEF NewSocket
<1>5. /\ connection' = Len(socket') /\ connection' \in 0..Len(socket') /\ connection' # 0 /\ reconnectIfNeed' = TRUE
      /\ socket'[connection'] = "connecting" /\ connection' \notin DOMAIN socket
  BY <1>1, <1>4 DEF NewSocket, PageTyped
<1>6. \A s \in DOMAIN socket' : s = connection' \/ (s \in DOMAIN socket /\ socket'[s] = sockets[s])
  <2>1. socket \in Seq(ReadyStates) /\ socket' = Append(sockets, "connecting") /\ connection' = Len(sockets) + 1
    BY DEF NewSocket, PageTyped
  <2> QED
    BY <1>1, <2>1
<1>7. fromPage' = Append(fromPage, <<>>) /\ toPage' = Append(toPage, <<>>)
  BY DEF NewSocket
<1> QED
  BY <1>2, <1>3, <1>4, <1>5, <1>6, <1>7 DEF PageTyped

(* The state of one WebSocket is set. *)
LEMMA StateSet ==
    ASSUME PageTyped, NEW s \in Sockets, NEW state \in ReadyStates,
           NEW sockets, sockets = [socket EXCEPT ![s] = state]
    PROVE  /\ sockets \in Seq(ReadyStates) /\ Len(sockets) = Len(socket) /\ DOMAIN sockets = DOMAIN socket
           /\ sockets[s] = state /\ \A t \in Sockets : t # s => sockets[t] = socket[t]
BY DEF PageTyped, Sockets

LEMMA OrderTyped ==
    ASSUME Admissible, NEW cs \in SUBSET PageCalls, NEW order \in Orders(cs)
    PROVE  /\ order \in Seq(PageCalls) /\ \A i \in DOMAIN order : order[i] \in cs
           /\ \A i, j \in DOMAIN order : order[i] = order[j] => i = j
<1>1. Len(Script) \in Nat
  BY DEF Admissible
<1>2. PICK n \in 0..Len(Script) : order \in [1..n -> cs]
  BY DEF Orders
<1>3. order \in Seq(cs)
  BY <1>1, <1>2
<1> QED
  BY <1>3 DEF Orders, IsInjective

LEMMA CleanupTyped ==
    ASSUME PageTyped, NEW keeprq \in BOOLEAN, Cleanup(keeprq)
    PROVE  opened' = FALSE /\ idtable' \in SUBSET PageCalls /\ DOMAIN fate' = PageCalls
BY DEF PageTyped, Cleanup, Rejected

LEMMA PageTypedInit == PageInit => PageTyped
<1> SUFFICES ASSUME PageInit PROVE PageTyped
  OBVIOUS
<1>1. /\ <<>> \in Seq(ReadyStates) /\ <<>> \in Seq(Seq(ToServer)) /\ <<>> \in Seq(Seq(ToPage))
      /\ <<>> \in Seq([by : Nat, as : {"error", "result", "stray"}, to : Nat])
      /\ <<>> \in Seq([on : Nat, method : Methods]) /\ Len(<<>>) = 0
  OBVIOUS
<1>2. executed \in [PageCalls -> Nat] /\ DOMAIN fate = PageCalls
  BY DEF PageInit
<1>5. connection = 0 /\ Len(socket) = 0
  BY <1>1 DEF PageInit
<1>6. connection \in 0..Len(socket)
  BY <1>5
<1>3. /\ opened \in BOOLEAN /\ reconnectIfNeed \in BOOLEAN
      /\ idtable \subseteq PageCalls /\ dialogs \in Nat /\ promised \subseteq Nat
      /\ connects \in Nat /\ closes \in Nat /\ faults \in Nat /\ retries \in Nat
  BY DEF PageInit
<1>4. socket = <<>> /\ fromPage = <<>> /\ toPage = <<>> /\ answers = <<>> /\ asked = <<>>
  BY DEF PageInit
<1> QED
  BY <1>1, <1>2, <1>3, <1>4, <1>6 DEF PageTyped

LEMMA ConnectTyped ==
    ASSUME PageTyped, Connect \/ Close \/ (\E retry \in BOOLEAN : Resolve(retry))
    PROVE  PageTyped'
<1>1. socket \in Seq(ReadyStates)
  BY DEF PageTyped
<1>2. CASE Connect
  <2>1. NewSocket(socket)
    BY <1>2 DEF Connect
  <2>2. connects' \in Nat
    BY <1>2 DEF Connect, PageTyped
  <2>3. UNCHANGED <<opened, idtable, dialogs, fate, executed, promised, answers, asked, closes, faults, retries>>
    BY <1>2 DEF Connect
  <2> QED
    BY <1>1, <2>1, <2>2, <2>3, SocketAdded DEF PageTyped
<1>3. ASSUME NEW retry \in BOOLEAN, Resolve(retry)
      PROVE  PageTyped'
  <2>1. NewSocket(socket) /\ Cleanup(retry)
    BY <1>3 DEF Resolve
  <2>3. dialogs' \in Nat /\ retries' \in Nat
    BY <1>3 DEF Resolve, PageTyped
  <2> QED
    BY <1>1, <1>3, <2>1, <2>3, SocketAdded, CleanupTyped DEF PageTyped, Resolve
<1>4. CASE Close
  <2>0. closes' \in Nat /\ reconnectIfNeed' = FALSE
    BY <1>4 DEF Close, PageTyped
  <2>1. CASE connection = 0
    <3>1. UNCHANGED <<socket, connection, opened, idtable, fate>>
      BY <1>4, <2>1 DEF Close
    <3>2. UNCHANGED <<dialogs, fromPage, toPage, executed, promised, answers, asked, connects, faults, retries>>
      BY <1>4 DEF Close
    <3> QED
      BY <2>0, <3>1, <3>2 DEF PageTyped
  <2>2. CASE connection # 0
    <3>1. connection \in Sockets /\ socket[connection] \in ReadyStates
      BY <2>2 DEF PageTyped, Sockets
    <3>2. PICK state \in ReadyStates : socket' = [socket EXCEPT ![connection] = state]
      <4>1. CASE socket[connection] \in {"connecting", "open"}
        BY <1>4, <2>2, <4>1 DEF Close, ReadyStates
      <4>2. CASE socket[connection] \notin {"connecting", "open"}
        BY <1>4, <2>2, <3>1, <4>2 DEF Close
      <4> QED
        BY <4>1, <4>2
    <3>3. socket' \in Seq(ReadyStates) /\ Len(socket') = Len(socket)
      BY <3>1, <3>2, StateSet
    <3>4. Cleanup(FALSE) /\ connection' = 0
      BY <1>4, <2>2 DEF Close
    <3>5. connection' \in 0..Len(socket')
      BY <3>3, <3>4
    <3>6. UNCHANGED <<dialogs, fromPage, toPage, executed, promised, answers, asked, connects, faults, retries>>
      BY <1>4 DEF Close
    <3> QED
      BY <2>0, <3>3, <3>4, <3>5, <3>6, CleanupTyped DEF PageTyped
  <2> QED
    BY <2>1, <2>2
<1> QED
  BY <1>2, <1>3, <1>4

LEMMA CloseEventTyped ==
    ASSUME PageTyped, NEW s \in Sockets, OnClose(s)
    PROVE  PageTyped'
<1> DEFINE sockets == [socket EXCEPT ![s] = "closed"]
<1>1. sockets \in Seq(ReadyStates) /\ Len(sockets) = Len(socket)
  BY StateSet DEF ReadyStates
<1>2. CASE reconnectIfNeed /\ idtable = {}
  <2>1. NewSocket(sockets) /\ Cleanup(FALSE)
    BY <1>2 DEF OnClose
  <2> HIDE DEF sockets
  <2> QED
    BY <1>1, <1>2, <2>1, SocketAdded, CleanupTyped DEF PageTyped, OnClose, bounds
<1>3. CASE ~(reconnectIfNeed /\ idtable = {})
  <2>1. socket' = sockets /\ dialogs' = dialogs + (IF reconnectIfNeed THEN 1 ELSE 0)
        /\ UNCHANGED <<connection, opened, reconnectIfNeed, idtable, fromPage, toPage, fate>>
    BY <1>3 DEF OnClose
  <2>2. dialogs' \in Nat
    BY <2>1 DEF PageTyped
  <2>3. UNCHANGED <<executed, promised, answers, bounds>>
    BY DEF OnClose
  <2> HIDE DEF sockets
  <2> QED
    BY <1>1, <2>1, <2>2, <2>3 DEF PageTyped, bounds
<1> QED
  BY <1>2, <1>3

LEMMA CallTyped ==
    ASSUME Admissible, PageTyped, (\E c \in PageCalls : CallMethod(c)) \/ \E s \in Sockets : OnOpen(s)
    PROVE  PageTyped'
<1>1. ASSUME NEW c \in PageCalls, CallMethod(c)
      PROVE  PageTyped'
  <2>1. <<c>> \in Seq(ToServer) /\ idtable \cup {c} \subseteq PageCalls
    BY DEF PageTyped, ToServer
  <2>2. fromPage' \in Seq(Seq(ToServer)) /\ Len(fromPage') = Len(fromPage)
    <3>1. CASE opened
      BY <1>1, <2>1, <3>1, SentTyped DEF CallMethod
    <3>2. CASE ~opened
      BY <1>1, <3>2 DEF CallMethod, PageTyped
    <3> QED
      BY <3>1, <3>2
  <2> QED
    BY <1>1, <2>1, <2>2 DEF PageTyped, CallMethod, bounds
<1>2. ASSUME NEW s \in Sockets, OnOpen(s)
      PROVE  PageTyped'
  <2>1. socket' \in Seq(ReadyStates) /\ Len(socket') = Len(socket)
    <3>1. "open" \in ReadyStates /\ socket' = [socket EXCEPT ![s] = "open"]
      BY <1>2 DEF ReadyStates, OnOpen
    <3> QED
      BY <3>1, StateSet
  <2>2. PICK order \in Orders(idtable) : fromPage' = Sent(socket', order)
    BY <1>2 DEF OnOpen
  <2>3. order \in Seq(ToServer)
    <3>1. order \in Seq(PageCalls)
      BY OrderTyped DEF PageTyped
    <3> QED
      BY <3>1 DEF ToServer
  <2>4. fromPage' \in Seq(Seq(ToServer)) /\ Len(fromPage') = Len(fromPage)
    BY <2>2, <2>3, SentTyped
  <2> QED
    BY <1>2, <2>1, <2>4 DEF PageTyped, OnOpen, bounds
<1> QED
  BY <1>1, <1>2

LEMMA MessageTyped ==
    ASSUME Admissible, PageTyped, NEW s \in Sockets, OnResponse(s) \/ OnRequest(s)
    PROVE  PageTyped'
<1>1. toPage \in Seq(Seq(ToPage)) /\ s \in DOMAIN toPage
  BY DEF PageTyped, Sockets
<1>2. toPage[s] # <<>> /\ toPage' = [toPage EXCEPT ![s] = Tail(@)]
  BY DEF OnResponse, OnRequest
<1>3. toPage' \in Seq(Seq(ToPage)) /\ Len(toPage') = Len(toPage) /\ Head(toPage[s]) \in ToPage
  BY <1>1, <1>2, HeadTaken
<1>4. CASE OnResponse(s)
  BY <1>3, <1>4 DEF PageTyped, OnResponse, bounds
<1>5. CASE OnRequest(s)
  <2> DEFINE n == Head(toPage[s])
  <2>1. n \in Nat
    BY <1>3, <1>5 DEF OnRequest, ToPage
  <2>2. ASSUME NEW as \in {"error", "result"}, fromPage' = Sent(socket, <<[as |-> as, to |-> n]>>)
        PROVE  fromPage' \in Seq(Seq(ToServer)) /\ Len(fromPage') = Len(fromPage)
    <3>1. [as |-> as, to |-> n] \in ToServer
      BY <2>1 DEF ToServer, Replies
    <3> HIDE DEF n
    <3>2. <<[as |-> as, to |-> n]>> \in Seq(ToServer)
      BY <3>1
    <3> QED
      BY <2>2, <3>2, SentTyped
  <2>3. fromPage' \in Seq(Seq(ToServer)) /\ Len(fromPage') = Len(fromPage)
    <3>1. fromPage' = fromPage \/ fromPage' = Sent(socket, <<[as |-> "error", to |-> n]>>)
          \/ fromPage' = Sent(socket, <<[as |-> "result", to |-> n]>>)
      BY <1>5 DEF OnRequest
    <3> QED
      BY <2>2, <3>1 DEF PageTyped
  <2>4. promised' \subseteq Nat
    BY <1>5, <2>1 DEF OnRequest, PageTyped
  <2> HIDE DEF n
  <2> QED
    BY <1>3, <1>5, <2>3, <2>4 DEF PageTyped, OnRequest, client, calls, bounds
<1> QED
  BY <1>4, <1>5

LEMMA PromisedTyped ==
    ASSUME PageTyped, NEW n \in promised, PromiseResolves(n)
    PROVE  PageTyped'
<1>1. <<[as |-> "stray", to |-> n]>> \in Seq(ToServer)
  BY DEF PageTyped, ToServer, Replies
<1>2. fromPage' \in Seq(Seq(ToServer)) /\ Len(fromPage') = Len(fromPage)
  BY <1>1, SentTyped DEF PromiseResolves
<1> QED
  BY <1>2 DEF PageTyped, PromiseResolves, client, calls, bounds

LEMMA ServeTyped ==
    ASSUME Admissible, PageTyped, NEW s \in Sockets, Serve(s)
    PROVE  PageTyped'
<1>1. fromPage \in Seq(Seq(ToServer)) /\ s \in DOMAIN fromPage /\ s \in Nat
      /\ toPage \in Seq(Seq(ToPage)) /\ s \in DOMAIN toPage
  BY DEF PageTyped, Sockets
<1>2. fromPage[s] # <<>> /\ fromPage' = [fromPage EXCEPT ![s] = Tail(@)]
  BY DEF Serve
<1>3. fromPage' \in Seq(Seq(ToServer)) /\ Len(fromPage') = Len(fromPage) /\ Head(fromPage[s]) \in ToServer
  BY <1>1, <1>2, HeadTaken
<1> DEFINE m == Head(fromPage[s])
<1>4. CASE m \in PageCalls
  <2>1. toPage' = [toPage EXCEPT ![s] = Append(@, m)] /\ answers' = answers
        /\ executed' = [executed EXCEPT ![m] = @ + 1]
    BY <1>4 DEF Serve
  <2>2. toPage' = [toPage EXCEPT ![s] = @ \o <<m>>]
    <3> HIDE DEF m
    <3>1. toPage[s] \in Seq(ToPage) /\ m \in ToPage
      BY <1>1, <1>4 DEF ToPage
    <3>2. Append(toPage[s], m) = toPage[s] \o <<m>>
      BY <3>1, OneAppended
    <3> QED
      BY <2>1, <3>2
  <2>3. <<m>> \in Seq(ToPage)
    BY <1>4 DEF ToPage
  <2>4. toPage' \in Seq(Seq(ToPage)) /\ Len(toPage') = Len(toPage)
    <3> HIDE DEF m
    <3> QED
      BY <1>1, <2>2, <2>3, AddedTo
  <2>5. executed' \in [PageCalls -> Nat]
    <3> HIDE DEF m
    <3> QED
      BY <1>4, <2>1 DEF PageTyped
  <2> HIDE DEF m
  <2> QED
    BY <1>3, <2>1, <2>4, <2>5 DEF PageTyped, Serve, client, bounds
<1>5. CASE m \notin PageCalls
  <2>1. m \in Replies /\ UNCHANGED <<executed, toPage>> /\ answers' = Append(answers, [by |-> s, as |-> m.as, to |-> m.to])
    BY <1>3, <1>5 DEF Serve, ToServer
  <2>2. [by |-> s, as |-> m.as, to |-> m.to] \in [by : Nat, as : {"error", "result", "stray"}, to : Nat]
    BY <1>1, <2>1 DEF Replies
  <2> HIDE DEF m
  <2>3. answers' \in Seq([by : Nat, as : {"error", "result", "stray"}, to : Nat])
    BY <2>1, <2>2 DEF PageTyped
  <2> QED
    BY <1>3, <2>1, <2>3 DEF PageTyped, Serve, client, bounds
<1> QED
  BY <1>4, <1>5

LEMMA AskTyped ==
    ASSUME Admissible, PageTyped, NEW s \in Sockets, NEW m \in Methods, Ask(s, m)
    PROVE  /\ PageTyped'
           /\ toPage' = [toPage EXCEPT ![s] = @ \o <<Len(asked) + 1>>] /\ Len(asked) + 1 \in Nat
           /\ Len(asked') = Len(asked) + 1 /\ asked'[Len(asked) + 1] = [on |-> s, method |-> m]
           /\ \A n \in DOMAIN asked : n \in DOMAIN asked' /\ asked'[n] = asked[n]
           /\ DOMAIN asked' = DOMAIN asked \cup {Len(asked) + 1} /\ Len(asked) + 1 \notin DOMAIN asked
<1>1. s \in Nat /\ toPage \in Seq(Seq(ToPage)) /\ s \in DOMAIN toPage /\ asked \in Seq([on : Nat, method : Methods])
  BY DEF PageTyped, Sockets
<1>2. /\ asked' = Append(asked, [on |-> s, method |-> m])
      /\ toPage' = [toPage EXCEPT ![s] = Append(@, Len(asked) + 1)]
      /\ UNCHANGED <<client, socket, fromPage, fate, executed, promised, answers, connects, closes, faults, retries>>
  BY DEF Ask
<1>3. [on |-> s, method |-> m] \in [on : Nat, method : Methods]
  BY <1>1
<1>4. /\ Len(asked) + 1 \in Nat /\ Len(asked') = Len(asked) + 1 /\ asked'[Len(asked) + 1] = [on |-> s, method |-> m]
      /\ \A n \in DOMAIN asked : n \in DOMAIN asked' /\ asked'[n] = asked[n]
      /\ DOMAIN asked' = DOMAIN asked \cup {Len(asked) + 1} /\ Len(asked) + 1 \notin DOMAIN asked
      /\ asked' \in Seq([on : Nat, method : Methods])
  BY <1>1, <1>2, <1>3
<1>5. toPage' = [toPage EXCEPT ![s] = @ \o <<Len(asked) + 1>>] /\ <<Len(asked) + 1>> \in Seq(ToPage)
  <2>1. toPage[s] \in Seq(ToPage) /\ Len(asked) + 1 \in ToPage
    BY <1>1, <1>4 DEF ToPage
  <2>2. Append(toPage[s], Len(asked) + 1) = toPage[s] \o <<Len(asked) + 1>> /\ <<Len(asked) + 1>> \in Seq(ToPage)
    BY <2>1
  <2> QED
    BY <1>2, <2>2
<1>6. toPage' \in Seq(Seq(ToPage)) /\ Len(toPage') = Len(toPage)
  BY <1>1, <1>5, AddedTo
<1>7. PageTyped'
  BY <1>2, <1>4, <1>6 DEF PageTyped, client
<1> QED
  BY <1>4, <1>5, <1>7

LEMMA BreakTyped ==
    ASSUME PageTyped, NEW s \in Sockets, Break(s)
    PROVE  PageTyped'
<1>1. fromPage \in Seq(Seq(ToServer)) /\ s \in DOMAIN fromPage
      /\ toPage \in Seq(Seq(ToPage)) /\ s \in DOMAIN toPage
  BY DEF PageTyped, Sockets
<1>2. fromPage' = [fromPage EXCEPT ![s] = <<>>] /\ toPage' = [toPage EXCEPT ![s] = <<>>]
      /\ socket' = [socket EXCEPT ![s] = "broken"] /\ faults' = faults + 1
      /\ UNCHANGED <<client, fate, executed, promised, answers, asked, connects, closes, retries>>
  BY DEF Break
<1>3. socket' \in Seq(ReadyStates) /\ Len(socket') = Len(socket)
  BY <1>2, StateSet DEF ReadyStates
<1>4. fromPage' \in Seq(Seq(ToServer)) /\ Len(fromPage') = Len(fromPage)
  BY <1>1, <1>2, Emptied
<1>5. toPage' \in Seq(Seq(ToPage)) /\ Len(toPage') = Len(toPage)
  BY <1>1, <1>2, Emptied
<1>6. faults' \in Nat
  BY <1>2 DEF PageTyped
<1> QED
  BY <1>2, <1>3, <1>4, <1>5, <1>6 DEF PageTyped, client

LEMMA PageTypedNext ==
    ASSUME Admissible, PageTyped, [PageNext]_pageVars
    PROVE  PageTyped'
<1>1. CASE UNCHANGED pageVars
  BY <1>1 DEF PageTyped, pageVars, client, wires, calls, bounds
<1>2. CASE PageNext
  <2>1. ASSUME NEW s \in Sockets, OnOpen(s) \/ OnClose(s) \/ OnResponse(s) \/ OnRequest(s) \/ Serve(s)
        PROVE  PageTyped'
    BY <2>1, CallTyped, CloseEventTyped, MessageTyped, ServeTyped
  <2>2. ASSUME NEW s \in Sockets, NEW m \in {"succeeds", "fails", "promises", "unknown"}, Ask(s, m)
        PROVE  PageTyped'
    BY <2>2, AskTyped DEF Methods
  <2> QED
    BY <1>2, <2>1, <2>2, ConnectTyped, CallTyped, PromisedTyped, BreakTyped DEF PageNext, Browser
<1> QED
  BY <1>1, <1>2

-----------------------------------------------------------------------------
(* One connection *)

(* While the user has not closed the page's client, the current connection *)
(* is the last one that was made, the others are closed, and the dialog    *)
(* that offers another one comes after its end.                            *)
Alone == closes = 0 =>
    /\ connection = Len(socket)
    /\ \A s \in Sockets : socket[s] # "closing" /\ (s # connection => socket[s] = "closed")
    /\ socket # <<>> => reconnectIfNeed
    /\ dialogs > 0 => dialogs = 1 /\ connection # 0 /\ socket[connection] = "closed"
    /\ connection = 0 => ~opened
    /\ connection # 0 /\ Live(connection) => (opened <=> socket[connection] = "open")

LEMMA AloneInit == PageInit => Alone
<1> SUFFICES ASSUME PageInit PROVE Alone
  OBVIOUS
<1>1. socket = <<>> /\ connection = 0 /\ dialogs = 0 /\ opened = FALSE
  BY DEF PageInit
<1>2. DOMAIN socket = {} /\ Len(socket) = 0
  BY <1>1
<1> QED
  BY <1>1, <1>2 DEF Alone, Sockets

(* While the user does not close the page, a new connection is made when   *)
(* the last one is closed.                                                 *)
LEMMA AnewAlone ==
    ASSUME PageTyped, NEW sockets \in Seq(ReadyStates), Len(sockets) = Len(socket), NewSocket(sockets),
           opened' = FALSE, closes = 0 => dialogs' = 0 /\ \A s \in Sockets : sockets[s] = "closed", closes' = closes
    PROVE  Alone'
<1>1. /\ connection' = Len(socket') /\ connection' # 0 /\ reconnectIfNeed' = TRUE
      /\ socket'[connection'] = "connecting"
      /\ \A s \in DOMAIN socket' : s = connection' \/ (s \in DOMAIN socket /\ socket'[s] = sockets[s])
  BY SocketAdded
<1>2. connection' \in DOMAIN socket'
  BY <1>1, SocketAdded
<1> QED
  BY <1>1, <1>2 DEF Alone, Sockets, Live

LEMMA AloneKept ==
    ASSUME Alone, UNCHANGED <<connection, opened, reconnectIfNeed, dialogs, socket, closes>>
    PROVE  Alone'
BY DEF Alone, Sockets, Live

LEMMA ConnectAlone ==
    ASSUME PageTyped, Alone, Connect \/ Close \/ \E retry \in BOOLEAN : Resolve(retry)
    PROVE  Alone'
<1>1. socket \in Seq(ReadyStates) /\ DOMAIN socket = 1..Len(socket) /\ Len(socket) \in Nat
  BY DEF PageTyped
<1>2. CASE Connect
  <2>1. NewSocket(socket) /\ connection = 0 /\ opened' = opened /\ closes' = closes /\ dialogs' = dialogs
    BY <1>2 DEF Connect
  <2>2. CASE closes = 0
    <3>1. Len(socket) = 0 /\ opened = FALSE /\ dialogs = 0
      BY <1>1, <2>1, <2>2 DEF Alone, PageTyped
    <3>2. Sockets = {}
      BY <1>1, <3>1 DEF Sockets
    <3> QED
      BY <1>1, <2>1, <3>1, <3>2, AnewAlone
  <2> QED
    BY <2>1, <2>2 DEF Alone
<1>3. ASSUME NEW retry \in BOOLEAN, Resolve(retry)
      PROVE  Alone'
  <2>1. NewSocket(socket) /\ opened' = FALSE /\ closes' = closes /\ dialogs > 0 /\ dialogs' = dialogs - 1
    BY <1>3 DEF Resolve, Cleanup
  <2>2. closes = 0 => dialogs' = 0 /\ \A s \in Sockets : socket[s] = "closed"
    BY <1>1, <2>1 DEF Alone
  <2> QED
    BY <1>1, <2>1, <2>2, AnewAlone
<1>4. CASE Close
  <2>1. closes' = closes + 1
    BY <1>4 DEF Close
  <2> QED
    BY <2>1 DEF PageTyped, Alone
<1> QED
  BY <1>2, <1>3, <1>4

LEMMA CloseEventAlone ==
    ASSUME PageTyped, Alone, NEW s \in Sockets, OnClose(s)
    PROVE  Alone'
<1> DEFINE sockets == [socket EXCEPT ![s] = "closed"]
<1>1. sockets \in Seq(ReadyStates) /\ Len(sockets) = Len(socket) /\ DOMAIN sockets = DOMAIN socket
      /\ sockets[s] = "closed" /\ \A t \in Sockets : t # s => sockets[t] = socket[t]
  <2>1. "closed" \in ReadyStates
    BY DEF ReadyStates
  <2> QED
    BY <2>1 DEF PageTyped, Sockets
<1>2. socket[s] \in {"closing", "broken"} /\ closes' = closes
  BY DEF OnClose, bounds
<1>3. DOMAIN socket = 1..Len(socket) /\ Len(socket) \in Nat /\ s \in DOMAIN socket
  BY DEF PageTyped, Sockets
<1>4. closes = 0 => s = connection /\ dialogs = 0 /\ connection # 0 /\ reconnectIfNeed /\ \A t \in Sockets : sockets[t] = "closed"
  <2> SUFFICES ASSUME closes = 0
               PROVE  s = connection /\ dialogs = 0 /\ connection # 0 /\ reconnectIfNeed /\ \A t \in Sockets : sockets[t] = "closed"
    OBVIOUS
  <2>1. s = connection /\ connection # 0
    BY <1>2, <1>3 DEF Alone
  <2>2. dialogs = 0
    BY <1>2, <2>1 DEF Alone, PageTyped
  <2>3. reconnectIfNeed
    BY <1>3 DEF Alone
  <2>4. \A t \in Sockets : sockets[t] = "closed"
    BY <1>1, <2>1 DEF Alone
  <2> QED
    BY <2>1, <2>2, <2>3, <2>4
<1>5. CASE reconnectIfNeed /\ idtable = {}
  <2>1. NewSocket(sockets) /\ opened' = FALSE /\ dialogs' = dialogs
    BY <1>5 DEF OnClose, Cleanup
  <2> HIDE DEF sockets
  <2> QED
    BY <1>1, <1>2, <1>4, <2>1, AnewAlone
<1>6. CASE ~(reconnectIfNeed /\ idtable = {})
  <2>1. socket' = sockets /\ dialogs' = dialogs + (IF reconnectIfNeed THEN 1 ELSE 0)
        /\ UNCHANGED <<connection, opened, reconnectIfNeed, idtable, fromPage, toPage, fate>>
    BY <1>6 DEF OnClose
  <2> HIDE DEF sockets
  <2> SUFFICES ASSUME closes = 0
               PROVE  Alone'
    BY <1>2 DEF Alone
  <2>2. dialogs' = 1 /\ socket'[connection'] = "closed" /\ connection' # 0 /\ connection' = Len(socket')
    BY <1>1, <1>4, <2>1 DEF Alone
  <2>3. \A t \in Sockets' : socket'[t] = "closed"
    BY <1>1, <1>4, <2>1 DEF Sockets
  <2> QED
    BY <1>4, <2>1, <2>2, <2>3 DEF Alone, Live
<1> QED
  BY <1>5, <1>6

LEMMA OpenAlone ==
    ASSUME PageTyped, Alone, NEW s \in Sockets, OnOpen(s) \/ Break(s)
    PROVE  Alone'
<1> DEFINE state == IF OnOpen(s) THEN "open" ELSE "broken"
<1>1. state \in ReadyStates /\ state # "closing"
  BY DEF ReadyStates
<1>2. /\ socket' = [socket EXCEPT ![s] = state] /\ socket[s] \in {"connecting", "open"}
      /\ UNCHANGED <<connection, reconnectIfNeed, dialogs, closes>>
      /\ state = "open" => opened'
      /\ state # "open" => state = "broken"
  BY DEF OnOpen, Break, client, bounds
<1>3. DOMAIN socket = 1..Len(socket) /\ Len(socket) \in Nat /\ s \in DOMAIN socket
  BY DEF PageTyped, Sockets
<1> HIDE DEF state
<1>4. /\ Len(socket') = Len(socket) /\ DOMAIN socket' = DOMAIN socket
      /\ socket'[s] = state /\ \A t \in Sockets : t # s => socket'[t] = socket[t]
  <2>1. state \in ReadyStates /\ socket' = [socket EXCEPT ![s] = state]
    BY <1>1, <1>2
  <2> QED
    BY <2>1 DEF PageTyped, Sockets
<1> SUFFICES ASSUME closes = 0
             PROVE  Alone'
  BY <1>2 DEF Alone
<1>5. s = connection /\ connection # 0
  BY <1>2, <1>3 DEF Alone
<1>6. dialogs = 0 /\ reconnectIfNeed
  BY <1>2, <1>3, <1>5 DEF Alone, PageTyped
<1>7. \A t \in Sockets' : socket'[t] # "closing" /\ (t # connection' => socket'[t] = "closed")
  BY <1>1, <1>2, <1>4, <1>5 DEF Alone, Sockets
<1>8. connection' = Len(socket')
  BY <1>2, <1>4 DEF Alone
<1>9. Live(connection)' => opened' /\ socket'[connection'] = "open"
  BY <1>2, <1>4, <1>5 DEF Live
<1> QED
  BY <1>2, <1>5, <1>6, <1>7, <1>8, <1>9 DEF Alone

LEMMA AloneNext ==
    ASSUME PageTyped, Alone, [PageNext]_pageVars
    PROVE  Alone'
<1> DEFINE Same == UNCHANGED <<connection, opened, reconnectIfNeed, dialogs, socket, closes>>
<1>1. ASSUME NEW s \in Sockets, OnResponse(s) \/ OnRequest(s) \/ Serve(s)
      PROVE  Same
  BY <1>1 DEF OnResponse, OnRequest, Serve, client, bounds
<1>2. ASSUME NEW c, CallMethod(c)
      PROVE  Same
  BY <1>2 DEF CallMethod, bounds
<1>3. ASSUME NEW n, PromiseResolves(n)
      PROVE  Same
  BY <1>3 DEF PromiseResolves, client, bounds
<1>4. ASSUME NEW s, NEW m, Ask(s, m)
      PROVE  Same
  BY <1>4 DEF Ask, client
<1>5. UNCHANGED pageVars => Same
  BY DEF pageVars, client, wires, bounds
<1>6. Same => Alone'
  BY AloneKept
<1> HIDE DEF Same
<1> QED
  BY <1>1, <1>2, <1>3, <1>4, <1>5, <1>6, ConnectAlone, CloseEventAlone, OpenAlone DEF PageNext, Browser

-----------------------------------------------------------------------------
(* Calls that are sent again *)

(* A call is executed once more than the user has consented to repeat at   *)
(* most, and is on its way at most once, to the open connection; those     *)
(* that have been executed once too often are not sent again.              *)
Repeated == closes = 0 =>
    /\ \A s \in Sockets : socket[s] # "open" => fromPage[s] = <<>>
    /\ \A c \in PageCalls : executed[c] <= 1 + retries /\ (fate[c] = "none" => executed[c] = 0)
    /\ \A c \in idtable : fate[c] # "none"
    /\ \A s \in Sockets : \A i \in DOMAIN fromPage[s] :
          fromPage[s][i] \in PageCalls => executed[fromPage[s][i]] <= retries /\ fate[fromPage[s][i]] # "none"
    /\ \A s \in Sockets : \A i, j \in DOMAIN fromPage[s] :
          fromPage[s][i] \in PageCalls /\ fromPage[s][i] = fromPage[s][j] => i = j
    /\ connection = 0 \/ socket[connection] = "connecting" => \A c \in idtable : executed[c] <= retries

LEMMA RepeatedInit == Admissible /\ PageInit => Repeated
<1> SUFFICES ASSUME Admissible, PageInit PROVE Repeated
  OBVIOUS
<1>1. socket = <<>> /\ connection = 0 /\ idtable = {} /\ retries = 0 /\ executed = [c \in PageCalls |-> 0]
  BY DEF PageInit
<1>2. DOMAIN socket = {}
  BY <1>1
<1>3. \A c \in PageCalls : executed[c] <= 1 + retries /\ (fate[c] = "none" => executed[c] = 0)
  BY <1>1
<1> QED
  BY <1>1, <1>2, <1>3 DEF Repeated, Sockets

(* Calls sent again on a new connection: the old one has no messages any   *)
(* more, and it cost a retry.                                              *)
LEMMA RepeatedAnew ==
    ASSUME PageTyped, Repeated, NEW sockets \in Seq(ReadyStates), Len(sockets) = Len(socket), NewSocket(sockets),
           closes = 0 => \A s \in Sockets : socket[s] # "open",
           idtable' \subseteq idtable, \A c \in PageCalls : fate'[c] = "none" <=> fate[c] = "none",
           executed' = executed, closes' = closes, retries' \in Nat, retries' >= retries,
           closes = 0 => \A c \in idtable' : executed[c] <= retries'
    PROVE  Repeated'
<1> SUFFICES ASSUME closes = 0
             PROVE  Repeated'
  BY DEF Repeated
<1>1. \A s \in DOMAIN socket' : s = connection' \/ s \in DOMAIN socket
  BY SocketAdded
<1>2. fromPage' = Append(fromPage, <<>>) /\ fromPage \in Seq(Seq(ToServer)) /\ Len(fromPage) = Len(socket)
      /\ connection' = Len(socket) + 1 /\ DOMAIN socket = DOMAIN fromPage
  <2>1. fromPage \in Seq(Seq(ToServer)) /\ Len(fromPage) = Len(socket) /\ DOMAIN socket = DOMAIN fromPage
    BY DEF PageTyped
  <2> QED
    BY <2>1, SocketAdded
<1>3. \A s \in DOMAIN socket' : fromPage'[s] = <<>>
  <2>1. \A s \in DOMAIN socket : fromPage[s] = <<>>
    BY DEF Repeated, Sockets
  <2>2. fromPage'[connection'] = <<>>
    BY <1>2, QueueAdded
  <2>3. \A s \in DOMAIN socket : fromPage'[s] = fromPage[s]
    BY <1>2, QueueAdded
  <2> QED
    BY <1>1, <2>1, <2>2, <2>3
<1>4. \A c \in PageCalls : executed'[c] <= 1 + retries' /\ (fate'[c] = "none" => executed'[c] = 0)
  <2> TAKE c \in PageCalls
  <2>1. executed[c] \in Nat /\ retries \in Nat /\ executed[c] <= 1 + retries
        /\ (fate[c] = "none" => executed[c] = 0)
    BY DEF PageTyped, Repeated
  <2> QED
    BY <2>1
<1>5. \A c \in idtable' : fate'[c] # "none" /\ executed'[c] <= retries'
  BY DEF PageTyped, Repeated
<1>6. \A s \in DOMAIN socket' : DOMAIN fromPage'[s] = {}
  BY <1>3
<1> QED
  BY <1>3, <1>4, <1>5, <1>6 DEF Repeated, Sockets

(* Of the calls on the way to the server there are no more. *)
LEMMA RepeatedKept ==
    ASSUME PageTyped, Repeated, UNCHANGED <<socket, connection, executed, retries, closes>>,
           idtable' \subseteq idtable, \A c \in PageCalls : fate'[c] = "none" <=> fate[c] = "none",
           \A s \in Sockets : socket[s] # "open" => fromPage'[s] = fromPage[s],
           \A s \in Sockets : \A i \in DOMAIN fromPage'[s] : fromPage'[s][i] \in PageCalls =>
              i \in DOMAIN fromPage[s] /\ fromPage'[s][i] = fromPage[s][i]
    PROVE  Repeated'
<1> SUFFICES ASSUME closes = 0
             PROVE  Repeated'
  BY DEF Repeated
<1>1. \A s \in Sockets' : socket'[s] # "open" => fromPage'[s] = <<>>
  BY DEF Repeated, Sockets
<1>2. \A c \in PageCalls : executed'[c] <= 1 + retries' /\ (fate'[c] = "none" => executed'[c] = 0)
  BY DEF Repeated
<1>3. \A c \in idtable' : fate'[c] # "none"
  BY DEF Repeated, PageTyped
<1>4. \A s \in Sockets' : \A i \in DOMAIN fromPage'[s] : fromPage'[s][i] \in PageCalls =>
         executed'[fromPage'[s][i]] <= retries' /\ fate'[fromPage'[s][i]] # "none"
  BY DEF Repeated, Sockets
<1>5. \A s \in Sockets' : \A i, j \in DOMAIN fromPage'[s] :
          fromPage'[s][i] \in PageCalls /\ fromPage'[s][i] = fromPage'[s][j] => i = j
  BY DEF Repeated, Sockets
<1>6. connection' = 0 \/ socket'[connection'] = "connecting" => \A c \in idtable' : executed'[c] <= retries'
  BY DEF Repeated
<1> QED
  BY <1>1, <1>2, <1>3, <1>4, <1>5, <1>6 DEF Repeated

(* What replies on the way to the server add. *)
LEMMA SendsReply ==
    ASSUME PageTyped, NEW m \in Replies, fromPage' = Sent(socket, <<m>>)
    PROVE  /\ DOMAIN fromPage' = DOMAIN fromPage
           /\ \A s \in Sockets : socket[s] # "open" => fromPage'[s] = fromPage[s]
           /\ \A s \in Sockets : s # connection => fromPage'[s] = fromPage[s]
           /\ \A s \in Sockets : \A i \in DOMAIN fromPage'[s] :
                 \/ i \in DOMAIN fromPage[s] /\ fromPage'[s][i] = fromPage[s][i]
                 \/ i = Len(fromPage[s]) + 1 /\ fromPage'[s][i] = m /\ s = connection
<1>1. fromPage \in Seq(Seq(ToServer)) /\ Sockets = DOMAIN fromPage /\ m \in ToServer
  BY DEF PageTyped, Sockets, ToServer
<1>2. CASE fromPage' = fromPage
  BY <1>1, <1>2
<1>3. ASSUME connection \in DOMAIN fromPage, socket[connection] = "open",
             fromPage' = [fromPage EXCEPT ![connection] = @ \o <<m>>]
      PROVE  /\ DOMAIN fromPage' = DOMAIN fromPage
             /\ \A s \in Sockets : s # connection => fromPage'[s] = fromPage[s]
             /\ \A i \in DOMAIN fromPage'[connection] :
                   \/ i \in DOMAIN fromPage[connection] /\ fromPage'[connection][i] = fromPage[connection][i]
                   \/ i = Len(fromPage[connection]) + 1 /\ fromPage'[connection][i] = m
  <2> DEFINE q == fromPage[connection]
  <2>1. q \in Seq(ToServer)
    BY <1>1, <1>3
  <2>2. fromPage'[connection] = q \o <<m>> /\ DOMAIN fromPage' = DOMAIN fromPage
        /\ \A s \in Sockets : s # connection => fromPage'[s] = fromPage[s]
    BY <1>1, <1>3
  <2> HIDE DEF q
  <2>3. /\ \A i \in DOMAIN (q \o <<m>>) : \/ i \in DOMAIN q /\ (q \o <<m>>)[i] = q[i]
                                          \/ i = Len(q) + 1 /\ (q \o <<m>>)[i] = m
    BY <1>1, <2>1, OneMore
  <2> USE DEF q
  <2> QED
    BY <2>2, <2>3
<1> QED
  BY <1>1, <1>2, <1>3, SentForm

LEMMA ConnectRepeated ==
    ASSUME PageTyped, Alone, Repeated, Connect \/ Close \/ \E retry \in BOOLEAN : Resolve(retry)
    PROVE  Repeated'
<1>1. socket \in Seq(ReadyStates) /\ DOMAIN socket = 1..Len(socket) /\ Len(socket) \in Nat /\ retries \in Nat /\ dialogs \in Nat
  BY DEF PageTyped
<1>2. CASE Connect
  <2>1. NewSocket(socket) /\ connection = 0
        /\ UNCHANGED <<opened, idtable, dialogs, fate, executed, promised, answers, asked, closes, faults, retries>>
    BY <1>2 DEF Connect
  <2>2. closes = 0 => \A s \in Sockets : socket[s] # "open"
    BY <1>1, <2>1 DEF Alone, Sockets
  <2>3. closes = 0 => \A c \in idtable : executed[c] <= retries
    BY <2>1 DEF Repeated
  <2> QED
    BY <1>1, <2>1, <2>2, <2>3, RepeatedAnew
<1>3. ASSUME NEW retry \in BOOLEAN, Resolve(retry)
      PROVE  Repeated'
  <2>1. NewSocket(socket) /\ Cleanup(retry) /\ dialogs > 0 /\ UNCHANGED <<executed, closes>>
        /\ retries' = retries + (IF retry THEN 1 ELSE 0)
    BY <1>3 DEF Resolve
  <2>2. closes = 0 => \A s \in Sockets : socket[s] # "open"
    BY <1>1, <2>1 DEF Alone, Sockets
  <2>3. retries' \in Nat /\ retries' >= retries
    BY <1>1, <2>1
  <2>4. idtable' \subseteq idtable /\ \A c \in PageCalls : fate'[c] = "none" <=> fate[c] = "none"
    BY <2>1 DEF Cleanup, Rejected
  <2>5. closes = 0 => \A c \in idtable' : executed[c] <= retries'
    <3> SUFFICES ASSUME closes = 0, NEW c \in idtable'
                 PROVE  executed[c] <= retries'
      OBVIOUS
    <3>1. retry
      BY <2>1 DEF Cleanup
    <3>2. c \in PageCalls /\ executed[c] <= 1 + retries
      BY <2>4 DEF Repeated, PageTyped
    <3> QED
      BY <1>1, <2>1, <3>1, <3>2
  <2> QED
    BY <1>1, <2>1, <2>2, <2>3, <2>4, <2>5, RepeatedAnew
<1>4. CASE Close
  <2>1. closes' = closes + 1
    BY <1>4 DEF Close
  <2> QED
    BY <2>1 DEF PageTyped, Repeated
<1> QED
  BY <1>2, <1>3, <1>4

LEMMA CloseEventRepeated ==
    ASSUME PageTyped, Alone, Repeated, NEW s \in Sockets, OnClose(s)
    PROVE  Repeated'
<1> DEFINE sockets == [socket EXCEPT ![s] = "closed"]
<1>1. sockets \in Seq(ReadyStates) /\ Len(sockets) = Len(socket) /\ DOMAIN sockets = DOMAIN socket
      /\ sockets[s] = "closed" /\ \A t \in Sockets : t # s => sockets[t] = socket[t]
  <2>1. "closed" \in ReadyStates
    BY DEF ReadyStates
  <2> QED
    BY <2>1 DEF PageTyped, Sockets
<1>2. socket[s] \in {"closing", "broken"} /\ closes' = closes /\ executed' = executed /\ retries' = retries
  BY DEF OnClose, bounds
<1>3. DOMAIN socket = 1..Len(socket) /\ Len(socket) \in Nat /\ s \in DOMAIN socket /\ retries \in Nat
  BY DEF PageTyped, Sockets
<1>4. closes = 0 => s = connection /\ connection # 0 /\ \A t \in Sockets : socket[t] # "open"
  <2> SUFFICES ASSUME closes = 0
               PROVE  s = connection /\ connection # 0 /\ \A t \in Sockets : socket[t] # "open"
    OBVIOUS
  <2>1. s = connection /\ connection # 0
    BY <1>2, <1>3 DEF Alone
  <2>2. \A t \in Sockets : socket[t] # "open"
    BY <1>2, <2>1 DEF Alone
  <2> QED
    BY <2>1, <2>2
<1>5. CASE reconnectIfNeed /\ idtable = {}
  <2>1. NewSocket(sockets) /\ Cleanup(FALSE)
    BY <1>5 DEF OnClose
  <2>2. idtable' = {} /\ \A c \in PageCalls : fate'[c] = "none" <=> fate[c] = "none"
    BY <2>1 DEF Cleanup, Rejected
  <2> HIDE DEF sockets
  <2> QED
    BY <1>1, <1>2, <1>3, <1>4, <2>1, <2>2, RepeatedAnew
<1>6. CASE ~(reconnectIfNeed /\ idtable = {})
  <2>1. socket' = sockets
        /\ UNCHANGED <<connection, opened, reconnectIfNeed, idtable, fromPage, toPage, fate>>
    BY <1>6 DEF OnClose
  <2> HIDE DEF sockets
  <2> SUFFICES ASSUME closes = 0
               PROVE  Repeated'
    BY <1>2 DEF Repeated
  <2>2. \A t \in Sockets' : fromPage'[t] = <<>>
    BY <1>1, <1>4, <2>1 DEF Repeated, Sockets
  <2>3. \A t \in Sockets' : DOMAIN fromPage'[t] = {}
    BY <2>2
  <2>4. connection' # 0 /\ socket'[connection'] = "closed"
    BY <1>1, <1>4, <2>1
  <2> QED
    BY <1>2, <2>1, <2>2, <2>3, <2>4 DEF Repeated
<1> QED
  BY <1>5, <1>6

LEMMA MessageRepeated ==
    ASSUME Admissible, PageTyped, Alone, Repeated,
           \/ \E s \in Sockets : OnResponse(s) \/ OnRequest(s) \/ \E m \in Methods : Ask(s, m)
           \/ \E n \in promised : PromiseResolves(n)
           \/ UNCHANGED pageVars
    PROVE  Repeated'
<1>1. UNCHANGED <<socket, connection, executed, retries, closes>>
  BY DEF OnResponse, OnRequest, Ask, PromiseResolves, pageVars, client, wires, calls, bounds
<1>2. idtable' \subseteq idtable /\ \A c \in PageCalls : fate'[c] = "none" <=> fate[c] = "none"
  <2>1. ASSUME NEW s \in Sockets, OnResponse(s)
        PROVE  idtable' \subseteq idtable /\ \A c \in PageCalls : fate'[c] = "none" <=> fate[c] = "none"
    <3>1. idtable' \subseteq idtable
      BY <2>1 DEF OnResponse
    <3>2. Head(toPage[s]) \in PageCalls /\ Head(toPage[s]) # "none" /\ DOMAIN fate = PageCalls
      BY <2>1 DEF OnResponse, Admissible, PageTyped
    <3>3. fate' = fate \/ (fate[Head(toPage[s])] = "pending" /\ fate' = [fate EXCEPT ![Head(toPage[s])] = Head(toPage[s])])
      BY <2>1 DEF OnResponse
    <3> QED
      BY <3>1, <3>2, <3>3
  <2>2. ASSUME UNCHANGED <<idtable, fate>>
        PROVE  idtable' \subseteq idtable /\ \A c \in PageCalls : fate'[c] = "none" <=> fate[c] = "none"
    BY <2>2
  <2>3. (\E s \in Sockets : OnResponse(s)) \/ UNCHANGED <<idtable, fate>>
    BY DEF OnRequest, Ask, PromiseResolves, pageVars, client, wires, calls, bounds
  <2> QED
    BY <2>1, <2>2, <2>3
<1>3. fromPage' = fromPage \/ \E m \in Replies : fromPage' = Sent(socket, <<m>>)
  <2>1. ASSUME NEW s \in Sockets, OnRequest(s)
        PROVE  fromPage' = fromPage \/ \E m \in Replies : fromPage' = Sent(socket, <<m>>)
    <3>1. fromPage' = fromPage \/ fromPage' = Sent(socket, <<[as |-> "error", to |-> Head(toPage[s])]>>)
          \/ fromPage' = Sent(socket, <<[as |-> "result", to |-> Head(toPage[s])]>>)
      BY <2>1 DEF OnRequest
    <3>2. Head(toPage[s]) \in Nat
      <4>1. toPage \in Seq(Seq(ToPage)) /\ s \in DOMAIN toPage /\ toPage[s] # <<>>
        BY <2>1 DEF PageTyped, Sockets, OnRequest
      <4>2. Head(toPage[s]) \in ToPage /\ Head(toPage[s]) \notin PageCalls
        BY <2>1, <4>1, HeadTaken DEF OnRequest
      <4> QED
        BY <4>2 DEF ToPage
    <3> QED
      BY <3>1, <3>2 DEF Replies
  <2>2. ASSUME NEW n \in promised, PromiseResolves(n)
        PROVE  \E m \in Replies : fromPage' = Sent(socket, <<m>>)
    <3>1. [as |-> "stray", to |-> n] \in Replies
      BY DEF PageTyped, Replies
    <3> QED
      BY <2>2, <3>1 DEF PromiseResolves
  <2> QED
    BY <2>1, <2>2 DEF OnResponse, Ask, pageVars, wires
<1>4. /\ \A s \in Sockets : socket[s] # "open" => fromPage'[s] = fromPage[s]
      /\ \A s \in Sockets : \A i \in DOMAIN fromPage'[s] : fromPage'[s][i] \in PageCalls =>
            i \in DOMAIN fromPage[s] /\ fromPage'[s][i] = fromPage[s][i]
  <2>1. CASE fromPage' = fromPage
    BY <2>1
  <2>2. ASSUME NEW m \in Replies, fromPage' = Sent(socket, <<m>>)
        PROVE  /\ \A s \in Sockets : socket[s] # "open" => fromPage'[s] = fromPage[s]
               /\ \A s \in Sockets : \A i \in DOMAIN fromPage'[s] : fromPage'[s][i] \in PageCalls =>
                     i \in DOMAIN fromPage[s] /\ fromPage'[s][i] = fromPage[s][i]
    <3>1. m \notin PageCalls
      BY DEF Admissible
    <3> QED
      BY <2>2, <3>1, SendsReply
  <2> QED
    BY <1>3, <2>1, <2>2
<1> QED
  BY <1>1, <1>2, <1>4, RepeatedKept

LEMMA CallRepeated ==
    ASSUME Admissible, PageTyped, Alone, Repeated, NEW c \in PageCalls, CallMethod(c)
    PROVE  Repeated'
<1>1. /\ UNCHANGED <<socket, connection, executed, retries, closes>> /\ fate[c] = "none"
      /\ idtable' = idtable \cup {c} /\ fate'[c] # "none" /\ \A d \in PageCalls : d # c => fate'[d] = fate[d]
      /\ fromPage' = fromPage \/ fromPage' = Sent(socket, <<c>>)
  BY DEF CallMethod, PageTyped, bounds
<1> SUFFICES ASSUME closes = 0
             PROVE  Repeated'
  BY <1>1 DEF Repeated
<1>2. executed[c] = 0 /\ c \notin idtable /\ \A s \in Sockets : \A i \in DOMAIN fromPage[s] : fromPage[s][i] # c
  BY <1>1 DEF Repeated
<1>3. retries \in Nat /\ fromPage \in Seq(Seq(ToServer)) /\ Sockets = DOMAIN fromPage /\ c \in ToServer
      /\ idtable \subseteq PageCalls
  BY DEF PageTyped, ToServer, Sockets
<1>4. /\ \A s \in Sockets : socket[s] # "open" => fromPage'[s] = fromPage[s]
      /\ \A s \in Sockets : \A i \in DOMAIN fromPage'[s] :
            \/ i \in DOMAIN fromPage[s] /\ fromPage'[s][i] = fromPage[s][i]
            \/ i = Len(fromPage[s]) + 1 /\ fromPage'[s][i] = c
  <2>1. CASE fromPage' = fromPage
    BY <2>1
  <2>2. ASSUME connection \in DOMAIN fromPage, socket[connection] = "open",
               fromPage' = [fromPage EXCEPT ![connection] = @ \o <<c>>]
        PROVE  /\ \A s \in Sockets : s # connection => fromPage'[s] = fromPage[s]
               /\ \A i \in DOMAIN fromPage'[connection] :
                     \/ i \in DOMAIN fromPage[connection] /\ fromPage'[connection][i] = fromPage[connection][i]
                     \/ i = Len(fromPage[connection]) + 1 /\ fromPage'[connection][i] = c
    <3> DEFINE q == fromPage[connection]
    <3>1. q \in Seq(ToServer)
      BY <1>3, <2>2
    <3>2. fromPage'[connection] = q \o <<c>> /\ \A s \in Sockets : s # connection => fromPage'[s] = fromPage[s]
      BY <1>3, <2>2
    <3> HIDE DEF q
    <3>3. \A i \in DOMAIN (q \o <<c>>) : \/ i \in DOMAIN q /\ (q \o <<c>>)[i] = q[i]
                                         \/ i = Len(q) + 1 /\ (q \o <<c>>)[i] = c
      BY <1>3, <3>1, OneMore
    <3> USE DEF q
    <3> QED
      BY <3>2, <3>3
  <2> QED
    BY <1>1, <2>1, <2>2, SentForm
<1>5. \A s \in Sockets' : socket'[s] # "open" => fromPage'[s] = <<>>
  BY <1>1, <1>4 DEF Repeated, Sockets
<1>6. \A d \in PageCalls : executed'[d] <= 1 + retries' /\ (fate'[d] = "none" => executed'[d] = 0)
  BY <1>1 DEF Repeated
<1>7. \A d \in idtable' : fate'[d] # "none"
  BY <1>1, <1>3 DEF Repeated
<1>8. \A s \in Sockets' : \A i \in DOMAIN fromPage'[s] : fromPage'[s][i] \in PageCalls =>
         executed'[fromPage'[s][i]] <= retries' /\ fate'[fromPage'[s][i]] # "none"
  <2> SUFFICES ASSUME NEW s \in Sockets, NEW i \in DOMAIN fromPage'[s], fromPage'[s][i] \in PageCalls
               PROVE  executed'[fromPage'[s][i]] <= retries' /\ fate'[fromPage'[s][i]] # "none"
    BY <1>1 DEF Sockets
  <2>1. CASE fromPage'[s][i] = c
    BY <1>1, <1>2, <1>3, <2>1
  <2>2. CASE i \in DOMAIN fromPage[s] /\ fromPage'[s][i] = fromPage[s][i] /\ fromPage'[s][i] # c
    BY <1>1, <2>2 DEF Repeated
  <2> QED
    BY <1>4, <2>1, <2>2
<1>9. \A s \in Sockets' : \A i, j \in DOMAIN fromPage'[s] :
          fromPage'[s][i] \in PageCalls /\ fromPage'[s][i] = fromPage'[s][j] => i = j
  <2> SUFFICES ASSUME NEW s \in Sockets, NEW i \in DOMAIN fromPage'[s], NEW j \in DOMAIN fromPage'[s],
                      fromPage'[s][i] \in PageCalls, fromPage'[s][i] = fromPage'[s][j]
               PROVE  i = j
    BY <1>1 DEF Sockets
  <2>1. CASE fromPage'[s][i] = c
    <3>1. ~(i \in DOMAIN fromPage[s] /\ fromPage'[s][i] = fromPage[s][i])
      BY <1>2, <2>1
    <3>2. ~(j \in DOMAIN fromPage[s] /\ fromPage'[s][j] = fromPage[s][j])
      BY <1>2, <2>1
    <3> QED
      BY <1>4, <3>1, <3>2
  <2>2. CASE fromPage'[s][i] # c
    <3>1. i \in DOMAIN fromPage[s] /\ fromPage'[s][i] = fromPage[s][i]
      BY <1>4, <2>2
    <3>2. j \in DOMAIN fromPage[s] /\ fromPage'[s][j] = fromPage[s][j]
      BY <1>4, <2>2
    <3> QED
      BY <3>1, <3>2 DEF Repeated
  <2> QED
    BY <2>1, <2>2
<1>10. connection' = 0 \/ socket'[connection'] = "connecting" => \A d \in idtable' : executed'[d] <= retries'
  BY <1>1, <1>2, <1>3 DEF Repeated
<1> QED
  BY <1>5, <1>6, <1>7, <1>8, <1>9, <1>10 DEF Repeated

LEMMA OpenRepeated ==
    ASSUME Admissible, PageTyped, Alone, Repeated, NEW s \in Sockets, OnOpen(s)
    PROVE  Repeated'
<1>1. /\ UNCHANGED <<connection, executed, retries, closes, idtable, fate>> /\ socket[s] = "connecting"
      /\ socket' = [socket EXCEPT ![s] = "open"]
  BY DEF OnOpen, bounds
<1> SUFFICES ASSUME closes = 0
             PROVE  Repeated'
  BY <1>1 DEF Repeated
<1>2. s \in 1..Len(socket) /\ fromPage \in Seq(Seq(ToServer)) /\ Sockets = DOMAIN fromPage /\ Sockets' = Sockets
      /\ socket'[s] = "open" /\ retries \in Nat /\ idtable \subseteq PageCalls
  BY <1>1 DEF PageTyped, Sockets
<1>3. s = connection /\ connection # 0
  BY <1>1, <1>2 DEF Alone
<1>4. \A t \in Sockets : fromPage[t] = <<>>
  <2>1. \A t \in Sockets : socket[t] # "open"
    BY <1>1, <1>3 DEF Alone
  <2> QED
    BY <2>1 DEF Repeated
<1>5. \A c \in idtable : executed[c] <= retries /\ fate[c] # "none"
  BY <1>1, <1>3 DEF Repeated
<1>6. PICK order \in Orders(idtable) : fromPage' = Sent(socket', order)
  BY DEF OnOpen
<1>7. order \in Seq(PageCalls) /\ (\A i \in DOMAIN order : order[i] \in idtable)
      /\ \A i, j \in DOMAIN order : order[i] = order[j] => i = j
  BY <1>2, OrderTyped
<1>8. fromPage'[s] = order /\ \A t \in Sockets : t # s => fromPage'[t] = <<>>
  <2>1. fromPage' = [fromPage EXCEPT ![s] = @ \o order]
    BY <1>1, <1>2, <1>3, <1>6 DEF Sent, Throws
  <2>2. fromPage'[s] = fromPage[s] \o order /\ \A t \in Sockets : t # s => fromPage'[t] = fromPage[t]
    BY <1>2, <2>1
  <2>3. <<>> \o order = order
    BY <1>7
  <2> QED
    BY <1>4, <2>2, <2>3
<1>9. \A t \in Sockets : t # s => DOMAIN fromPage'[t] = {}
  BY <1>8
<1>10. \A t \in Sockets : socket'[t] # "open" => fromPage'[t] = <<>>
  BY <1>2, <1>8
<1>11. \A t \in Sockets : \A i \in DOMAIN fromPage'[t] : fromPage'[t][i] \in PageCalls =>
          executed'[fromPage'[t][i]] <= retries' /\ fate'[fromPage'[t][i]] # "none"
  BY <1>1, <1>5, <1>7, <1>8, <1>9
<1>12. \A t \in Sockets : \A i, j \in DOMAIN fromPage'[t] :
          fromPage'[t][i] \in PageCalls /\ fromPage'[t][i] = fromPage'[t][j] => i = j
  BY <1>7, <1>8, <1>9
<1>13. \A c \in PageCalls : executed'[c] <= 1 + retries' /\ (fate'[c] = "none" => executed'[c] = 0)
  BY <1>1 DEF Repeated
<1> QED
  BY <1>1, <1>2, <1>3, <1>5, <1>10, <1>11, <1>12, <1>13 DEF Repeated

LEMMA BreakRepeated ==
    ASSUME PageTyped, Alone, Repeated, NEW s \in Sockets, Break(s)
    PROVE  Repeated'
<1>1. /\ UNCHANGED <<connection, executed, retries, closes, idtable, fate>>
      /\ socket' = [socket EXCEPT ![s] = "broken"] /\ fromPage' = [fromPage EXCEPT ![s] = <<>>]
  BY DEF Break, client
<1>2. s \in DOMAIN fromPage /\ Sockets = DOMAIN fromPage /\ Sockets' = Sockets /\ socket'[s] = "broken"
      /\ (\A t \in Sockets : t # s => socket'[t] = socket[t])
      /\ connection \in 0..Len(socket) /\ Len(socket) \in Nat /\ Sockets = 1..Len(socket)
  BY <1>1 DEF PageTyped, Sockets
<1>3. fromPage'[s] = <<>> /\ DOMAIN fromPage'[s] = {} /\ \A t \in Sockets : t # s => fromPage'[t] = fromPage[t]
  <2>1. fromPage'[s] = <<>> /\ \A t \in Sockets : t # s => fromPage'[t] = fromPage[t]
    BY <1>1, <1>2
  <2> QED
    BY <2>1
<1> SUFFICES ASSUME closes = 0
             PROVE  Repeated'
  BY <1>1 DEF Repeated
<1>4. \A t \in Sockets : socket'[t] # "open" => fromPage'[t] = <<>>
  BY <1>2, <1>3 DEF Repeated
<1>5. \A t \in Sockets : \A i \in DOMAIN fromPage'[t] : fromPage'[t][i] \in PageCalls =>
          executed'[fromPage'[t][i]] <= retries' /\ fate'[fromPage'[t][i]] # "none"
  BY <1>1, <1>3 DEF Repeated
<1>6. \A t \in Sockets : \A i, j \in DOMAIN fromPage'[t] :
          fromPage'[t][i] \in PageCalls /\ fromPage'[t][i] = fromPage'[t][j] => i = j
  BY <1>3 DEF Repeated
<1>7. \A c \in PageCalls : executed'[c] <= 1 + retries' /\ (fate'[c] = "none" => executed'[c] = 0)
  BY <1>1 DEF Repeated
<1>8. connection' = 0 \/ socket'[connection'] = "connecting" => connection = 0 \/ socket[connection] = "connecting"
  BY <1>1, <1>2
<1>9. /\ \A c \in idtable' : fate'[c] # "none"
      /\ connection' = 0 \/ socket'[connection'] = "connecting" => \A c \in idtable' : executed'[c] <= retries'
  BY <1>1, <1>8 DEF Repeated
<1> QED
  BY <1>2, <1>4, <1>5, <1>6, <1>7, <1>9 DEF Repeated

LEMMA ServeRepeated ==
    ASSUME Admissible, PageTyped, Alone, Repeated, NEW s \in Sockets, Serve(s)
    PROVE  Repeated'
<1>1. /\ UNCHANGED <<connection, socket, retries, closes, idtable, fate>>
      /\ socket[s] \in {"open", "closing"} /\ fromPage[s] # <<>> /\ fromPage' = [fromPage EXCEPT ![s] = Tail(@)]
  BY DEF Serve, client, bounds
<1>2. fromPage \in Seq(Seq(ToServer)) /\ s \in DOMAIN fromPage /\ Sockets = DOMAIN fromPage /\ Sockets' = Sockets
      /\ retries \in Nat /\ executed \in [PageCalls -> Nat] /\ idtable \subseteq PageCalls
  BY <1>1 DEF PageTyped, Sockets
<1>3. /\ \A t \in Sockets : t # s => fromPage'[t] = fromPage[t]
      /\ 1 \in DOMAIN fromPage[s] /\ Head(fromPage[s]) = fromPage[s][1]
      /\ \A i \in DOMAIN fromPage'[s] : i + 1 \in DOMAIN fromPage[s] /\ fromPage'[s][i] = fromPage[s][i + 1] /\ i \in Nat /\ i > 0
  BY <1>1, <1>2, HeadTaken
<1> SUFFICES ASSUME closes = 0
             PROVE  Repeated'
  BY <1>1 DEF Repeated
<1>4. s = connection /\ socket[s] = "open" /\ connection # 0
      /\ \A t \in Sockets : t # s => fromPage[t] = <<>>
  <2>1. s = connection /\ socket[s] = "open" /\ \A t \in Sockets : t # s => socket[t] = "closed"
    BY <1>1 DEF Alone
  <2>2. connection # 0
    BY <2>1 DEF PageTyped, Sockets
  <2> QED
    BY <2>1, <2>2 DEF Repeated
<1>5. \A t \in Sockets : t # s => DOMAIN fromPage'[t] = {}
  BY <1>3, <1>4
<1> DEFINE m == Head(fromPage[s])
<1>6. \A c \in PageCalls :
          /\ executed'[c] <= 1 + retries /\ (fate'[c] = "none" => executed'[c] = 0)
          /\ c # m => executed'[c] = executed[c]
  <2>1. CASE m \in PageCalls
    <3>1. executed' = [executed EXCEPT ![m] = @ + 1]
      BY <2>1 DEF Serve
    <3>2. executed[m] <= retries /\ fate[m] # "none"
      BY <1>3, <2>1 DEF Repeated
    <3> HIDE DEF m
    <3>3. executed'[m] = executed[m] + 1 /\ \A c \in PageCalls : c # m => executed'[c] = executed[c]
      BY <1>2, <2>1, <3>1
    <3> QED
      BY <1>1, <1>2, <2>1, <3>2, <3>3 DEF Repeated
  <2>2. CASE m \notin PageCalls
    <3>1. executed' = executed
      BY <2>2 DEF Serve
    <3> HIDE DEF m
    <3> QED
      BY <1>1, <3>1 DEF Repeated
  <2> QED
    BY <2>1, <2>2
<1>7. \A i \in DOMAIN fromPage'[s] : fromPage'[s][i] \in PageCalls =>
          fromPage'[s][i] # m /\ executed[fromPage'[s][i]] <= retries /\ fate[fromPage'[s][i]] # "none"
  <2> TAKE i \in DOMAIN fromPage'[s]
  <2>1. i + 1 \in DOMAIN fromPage[s] /\ fromPage'[s][i] = fromPage[s][i + 1] /\ i + 1 # 1 /\ 1 \in DOMAIN fromPage[s] /\ m = fromPage[s][1]
    BY <1>3
  <2> HIDE DEF m
  <2> QED
    BY <2>1 DEF Repeated
<1> HIDE DEF m
<1>8. \A i, j \in DOMAIN fromPage'[s] : fromPage'[s][i] \in PageCalls /\ fromPage'[s][i] = fromPage'[s][j] => i = j
  <2> TAKE i, j \in DOMAIN fromPage'[s]
  <2>1. i + 1 \in DOMAIN fromPage[s] /\ fromPage'[s][i] = fromPage[s][i + 1] /\ i \in Nat
        /\ j + 1 \in DOMAIN fromPage[s] /\ fromPage'[s][j] = fromPage[s][j + 1] /\ j \in Nat
    BY <1>3
  <2>2. fromPage[s][i + 1] \in PageCalls /\ fromPage[s][i + 1] = fromPage[s][j + 1] => i + 1 = j + 1
    BY <2>1 DEF Repeated
  <2> QED
    BY <2>1, <2>2
<1>15. retries' = retries /\ fate' = fate
  BY <1>1
<1>9. \A t \in Sockets : \A i \in DOMAIN fromPage'[t] : fromPage'[t][i] \in PageCalls =>
          executed'[fromPage'[t][i]] <= retries' /\ fate'[fromPage'[t][i]] # "none"
  <2> SUFFICES ASSUME NEW t \in Sockets, NEW i \in DOMAIN fromPage'[t], fromPage'[t][i] \in PageCalls
               PROVE  executed'[fromPage'[t][i]] <= retries' /\ fate'[fromPage'[t][i]] # "none"
    OBVIOUS
  <2>1. t = s
    BY <1>5
  <2>2. fromPage'[t][i] # m /\ executed[fromPage'[t][i]] <= retries /\ fate[fromPage'[t][i]] # "none"
    BY <1>7, <2>1
  <2>3. executed'[fromPage'[t][i]] = executed[fromPage'[t][i]]
    BY <1>6, <2>2
  <2> QED
    BY <1>15, <2>2, <2>3
<1>10. \A t \in Sockets : \A i, j \in DOMAIN fromPage'[t] :
          fromPage'[t][i] \in PageCalls /\ fromPage'[t][i] = fromPage'[t][j] => i = j
  BY <1>5, <1>8
<1>11. \A t \in Sockets : socket'[t] # "open" => fromPage'[t] = <<>>
  BY <1>1, <1>3, <1>4
<1>12. \A c \in idtable' : fate'[c] # "none"
  BY <1>1 DEF Repeated
<1>13. connection' # 0 /\ socket'[connection'] # "connecting"
  BY <1>1, <1>4
<1>14. \A c \in PageCalls : executed'[c] <= 1 + retries' /\ (fate'[c] = "none" => executed'[c] = 0)
  BY <1>6, <1>15
<1> QED
  BY <1>2, <1>9, <1>10, <1>11, <1>12, <1>13, <1>14 DEF Repeated

LEMMA RepeatedNext ==
    ASSUME Admissible, PageTyped, Alone, Repeated, [PageNext]_pageVars
    PROVE  Repeated'
<1>1. ASSUME NEW s \in Sockets, OnOpen(s) \/ OnClose(s) \/ OnResponse(s) \/ OnRequest(s) \/ Serve(s) \/ Break(s)
      PROVE  Repeated'
  BY <1>1, OpenRepeated, CloseEventRepeated, MessageRepeated, ServeRepeated, BreakRepeated
<1>2. ASSUME NEW s \in Sockets, NEW m \in {"succeeds", "fails", "promises", "unknown"}, Ask(s, m)
      PROVE  Repeated'
  BY <1>2, MessageRepeated DEF Methods
<1>3. ASSUME NEW retry \in BOOLEAN, Resolve(retry)
      PROVE  Repeated'
  BY <1>3, ConnectRepeated
<1>4. ASSUME NEW n \in promised, PromiseResolves(n)
      PROVE  Repeated'
  BY <1>4, MessageRepeated
<1> QED
  BY <1>1, <1>2, <1>3, <1>4, ConnectRepeated, CallRepeated, MessageRepeated DEF PageNext, Browser

-----------------------------------------------------------------------------
(* Requests of the server *)

OnWay(n) == \E s \in DOMAIN toPage : \E i \in DOMAIN toPage[s] : toPage[s][i] \notin PageCalls /\ toPage[s][i] = n
Answering(n) == \E s \in DOMAIN fromPage : \E i \in DOMAIN fromPage[s] :
                   fromPage[s][i] \notin PageCalls /\ fromPage[s][i].to = n

RequestsOnce(Q) == \A s, t \in DOMAIN Q : \A i \in DOMAIN Q[s], j \in DOMAIN Q[t] :
    Q[s][i] \notin PageCalls /\ Q[t][j] \notin PageCalls /\ Q[s][i] = Q[t][j] => s = t /\ i = j
RepliesOnce(Q) == \A s, t \in DOMAIN Q : \A i \in DOMAIN Q[s], j \in DOMAIN Q[t] :
    Q[s][i] \notin PageCalls /\ Q[t][j] \notin PageCalls /\ Q[s][i].to = Q[t][j].to => s = t /\ i = j

(* A request of the server is in one place: on its way to the page,        *)
(* promised by the page, being answered, or answered.                      *)
Numbered ==
    /\ \A s \in DOMAIN toPage : \A i \in DOMAIN toPage[s] :
          toPage[s][i] \notin PageCalls => toPage[s][i] \in DOMAIN asked /\ asked[toPage[s][i]].on = s
    /\ RequestsOnce(toPage)
    /\ \A n \in promised : n \in DOMAIN asked /\ asked[n].method = "promises" /\ ~OnWay(n)
    /\ \A s \in DOMAIN fromPage : \A i \in DOMAIN fromPage[s] : fromPage[s][i] \notin PageCalls =>
          /\ fromPage[s][i].to \in DOMAIN asked /\ Fits(fromPage[s][i].as, s, asked[fromPage[s][i].to])
          /\ fromPage[s][i].to \notin promised /\ ~OnWay(fromPage[s][i].to)
    /\ RepliesOnce(fromPage)
    /\ \A i \in DOMAIN answers :
          /\ answers[i].to \in DOMAIN asked /\ Fits(answers[i].as, answers[i].by, asked[answers[i].to])
          /\ answers[i].to \notin promised /\ ~OnWay(answers[i].to) /\ ~Answering(answers[i].to)
    /\ \A i, j \in DOMAIN answers : answers[i].to = answers[j].to => i = j

(* What is no call comes from where it was, or from one further back. *)
FromOld(Q, R) == \E d \in [DOMAIN R -> {0, 1}] : \A s \in DOMAIN R : \A i \in DOMAIN R[s] : R[s][i] \notin PageCalls =>
    s \in DOMAIN Q /\ i + d[s] \in DOMAIN Q[s] /\ Q[s][i + d[s]] = R[s][i] /\ i \in Nat

LEMMA SameOld ==
    ASSUME NEW M, NEW Q \in Seq(Seq(M)), NEW R,
           \A s \in DOMAIN R : \A i \in DOMAIN R[s] : R[s][i] \notin PageCalls =>
              s \in DOMAIN Q /\ i \in DOMAIN Q[s] /\ Q[s][i] = R[s][i]
    PROVE  FromOld(Q, R)
<1> DEFINE d == [s \in DOMAIN R |-> 0]
<1>1. d \in [DOMAIN R -> {0, 1}] /\ \A s \in DOMAIN R : d[s] = 0
  OBVIOUS
<1>2. ASSUME NEW s \in DOMAIN R, NEW i \in DOMAIN R[s], R[s][i] \notin PageCalls
      PROVE  s \in DOMAIN Q /\ i + d[s] \in DOMAIN Q[s] /\ Q[s][i + d[s]] = R[s][i] /\ i \in Nat
  <2>1. s \in DOMAIN Q /\ i \in DOMAIN Q[s] /\ Q[s][i] = R[s][i] /\ d[s] = 0
    BY <1>1, <1>2
  <2>2. i \in Nat
    BY <2>1
  <2> HIDE DEF d
  <2>3. i + d[s] = i
    BY <2>1, <2>2
  <2> QED
    BY <2>1, <2>2, <2>3
<1> HIDE DEF d
<1> QED
  BY <1>1, <1>2 DEF FromOld

LEMMA TailOld ==
    ASSUME NEW M, NEW Q \in Seq(Seq(M)), NEW at \in DOMAIN Q, Q[at] # <<>>,
           NEW R, R = [Q EXCEPT ![at] = Tail(@)]
    PROVE  FromOld(Q, R)
<1> DEFINE d == [s \in DOMAIN R |-> IF s = at THEN 1 ELSE 0]
<1>1. d \in [DOMAIN R -> {0, 1}] /\ \A s \in DOMAIN R : (s = at => d[s] = 1) /\ (s # at => d[s] = 0)
  OBVIOUS
<1>2. /\ DOMAIN R = DOMAIN Q /\ \A s \in DOMAIN Q : s # at => R[s] = Q[s]
      /\ \A i \in DOMAIN R[at] : i + 1 \in DOMAIN Q[at] /\ R[at][i] = Q[at][i + 1] /\ i \in Nat
  BY HeadTaken
<1> HIDE DEF d
<1>3. ASSUME NEW s \in DOMAIN R, NEW i \in DOMAIN R[s]
      PROVE  s \in DOMAIN Q /\ i + d[s] \in DOMAIN Q[s] /\ Q[s][i + d[s]] = R[s][i] /\ i \in Nat
  <2>1. CASE s = at
    BY <1>1, <1>2, <2>1
  <2>2. CASE s # at
    <3>1. s \in DOMAIN Q /\ R[s] = Q[s] /\ d[s] = 0
      BY <1>1, <1>2, <2>2
    <3>2. i \in Nat
      BY <3>1
    <3>3. i + d[s] = i
      BY <3>1, <3>2
    <3> QED
      BY <3>1, <3>2, <3>3
  <2> QED
    BY <2>1, <2>2
<1> QED
  BY <1>1, <1>3 DEF FromOld

LEMMA OnceOld ==
    ASSUME NEW Q, NEW R, FromOld(Q, R)
    PROVE  (RequestsOnce(Q) => RequestsOnce(R)) /\ (RepliesOnce(Q) => RepliesOnce(R))
<1>1. PICK d \in [DOMAIN R -> {0, 1}] : \A s \in DOMAIN R : \A i \in DOMAIN R[s] : R[s][i] \notin PageCalls =>
         s \in DOMAIN Q /\ i + d[s] \in DOMAIN Q[s] /\ Q[s][i + d[s]] = R[s][i] /\ i \in Nat
  BY DEF FromOld
<1>2. ASSUME NEW s \in DOMAIN R, NEW t \in DOMAIN R, NEW i \in DOMAIN R[s], NEW j \in DOMAIN R[t],
             R[s][i] \notin PageCalls, R[t][j] \notin PageCalls,
             s = t /\ i + d[s] = j + d[t]
      PROVE  i = j
  <2>1. d[s] \in {0, 1} /\ d[t] = d[s] /\ i \in Nat /\ j \in Nat
    BY <1>1, <1>2
  <2> QED
    BY <1>2, <2>1
<1>3. RequestsOnce(Q) => RequestsOnce(R)
  <2> SUFFICES ASSUME RequestsOnce(Q), NEW s \in DOMAIN R, NEW t \in DOMAIN R, NEW i \in DOMAIN R[s], NEW j \in DOMAIN R[t],
                      R[s][i] \notin PageCalls, R[t][j] \notin PageCalls, R[s][i] = R[t][j]
               PROVE  s = t /\ i = j
    BY DEF RequestsOnce
  <2>1. s \in DOMAIN Q /\ i + d[s] \in DOMAIN Q[s] /\ Q[s][i + d[s]] = R[s][i]
    BY <1>1
  <2>2. t \in DOMAIN Q /\ j + d[t] \in DOMAIN Q[t] /\ Q[t][j + d[t]] = R[t][j]
    BY <1>1
  <2>3. s = t /\ i + d[s] = j + d[t]
    BY <2>1, <2>2 DEF RequestsOnce
  <2> QED
    BY <1>2, <2>3
<1>4. RepliesOnce(Q) => RepliesOnce(R)
  <2> SUFFICES ASSUME RepliesOnce(Q), NEW s \in DOMAIN R, NEW t \in DOMAIN R, NEW i \in DOMAIN R[s], NEW j \in DOMAIN R[t],
                      R[s][i] \notin PageCalls, R[t][j] \notin PageCalls, R[s][i].to = R[t][j].to
               PROVE  s = t /\ i = j
    BY DEF RepliesOnce
  <2>1. s \in DOMAIN Q /\ i + d[s] \in DOMAIN Q[s] /\ Q[s][i + d[s]] = R[s][i]
    BY <1>1
  <2>2. t \in DOMAIN Q /\ j + d[t] \in DOMAIN Q[t] /\ Q[t][j + d[t]] = R[t][j]
    BY <1>1
  <2>3. s = t /\ i + d[s] = j + d[t]
    BY <2>1, <2>2 DEF RepliesOnce
  <2> QED
    BY <1>2, <2>3
<1> QED
  BY <1>3, <1>4

LEMMA NumberedInit == PageInit => Numbered
<1> SUFFICES ASSUME PageInit PROVE Numbered
  OBVIOUS
<1>1. fromPage = <<>> /\ toPage = <<>> /\ answers = <<>> /\ promised = {}
  BY DEF PageInit
<1>2. DOMAIN fromPage = {} /\ DOMAIN toPage = {} /\ DOMAIN answers = {}
  BY <1>1
<1> QED
  BY <1>1, <1>2 DEF Numbered, RequestsOnce, RepliesOnce

(* A step that takes messages away, and adds calls. *)
LEMMA NumberedFewer ==
    ASSUME PageTyped, Numbered, FromOld(toPage, toPage'), FromOld(fromPage, fromPage'),
           promised' \subseteq promised, answers' = answers, asked' = asked, closes' = closes \/ closes' = closes + 1
    PROVE  Numbered'
<1>1. \A n, by, as : Fits(as, by, asked[n]) => Fits(as, by, asked[n])'
  <2>1. closes' = 0 => closes = 0
    BY DEF PageTyped
  <2> QED
    BY <2>1 DEF Fits
<1>2. PICK d \in [DOMAIN toPage' -> {0, 1}] : \A s \in DOMAIN toPage' : \A i \in DOMAIN toPage'[s] : toPage'[s][i] \notin PageCalls =>
         s \in DOMAIN toPage /\ i + d[s] \in DOMAIN toPage[s] /\ toPage[s][i + d[s]] = toPage'[s][i]
  BY DEF FromOld
<1>3. PICK e \in [DOMAIN fromPage' -> {0, 1}] : \A s \in DOMAIN fromPage' : \A i \in DOMAIN fromPage'[s] : fromPage'[s][i] \notin PageCalls =>
         s \in DOMAIN fromPage /\ i + e[s] \in DOMAIN fromPage[s] /\ fromPage[s][i + e[s]] = fromPage'[s][i]
  BY DEF FromOld
<1>4. \A n : OnWay(n)' => OnWay(n)
  BY <1>2 DEF OnWay
<1>5. \A n : Answering(n)' => Answering(n)
  BY <1>3 DEF Answering
<1>6. RequestsOnce(toPage') /\ RepliesOnce(fromPage')
  BY OnceOld DEF Numbered
<1>7. \A s \in DOMAIN toPage' : \A i \in DOMAIN toPage'[s] :
          toPage'[s][i] \notin PageCalls => toPage'[s][i] \in DOMAIN asked' /\ asked'[toPage'[s][i]].on = s
  <2> SUFFICES ASSUME NEW s \in DOMAIN toPage', NEW i \in DOMAIN toPage'[s], toPage'[s][i] \notin PageCalls
               PROVE  toPage'[s][i] \in DOMAIN asked' /\ asked'[toPage'[s][i]].on = s
    OBVIOUS
  <2>1. s \in DOMAIN toPage /\ i + d[s] \in DOMAIN toPage[s] /\ toPage[s][i + d[s]] = toPage'[s][i]
    BY <1>2
  <2> QED
    BY <2>1 DEF Numbered
<1>8. \A n \in promised' : n \in DOMAIN asked' /\ asked'[n].method = "promises" /\ ~OnWay(n)'
  BY <1>4 DEF Numbered
<1>9. \A s \in DOMAIN fromPage' : \A i \in DOMAIN fromPage'[s] : fromPage'[s][i] \notin PageCalls =>
          /\ fromPage'[s][i].to \in DOMAIN asked' /\ Fits(fromPage[s][i].as, s, asked[fromPage[s][i].to])'
          /\ fromPage'[s][i].to \notin promised' /\ ~OnWay(fromPage[s][i].to)'
  <2> SUFFICES ASSUME NEW s \in DOMAIN fromPage', NEW i \in DOMAIN fromPage'[s], fromPage'[s][i] \notin PageCalls
               PROVE  /\ fromPage'[s][i].to \in DOMAIN asked' /\ Fits(fromPage[s][i].as, s, asked[fromPage[s][i].to])'
                      /\ fromPage'[s][i].to \notin promised' /\ ~OnWay(fromPage[s][i].to)'
    OBVIOUS
  <2> DEFINE m == fromPage'[s][i]
  <2>1. s \in DOMAIN fromPage /\ i + e[s] \in DOMAIN fromPage[s] /\ fromPage[s][i + e[s]] = m
    BY <1>3
  <2>2. m.to \in DOMAIN asked /\ Fits(m.as, s, asked[m.to]) /\ m.to \notin promised /\ ~OnWay(m.to)
    <3> HIDE DEF m
    <3>1. m \notin PageCalls
      BY DEF m
    <3> QED
      BY <2>1, <3>1 DEF Numbered
  <2>3. closes' = 0 => closes = 0
    BY DEF PageTyped
  <2>4. ~OnWay(fromPage[s][i].to)'
    BY <1>4, <2>2 DEF OnWay
  <2> QED
    BY <2>2, <2>3, <2>4 DEF Fits
<1>10. \A i \in DOMAIN answers' :
          /\ answers'[i].to \in DOMAIN asked' /\ Fits(answers[i].as, answers[i].by, asked[answers[i].to])'
          /\ answers'[i].to \notin promised' /\ ~OnWay(answers[i].to)' /\ ~Answering(answers[i].to)'
  <2> TAKE i \in DOMAIN answers'
  <2>1. /\ answers[i].to \in DOMAIN asked /\ Fits(answers[i].as, answers[i].by, asked[answers[i].to])
        /\ answers[i].to \notin promised /\ ~OnWay(answers[i].to) /\ ~Answering(answers[i].to)
    BY DEF Numbered
  <2>2. closes' = 0 => closes = 0
    BY DEF PageTyped
  <2>3. Fits(answers[i].as, answers[i].by, asked[answers[i].to])'
    BY <2>1, <2>2 DEF Fits
  <2>4. ~OnWay(answers[i].to)' /\ ~Answering(answers[i].to)'
    BY <1>4, <1>5, <2>1 DEF OnWay, Answering
  <2> QED
    BY <2>1, <2>3, <2>4
<1>11. \A i, j \in DOMAIN answers' : answers'[i].to = answers'[j].to => i = j
  BY DEF Numbered
<1> QED
  BY <1>6, <1>7, <1>8, <1>9, <1>10, <1>11 DEF Numbered

LEMMA CallsSent ==
    ASSUME PageTyped, NEW sockets, NEW cs \in Seq(PageCalls), fromPage' = Sent(sockets, cs)
    PROVE  FromOld(fromPage, fromPage')
<1>1. fromPage \in Seq(Seq(ToServer))
  BY DEF PageTyped
<1>2. CASE fromPage' = fromPage
  BY <1>1, <1>2, SameOld
<1>3. ASSUME connection \in DOMAIN fromPage, fromPage' = [fromPage EXCEPT ![connection] = @ \o cs]
      PROVE  FromOld(fromPage, fromPage')
  <2>1. cs \in Seq(ToServer)
    BY DEF ToServer
  <2>2. /\ DOMAIN fromPage' = DOMAIN fromPage
        /\ \A s \in DOMAIN fromPage : s # connection => fromPage'[s] = fromPage[s]
        /\ \A i \in 1..Len(fromPage[connection]) : fromPage'[connection][i] = fromPage[connection][i]
        /\ \A i \in 1..Len(fromPage'[connection]) : i \notin 1..Len(fromPage[connection]) =>
              /\ i - Len(fromPage[connection]) \in 1..Len(cs) /\ fromPage'[connection][i] = cs[i - Len(fromPage[connection])]
        /\ DOMAIN fromPage'[connection] = 1..Len(fromPage'[connection])
        /\ DOMAIN fromPage[connection] = 1..Len(fromPage[connection])
    BY <1>1, <1>3, <2>1, AddedTo
  <2>3. \A i \in 1..Len(cs) : cs[i] \in PageCalls
    OBVIOUS
  <2>4. \A i \in DOMAIN fromPage'[connection] : fromPage'[connection][i] \notin PageCalls => i \in 1..Len(fromPage[connection])
    BY <2>2, <2>3
  <2>5. \A s \in DOMAIN fromPage' : \A i \in DOMAIN fromPage'[s] : fromPage'[s][i] \notin PageCalls =>
              s \in DOMAIN fromPage /\ i \in DOMAIN fromPage[s] /\ fromPage[s][i] = fromPage'[s][i]
    BY <2>2, <2>4
  <2> QED
    BY <1>1, <2>5, SameOld
<1> QED
  BY <1>2, <1>3, SentForm

LEMMA AnewOld ==
    ASSUME PageTyped, NEW sockets \in Seq(ReadyStates), Len(sockets) = Len(socket), NewSocket(sockets)
    PROVE  FromOld(fromPage, fromPage') /\ FromOld(toPage, toPage')
<1>1. fromPage' = Append(fromPage, <<>>) /\ toPage' = Append(toPage, <<>>)
      /\ fromPage \in Seq(Seq(ToServer)) /\ toPage \in Seq(Seq(ToPage))
  BY DEF NewSocket, PageTyped
<1>2. \A s \in DOMAIN fromPage' : \A i \in DOMAIN fromPage'[s] :
          s \in DOMAIN fromPage /\ i \in DOMAIN fromPage[s] /\ fromPage[s][i] = fromPage'[s][i]
  BY <1>1, QueueAdded
<1>3. \A s \in DOMAIN toPage' : \A i \in DOMAIN toPage'[s] :
          s \in DOMAIN toPage /\ i \in DOMAIN toPage[s] /\ toPage[s][i] = toPage'[s][i]
  BY <1>1, QueueAdded
<1>4. FromOld(fromPage, fromPage')
  BY <1>1, <1>2, SameOld
<1>5. FromOld(toPage, toPage')
  BY <1>1, <1>3, SameOld
<1> QED
  BY <1>4, <1>5

LEMMA QuietOld ==
    ASSUME PageTyped, UNCHANGED <<fromPage, toPage>>
    PROVE  FromOld(fromPage, fromPage') /\ FromOld(toPage, toPage')
BY SameOld DEF PageTyped

LEMMA ClientNumbered ==
    ASSUME Admissible, PageTyped, Numbered,
           \/ Connect \/ Close \/ (\E retry \in BOOLEAN : Resolve(retry)) \/ UNCHANGED pageVars
           \/ \E c \in PageCalls : CallMethod(c)
           \/ \E s \in Sockets : OnOpen(s) \/ OnClose(s) \/ OnResponse(s) \/ Break(s)
    PROVE  Numbered'
<1>1. promised' = promised /\ answers' = answers /\ asked' = asked /\ (closes' = closes \/ closes' = closes + 1)
  BY DEF Connect, Close, Resolve, CallMethod, OnOpen, OnClose, OnResponse, Break, pageVars, bounds
<1>2. socket \in Seq(ReadyStates) /\ fromPage \in Seq(Seq(ToServer)) /\ toPage \in Seq(Seq(ToPage))
      /\ Sockets = DOMAIN fromPage /\ Sockets = DOMAIN toPage
  BY DEF PageTyped, Sockets
<1> SUFFICES FromOld(fromPage, fromPage') /\ FromOld(toPage, toPage')
  BY <1>1, NumberedFewer
<1>3. CASE Connect \/ \E retry \in BOOLEAN : Resolve(retry)
  BY <1>2, <1>3, AnewOld DEF Connect, Resolve
<1>4. CASE Close
  BY <1>4, QuietOld DEF Close
<1>5. ASSUME NEW c \in PageCalls, CallMethod(c)
      PROVE  FromOld(fromPage, fromPage') /\ FromOld(toPage, toPage')
  <2>1. toPage' = toPage /\ (fromPage' = fromPage \/ fromPage' = Sent(socket, <<c>>))
    BY <1>5 DEF CallMethod
  <2>2. <<c>> \in Seq(PageCalls)
    OBVIOUS
  <2>3. FromOld(toPage, toPage')
    BY <1>2, <2>1, SameOld
  <2>4. fromPage' = fromPage => FromOld(fromPage, fromPage')
    BY <2>1, QuietOld
  <2> QED
    BY <2>1, <2>2, <2>3, <2>4, CallsSent
<1>6. ASSUME NEW s \in Sockets, OnOpen(s)
      PROVE  FromOld(fromPage, fromPage') /\ FromOld(toPage, toPage')
  <2>1. toPage' = toPage /\ \E order \in Orders(idtable) : fromPage' = Sent(socket', order)
    BY <1>6 DEF OnOpen
  <2>2. \A order \in Orders(idtable) : order \in Seq(PageCalls)
    BY OrderTyped DEF PageTyped
  <2>3. FromOld(toPage, toPage')
    BY <1>2, <2>1, SameOld
  <2> QED
    BY <2>1, <2>2, <2>3, CallsSent
<1>7. ASSUME NEW s \in Sockets, OnClose(s)
      PROVE  FromOld(fromPage, fromPage') /\ FromOld(toPage, toPage')
  <2> DEFINE sockets == [socket EXCEPT ![s] = "closed"]
  <2>1. sockets \in Seq(ReadyStates) /\ Len(sockets) = Len(socket)
    <3>1. "closed" \in ReadyStates
      BY DEF ReadyStates
    <3> QED
      BY <1>2, <3>1 DEF Sockets
  <2>2. NewSocket(sockets) \/ UNCHANGED <<fromPage, toPage>>
    BY <1>7 DEF OnClose
  <2> HIDE DEF sockets
  <2> QED
    BY <2>1, <2>2, AnewOld, QuietOld
<1>8. ASSUME NEW s \in Sockets, OnResponse(s)
      PROVE  FromOld(fromPage, fromPage') /\ FromOld(toPage, toPage')
  <2>1. fromPage' = fromPage /\ toPage[s] # <<>> /\ toPage' = [toPage EXCEPT ![s] = Tail(@)] /\ s \in DOMAIN toPage
    BY <1>2, <1>8 DEF OnResponse
  <2>2. FromOld(fromPage, fromPage')
    BY <1>2, <2>1, SameOld
  <2> QED
    BY <1>2, <2>1, <2>2, TailOld
<1>9. ASSUME NEW s \in Sockets, Break(s)
      PROVE  FromOld(fromPage, fromPage') /\ FromOld(toPage, toPage')
  <2>1. fromPage' = [fromPage EXCEPT ![s] = <<>>] /\ toPage' = [toPage EXCEPT ![s] = <<>>]
        /\ s \in DOMAIN toPage /\ s \in DOMAIN fromPage
    BY <1>2, <1>9 DEF Break
  <2>2. \A t \in DOMAIN fromPage' : \A i \in DOMAIN fromPage'[t] :
           t \in DOMAIN fromPage /\ i \in DOMAIN fromPage[t] /\ fromPage[t][i] = fromPage'[t][i]
    BY <1>2, <2>1, Emptied
  <2>3. \A t \in DOMAIN toPage' : \A i \in DOMAIN toPage'[t] :
           t \in DOMAIN toPage /\ i \in DOMAIN toPage[t] /\ toPage[t][i] = toPage'[t][i]
    BY <1>2, <2>1, Emptied
  <2>4. FromOld(fromPage, fromPage')
    BY <1>2, <2>2, SameOld
  <2>5. FromOld(toPage, toPage')
    BY <1>2, <2>3, SameOld
  <2> QED
    BY <2>4, <2>5
<1>10. CASE UNCHANGED pageVars
  BY <1>10, QuietOld DEF pageVars, wires
<1> QED
  BY <1>3, <1>4, <1>5, <1>6, <1>7, <1>8, <1>9, <1>10

(* A reply is added to the messages to the server. *)
LEMMA NumberedReply ==
    ASSUME Admissible, PageTyped, Numbered, NEW m \in Replies, fromPage' = Sent(socket, <<m>>),
           FromOld(toPage, toPage'), promised' \subseteq promised, m.to \notin promised', ~OnWay(m.to)',
           m.to \in DOMAIN asked, ~Answering(m.to), \A i \in DOMAIN answers : answers[i].to # m.to,
           Fits(m.as, connection, asked[m.to]), UNCHANGED <<asked, answers, closes>>
    PROVE  Numbered'
<1>1. PICK d \in [DOMAIN toPage' -> {0, 1}] : \A s \in DOMAIN toPage' : \A i \in DOMAIN toPage'[s] : toPage'[s][i] \notin PageCalls =>
         s \in DOMAIN toPage /\ i + d[s] \in DOMAIN toPage[s] /\ toPage[s][i + d[s]] = toPage'[s][i]
  BY DEF FromOld
<1>2. \A n : OnWay(n)' => OnWay(n)
  BY <1>1 DEF OnWay
<1>3. m \notin PageCalls
  BY DEF Admissible
<1>4. DOMAIN fromPage' = DOMAIN fromPage /\ Sockets = DOMAIN fromPage
  <2>1. Sockets = DOMAIN fromPage
    BY DEF PageTyped, Sockets
  <2> QED
    BY <2>1, SendsReply
<1>5. \A s \in DOMAIN fromPage : \A i \in DOMAIN fromPage'[s] :
         \/ i \in DOMAIN fromPage[s] /\ fromPage'[s][i] = fromPage[s][i]
         \/ i = Len(fromPage[s]) + 1 /\ fromPage'[s][i] = m /\ s = connection
  BY <1>4, SendsReply
<1>6. \A n : Answering(n)' => Answering(n) \/ n = m.to
  BY <1>4, <1>5 DEF Answering
<1>7. RequestsOnce(toPage')
  BY OnceOld DEF Numbered
<1>8. RepliesOnce(fromPage')
  <2> SUFFICES ASSUME NEW s \in DOMAIN fromPage, NEW t \in DOMAIN fromPage,
                      NEW i \in DOMAIN fromPage'[s], NEW j \in DOMAIN fromPage'[t],
                      fromPage'[s][i] \notin PageCalls, fromPage'[t][j] \notin PageCalls, fromPage'[s][i].to = fromPage'[t][j].to
               PROVE  s = t /\ i = j
    BY <1>4 DEF RepliesOnce
  <2>1. CASE fromPage'[s][i] = m \/ fromPage'[t][j] = m
    <3>1. fromPage'[s][i].to = m.to /\ fromPage'[t][j].to = m.to
      BY <2>1
    <3>2. ~(i \in DOMAIN fromPage[s] /\ fromPage'[s][i] = fromPage[s][i])
      BY <3>1 DEF Answering
    <3>3. ~(j \in DOMAIN fromPage[t] /\ fromPage'[t][j] = fromPage[t][j])
      BY <3>1 DEF Answering
    <3> QED
      BY <1>5, <3>2, <3>3
  <2>2. CASE fromPage'[s][i] # m /\ fromPage'[t][j] # m
    <3>1. i \in DOMAIN fromPage[s] /\ fromPage'[s][i] = fromPage[s][i]
      BY <1>5, <2>2
    <3>2. j \in DOMAIN fromPage[t] /\ fromPage'[t][j] = fromPage[t][j]
      BY <1>5, <2>2
    <3> QED
      BY <3>1, <3>2 DEF Numbered, RepliesOnce
  <2> QED
    BY <2>1, <2>2
<1>9. \A s \in DOMAIN toPage' : \A i \in DOMAIN toPage'[s] :
          toPage'[s][i] \notin PageCalls => toPage'[s][i] \in DOMAIN asked' /\ asked'[toPage'[s][i]].on = s
  <2> SUFFICES ASSUME NEW s \in DOMAIN toPage', NEW i \in DOMAIN toPage'[s], toPage'[s][i] \notin PageCalls
               PROVE  toPage'[s][i] \in DOMAIN asked' /\ asked'[toPage'[s][i]].on = s
    OBVIOUS
  <2>1. s \in DOMAIN toPage /\ i + d[s] \in DOMAIN toPage[s] /\ toPage[s][i + d[s]] = toPage'[s][i]
    BY <1>1
  <2> QED
    BY <2>1 DEF Numbered
<1>10. \A n \in promised' : n \in DOMAIN asked' /\ asked'[n].method = "promises" /\ ~OnWay(n)'
  BY <1>2 DEF Numbered
<1>11. \A s \in DOMAIN fromPage' : \A i \in DOMAIN fromPage'[s] : fromPage'[s][i] \notin PageCalls =>
          /\ fromPage'[s][i].to \in DOMAIN asked' /\ Fits(fromPage[s][i].as, s, asked[fromPage[s][i].to])'
          /\ fromPage'[s][i].to \notin promised' /\ ~OnWay(fromPage[s][i].to)'
  <2> SUFFICES ASSUME NEW s \in DOMAIN fromPage, NEW i \in DOMAIN fromPage'[s], fromPage'[s][i] \notin PageCalls
               PROVE  /\ fromPage'[s][i].to \in DOMAIN asked' /\ Fits(fromPage[s][i].as, s, asked[fromPage[s][i].to])'
                      /\ fromPage'[s][i].to \notin promised' /\ ~OnWay(fromPage[s][i].to)'
    BY <1>4
  <2> DEFINE r == fromPage'[s][i]
  <2>1. r.to \in DOMAIN asked /\ Fits(r.as, s, asked[r.to]) /\ r.to \notin promised' /\ (OnWay(r.to) \/ ~OnWay(r.to))
    <3>1. CASE i \in DOMAIN fromPage[s] /\ r = fromPage[s][i]
      <4> HIDE DEF r
      <4>1. r \notin PageCalls
        BY DEF r
      <4> QED
        BY <3>1, <4>1 DEF Numbered
    <3>2. CASE r = m /\ s = connection
      BY <3>2
    <3> QED
      BY <1>5, <3>1, <3>2
  <2>2. ~OnWay(fromPage[s][i].to)'
    <3>1. CASE i \in DOMAIN fromPage[s] /\ r = fromPage[s][i]
      <4>1. ~OnWay(fromPage[s][i].to)
        BY <3>1 DEF Numbered
      <4> QED
        BY <1>2, <3>1, <4>1 DEF OnWay
    <3>2. CASE r = m /\ s = connection
      BY <3>2 DEF OnWay
    <3> QED
      BY <1>5, <3>1, <3>2
  <2> QED
    BY <2>1, <2>2 DEF Fits
<1>12. \A i \in DOMAIN answers' :
          /\ answers'[i].to \in DOMAIN asked' /\ Fits(answers[i].as, answers[i].by, asked[answers[i].to])'
          /\ answers'[i].to \notin promised' /\ ~OnWay(answers[i].to)' /\ ~Answering(answers[i].to)'
  <2> TAKE i \in DOMAIN answers'
  <2>1. /\ answers[i].to \in DOMAIN asked /\ Fits(answers[i].as, answers[i].by, asked[answers[i].to])
        /\ answers[i].to \notin promised /\ ~OnWay(answers[i].to) /\ ~Answering(answers[i].to) /\ answers[i].to # m.to
    BY DEF Numbered
  <2>2. Fits(answers[i].as, answers[i].by, asked[answers[i].to])'
    BY <2>1 DEF Fits
  <2>3. ~OnWay(answers[i].to)'
    BY <1>2, <2>1 DEF OnWay
  <2>4. ~Answering(answers[i].to)'
    BY <1>6, <2>1 DEF Answering
  <2> QED
    BY <2>1, <2>2, <2>3, <2>4
<1>13. \A i, j \in DOMAIN answers' : answers'[i].to = answers'[j].to => i = j
  BY DEF Numbered
<1> QED
  BY <1>7, <1>8, <1>9, <1>10, <1>11, <1>12, <1>13 DEF Numbered

(* A request is read: it is nowhere else. *)
LEMMA RequestRead ==
    ASSUME PageTyped, Numbered, NEW s \in Sockets, NEW n, n = Head(toPage[s]), OnRequest(s)
    PROVE  /\ n \in Nat /\ n \notin PageCalls /\ n \in DOMAIN asked /\ asked[n].on = s
           /\ n \notin promised /\ ~Answering(n) /\ (\A i \in DOMAIN answers : answers[i].to # n)
           /\ ~OnWay(n)' /\ FromOld(toPage, toPage')
<1>1. toPage \in Seq(Seq(ToPage)) /\ s \in DOMAIN toPage /\ toPage[s] # <<>> /\ toPage' = [toPage EXCEPT ![s] = Tail(@)]
      /\ n \notin PageCalls
  BY DEF PageTyped, Sockets, OnRequest
<1>2. /\ \A t \in DOMAIN toPage : t # s => toPage'[t] = toPage[t]
      /\ 1 \in DOMAIN toPage[s] /\ n = toPage[s][1] /\ n \in ToPage /\ DOMAIN toPage' = DOMAIN toPage
      /\ \A i \in DOMAIN toPage'[s] : i + 1 \in DOMAIN toPage[s] /\ toPage'[s][i] = toPage[s][i + 1] /\ i + 1 # 1
  BY <1>1, HeadTaken
<1>3. OnWay(n)
  BY <1>1, <1>2 DEF OnWay
<1>4. n \in Nat /\ n \in DOMAIN asked /\ asked[n].on = s
  BY <1>1, <1>2 DEF Numbered, ToPage
<1>5. n \notin promised /\ \A i \in DOMAIN answers : answers[i].to # n
  BY <1>3 DEF Numbered
<1>6. ~Answering(n)
  BY <1>3 DEF Numbered, Answering
<1>7. ASSUME NEW t \in DOMAIN toPage', NEW i \in DOMAIN toPage'[t], toPage'[t][i] \notin PageCalls, toPage'[t][i] = n
      PROVE  FALSE
  <2>1. CASE t = s
    <3>1. i + 1 \in DOMAIN toPage[s] /\ toPage[s][i + 1] = n /\ i + 1 # 1
      BY <1>2, <1>7, <2>1
    <3> QED
      BY <1>1, <1>2, <3>1 DEF Numbered, RequestsOnce
  <2>2. CASE t # s
    <3>1. i \in DOMAIN toPage[t] /\ toPage[t][i] = n /\ t \in DOMAIN toPage
      BY <1>2, <1>7, <2>2
    <3> QED
      BY <1>1, <1>2, <2>2, <3>1 DEF Numbered, RequestsOnce
  <2> QED
    BY <2>1, <2>2
<1>8. ~OnWay(n)'
  BY <1>7 DEF OnWay
<1>9. FromOld(toPage, toPage')
  BY <1>1, TailOld
<1> QED
  BY <1>1, <1>4, <1>5, <1>6, <1>8, <1>9

LEMMA RequestNumbered ==
    ASSUME Admissible, PageTyped, Alone, Numbered, NEW s \in Sockets, OnRequest(s)
    PROVE  Numbered'
<1> PICK n : n = Head(toPage[s])
  OBVIOUS
<1>1. /\ n \in Nat /\ n \notin PageCalls /\ n \in DOMAIN asked /\ asked[n].on = s
      /\ n \notin promised /\ ~Answering(n) /\ (\A i \in DOMAIN answers : answers[i].to # n)
      /\ ~OnWay(n)' /\ FromOld(toPage, toPage')
  BY RequestRead
<1>2. UNCHANGED <<asked, answers, closes>> /\ socket[s] = "open"
      /\ promised' = promised \cup (IF asked[n].method = "promises" THEN {n} ELSE {})
  BY DEF OnRequest, bounds
<1>3. ASSUME NEW as \in {"error", "result"}, fromPage' = Sent(socket, <<[as |-> as, to |-> n]>>),
             asked[n].method = IF as = "error" THEN "succeeds" ELSE "fails"
      PROVE  Numbered'
  <2> DEFINE m == [as |-> as, to |-> n]
  <2>1. m \in Replies /\ m.to = n /\ m.as = as
    BY <1>1 DEF Replies
  <2>2. promised' = promised
    BY <1>2, <1>3
  <2>3. Fits(as, connection, asked[n])
    <3>1. closes = 0 => connection = asked[n].on
      BY <1>1, <1>2 DEF Alone
    <3> QED
      BY <1>3, <3>1 DEF Fits
  <2> HIDE DEF m
  <2>4. fromPage' = Sent(socket, <<m>>)
    BY <1>3 DEF m
  <2>5. ~OnWay(m.to)'
    BY <1>1, <2>1 DEF OnWay
  <2> QED
    BY <1>1, <1>2, <2>1, <2>2, <2>3, <2>4, <2>5, NumberedReply
<1>4. ASSUME asked[n].method = "promises", fromPage' = fromPage
      PROVE  Numbered'
  <2>1. promised' = promised \cup {n}
    BY <1>2, <1>4
  <2>2. PICK d \in [DOMAIN toPage' -> {0, 1}] : \A t \in DOMAIN toPage' : \A i \in DOMAIN toPage'[t] : toPage'[t][i] \notin PageCalls =>
           t \in DOMAIN toPage /\ i + d[t] \in DOMAIN toPage[t] /\ toPage[t][i + d[t]] = toPage'[t][i]
    BY <1>1 DEF FromOld
  <2>3. \A k : OnWay(k)' => OnWay(k)
    BY <2>2 DEF OnWay
  <2>4. RequestsOnce(toPage') /\ RepliesOnce(fromPage')
    BY <1>1, <1>4, OnceOld DEF Numbered
  <2>5. \A t \in DOMAIN toPage' : \A i \in DOMAIN toPage'[t] :
            toPage'[t][i] \notin PageCalls => toPage'[t][i] \in DOMAIN asked' /\ asked'[toPage'[t][i]].on = t
    <3> SUFFICES ASSUME NEW t \in DOMAIN toPage', NEW i \in DOMAIN toPage'[t], toPage'[t][i] \notin PageCalls
                 PROVE  toPage'[t][i] \in DOMAIN asked' /\ asked'[toPage'[t][i]].on = t
      OBVIOUS
    <3>1. t \in DOMAIN toPage /\ i + d[t] \in DOMAIN toPage[t] /\ toPage[t][i + d[t]] = toPage'[t][i]
      BY <2>2
    <3> QED
      BY <1>2, <3>1 DEF Numbered
  <2>6. \A k \in promised' : k \in DOMAIN asked' /\ asked'[k].method = "promises" /\ ~OnWay(k)'
    BY <1>1, <1>2, <1>4, <2>1, <2>3 DEF Numbered
  <2>7. \A t \in DOMAIN fromPage' : \A i \in DOMAIN fromPage'[t] : fromPage'[t][i] \notin PageCalls =>
            /\ fromPage'[t][i].to \in DOMAIN asked' /\ Fits(fromPage[t][i].as, t, asked[fromPage[t][i].to])'
            /\ fromPage'[t][i].to \notin promised' /\ ~OnWay(fromPage[t][i].to)'
    <3> SUFFICES ASSUME NEW t \in DOMAIN fromPage, NEW i \in DOMAIN fromPage[t], fromPage[t][i] \notin PageCalls
                 PROVE  /\ fromPage'[t][i].to \in DOMAIN asked' /\ Fits(fromPage[t][i].as, t, asked[fromPage[t][i].to])'
                        /\ fromPage'[t][i].to \notin promised' /\ ~OnWay(fromPage[t][i].to)'
      BY <1>4
    <3>1. /\ fromPage[t][i].to \in DOMAIN asked /\ Fits(fromPage[t][i].as, t, asked[fromPage[t][i].to])
          /\ fromPage[t][i].to \notin promised /\ ~OnWay(fromPage[t][i].to)
      BY DEF Numbered
    <3>2. fromPage[t][i].to # n
      BY <1>1 DEF Answering
    <3>3. Fits(fromPage[t][i].as, t, asked[fromPage[t][i].to])'
      BY <1>2, <1>4, <3>1 DEF Fits
    <3>4. ~OnWay(fromPage[t][i].to)'
      BY <1>4, <2>3, <3>1 DEF OnWay
    <3> QED
      BY <1>2, <1>4, <2>1, <3>1, <3>2, <3>3, <3>4
  <2>8. \A i \in DOMAIN answers' :
            /\ answers'[i].to \in DOMAIN asked' /\ Fits(answers[i].as, answers[i].by, asked[answers[i].to])'
            /\ answers'[i].to \notin promised' /\ ~OnWay(answers[i].to)' /\ ~Answering(answers[i].to)'
    <3> TAKE i \in DOMAIN answers'
    <3>1. /\ answers[i].to \in DOMAIN asked /\ Fits(answers[i].as, answers[i].by, asked[answers[i].to])
          /\ answers[i].to \notin promised /\ ~OnWay(answers[i].to) /\ ~Answering(answers[i].to) /\ answers[i].to # n
      BY <1>1, <1>2 DEF Numbered
    <3>2. Fits(answers[i].as, answers[i].by, asked[answers[i].to])'
      BY <1>2, <3>1 DEF Fits
    <3>3. ~OnWay(answers[i].to)'
      BY <1>2, <2>3, <3>1 DEF OnWay
    <3>4. ~Answering(answers[i].to)'
      BY <1>2, <1>4, <3>1 DEF Answering
    <3> QED
      BY <1>2, <2>1, <3>1, <3>2, <3>3, <3>4
  <2>9. \A i, j \in DOMAIN answers' : answers'[i].to = answers'[j].to => i = j
    BY <1>2 DEF Numbered
  <2> QED
    BY <2>4, <2>5, <2>6, <2>7, <2>8, <2>9 DEF Numbered
<1>5. ASSUME asked[n].method # "promises", fromPage' = fromPage
      PROVE  Numbered'
  <2>1. FromOld(fromPage, fromPage')
    BY <1>5, SameOld DEF PageTyped
  <2> QED
    BY <1>1, <1>2, <1>5, <2>1, NumberedFewer
<1>6. \/ asked[n].method = "succeeds" /\ fromPage' = Sent(socket, <<[as |-> "error", to |-> n]>>)
      \/ asked[n].method = "fails" /\ fromPage' = Sent(socket, <<[as |-> "result", to |-> n]>>)
      \/ fromPage' = fromPage
  BY DEF OnRequest
<1> QED
  BY <1>3, <1>4, <1>5, <1>6

LEMMA PromisedNumbered ==
    ASSUME Admissible, PageTyped, Numbered, NEW n \in promised, PromiseResolves(n)
    PROVE  Numbered'
<1> DEFINE m == [as |-> "stray", to |-> n]
<1>1. m \in Replies /\ m.to = n /\ m.as = "stray"
  BY DEF PageTyped, Replies
<1>2. fromPage' = Sent(socket, <<m>>) /\ promised' = promised \ {n} /\ toPage' = toPage
      /\ UNCHANGED <<asked, answers, closes>>
  BY DEF PromiseResolves, bounds
<1>3. n \in DOMAIN asked /\ asked[n].method = "promises" /\ ~OnWay(n)
  BY DEF Numbered
<1>4. ~Answering(n) /\ \A i \in DOMAIN answers : answers[i].to # n
  BY DEF Numbered, Answering
<1>5. Fits("stray", connection, asked[n])
  BY <1>3 DEF Fits
<1>6. FromOld(toPage, toPage')
  BY <1>2, SameOld DEF PageTyped
<1> HIDE DEF m
<1>7. ~OnWay(m.to)'
  BY <1>1, <1>2, <1>3 DEF OnWay
<1> QED
  BY <1>1, <1>2, <1>3, <1>4, <1>5, <1>6, <1>7, NumberedReply

LEMMA ServeNumbered ==
    ASSUME Admissible, PageTyped, Numbered, NEW s \in Sockets, Serve(s)
    PROVE  Numbered'
<1>1. fromPage \in Seq(Seq(ToServer)) /\ toPage \in Seq(Seq(ToPage)) /\ s \in DOMAIN fromPage /\ s \in DOMAIN toPage
      /\ s \in Nat /\ answers \in Seq([by : Nat, as : {"error", "result", "stray"}, to : Nat])
  BY DEF PageTyped, Sockets
<1>2. fromPage[s] # <<>> /\ fromPage' = [fromPage EXCEPT ![s] = Tail(@)] /\ UNCHANGED <<promised, asked, closes>>
  BY DEF Serve, bounds
<1>3. FromOld(fromPage, fromPage')
  BY <1>1, <1>2, TailOld
<1> PICK m : m = Head(fromPage[s])
  OBVIOUS
<1>4. CASE m \in PageCalls
  <2>1. toPage' = [toPage EXCEPT ![s] = Append(@, m)] /\ answers' = answers
    BY <1>4 DEF Serve
  <2>2. toPage'[s] = toPage[s] \o <<m>> /\ \A t \in DOMAIN toPage : t # s => toPage'[t] = toPage[t]
    <3>1. toPage[s] \in Seq(ToPage) /\ m \in ToPage
      BY <1>1, <1>4 DEF ToPage
    <3>2. toPage'[s] = Append(toPage[s], m) /\ \A t \in DOMAIN toPage : t # s => toPage'[t] = toPage[t]
      BY <1>1, <2>1
    <3> QED
      BY <3>1, <3>2, OneAppended
  <2>3. DOMAIN toPage' = DOMAIN toPage
    BY <1>1, <2>1
  <2>4. \A i \in DOMAIN toPage'[s] : toPage'[s][i] \notin PageCalls => i \in DOMAIN toPage[s] /\ toPage'[s][i] = toPage[s][i]
    <3> DEFINE q == toPage[s]
    <3>1. q \in Seq(ToPage) /\ m \in ToPage
      BY <1>1, <1>4 DEF ToPage
    <3> HIDE DEF q
    <3>2. \A i \in DOMAIN (q \o <<m>>) : \/ i \in DOMAIN q /\ (q \o <<m>>)[i] = q[i]
                                         \/ i = Len(q) + 1 /\ (q \o <<m>>)[i] = m
      BY <3>1, OneMore
    <3>3. \A i \in DOMAIN (q \o <<m>>) : (q \o <<m>>)[i] \notin PageCalls => i \in DOMAIN q /\ (q \o <<m>>)[i] = q[i]
      BY <1>4, <3>2
    <3> QED
      BY <2>2, <3>3 DEF q
  <2>5. \A t \in DOMAIN toPage' : \A i \in DOMAIN toPage'[t] : toPage'[t][i] \notin PageCalls =>
            t \in DOMAIN toPage /\ i \in DOMAIN toPage[t] /\ toPage[t][i] = toPage'[t][i]
    BY <2>2, <2>3, <2>4
  <2>6. FromOld(toPage, toPage')
    BY <1>1, <2>5, SameOld
  <2> QED
    BY <1>2, <1>3, <2>1, <2>6, NumberedFewer
<1>5. CASE m \notin PageCalls
  <2>1. toPage' = toPage /\ answers' = Append(answers, [by |-> s, as |-> m.as, to |-> m.to])
    BY <1>5 DEF Serve
  <2>2. /\ \A t \in DOMAIN fromPage : t # s => fromPage'[t] = fromPage[t]
        /\ 1 \in DOMAIN fromPage[s] /\ m = fromPage[s][1] /\ m \in ToServer /\ DOMAIN fromPage' = DOMAIN fromPage
        /\ \A i \in DOMAIN fromPage'[s] : i + 1 \in DOMAIN fromPage[s] /\ fromPage'[s][i] = fromPage[s][i + 1] /\ i + 1 # 1
    BY <1>1, <1>2, HeadTaken
  <2>3. m \in Replies
    BY <1>5, <2>2 DEF ToServer
  <2>4. Answering(m.to)
    BY <1>1, <1>5, <2>2 DEF Answering
  <2>5. m.to \in DOMAIN asked /\ Fits(m.as, s, asked[m.to]) /\ m.to \notin promised /\ ~OnWay(m.to)
        /\ \A i \in DOMAIN answers : answers[i].to # m.to
    <3>1. m.to \in DOMAIN asked /\ Fits(m.as, s, asked[m.to]) /\ m.to \notin promised /\ ~OnWay(m.to)
      BY <1>1, <1>5, <2>2 DEF Numbered
    <3>2. \A i \in DOMAIN answers : answers[i].to # m.to
      BY <2>4 DEF Numbered
    <3> QED
      BY <3>1, <3>2
  <2>6. ASSUME NEW t \in DOMAIN fromPage', NEW i \in DOMAIN fromPage'[t], fromPage'[t][i] \notin PageCalls, fromPage'[t][i].to = m.to
        PROVE  FALSE
    <3>1. CASE t = s
      <4>1. i + 1 \in DOMAIN fromPage[s] /\ fromPage[s][i + 1] = fromPage'[t][i] /\ i + 1 # 1
        BY <2>2, <2>6, <3>1
      <4> QED
        BY <1>1, <1>5, <2>2, <2>6, <4>1 DEF Numbered, RepliesOnce
    <3>2. CASE t # s
      <4>1. i \in DOMAIN fromPage[t] /\ fromPage[t][i] = fromPage'[t][i] /\ t \in DOMAIN fromPage
        BY <2>2, <2>6, <3>2
      <4> QED
        BY <1>1, <1>5, <2>2, <2>6, <3>2, <4>1 DEF Numbered, RepliesOnce
    <3> QED
      BY <3>1, <3>2
  <2>7. PICK d \in [DOMAIN fromPage' -> {0, 1}] : \A t \in DOMAIN fromPage' : \A i \in DOMAIN fromPage'[t] : fromPage'[t][i] \notin PageCalls =>
           t \in DOMAIN fromPage /\ i + d[t] \in DOMAIN fromPage[t] /\ fromPage[t][i + d[t]] = fromPage'[t][i]
    BY <1>3 DEF FromOld
  <2>8. \A k : Answering(k)' => Answering(k)
    BY <2>7 DEF Answering
  <2>9. DOMAIN answers' = DOMAIN answers \cup {Len(answers) + 1} /\ Len(answers) + 1 \notin DOMAIN answers
        /\ (\A i \in DOMAIN answers : answers'[i] = answers[i])
        /\ answers'[Len(answers) + 1] = [by |-> s, as |-> m.as, to |-> m.to]
    <3> DEFINE a == [by |-> s, as |-> m.as, to |-> m.to]
    <3> PICK M : M = [by : Nat, as : {"error", "result", "stray"}, to : Nat]
      OBVIOUS
    <3>1. a \in M /\ answers \in Seq(M)
      BY <1>1, <2>3 DEF Replies
    <3> HIDE DEF a
    <3>2. answers' = Append(answers, a)
      BY <2>1 DEF a
    <3>3. DOMAIN answers' = DOMAIN answers \cup {Len(answers) + 1} /\ Len(answers) + 1 \notin DOMAIN answers
          /\ (\A i \in DOMAIN answers : answers'[i] = answers[i]) /\ answers'[Len(answers) + 1] = a
      BY <3>1, <3>2, OneAppended
    <3> QED
      BY <3>3 DEF a
  <2>10. RequestsOnce(toPage') /\ RepliesOnce(fromPage')
    BY <1>3, <2>1, OnceOld DEF Numbered
  <2>11. \A t \in DOMAIN fromPage' : \A i \in DOMAIN fromPage'[t] : fromPage'[t][i] \notin PageCalls =>
            /\ fromPage'[t][i].to \in DOMAIN asked' /\ Fits(fromPage[t][i].as, t, asked[fromPage[t][i].to])'
            /\ fromPage'[t][i].to \notin promised' /\ ~OnWay(fromPage[t][i].to)'
    <3> SUFFICES ASSUME NEW t \in DOMAIN fromPage', NEW i \in DOMAIN fromPage'[t], fromPage'[t][i] \notin PageCalls
                 PROVE  /\ fromPage'[t][i].to \in DOMAIN asked' /\ Fits(fromPage[t][i].as, t, asked[fromPage[t][i].to])'
                        /\ fromPage'[t][i].to \notin promised' /\ ~OnWay(fromPage[t][i].to)'
      OBVIOUS
    <3> PICK r : r = fromPage'[t][i]
      OBVIOUS
    <3>1. t \in DOMAIN fromPage /\ i + d[t] \in DOMAIN fromPage[t] /\ fromPage[t][i + d[t]] = r /\ r \notin PageCalls
      BY <2>7
    <3>2. r.to \in DOMAIN asked /\ Fits(r.as, t, asked[r.to]) /\ r.to \notin promised /\ ~OnWay(r.to)
      BY <3>1 DEF Numbered
    <3>3. Fits(fromPage[t][i].as, t, asked[fromPage[t][i].to])'
      BY <1>2, <3>2 DEF Fits
    <3>4. ~OnWay(fromPage[t][i].to)'
      BY <2>1, <3>2 DEF OnWay
    <3> QED
      BY <1>2, <3>2, <3>3, <3>4
  <2>12. \A i \in DOMAIN answers' :
            /\ answers'[i].to \in DOMAIN asked' /\ Fits(answers[i].as, answers[i].by, asked[answers[i].to])'
            /\ answers'[i].to \notin promised' /\ ~OnWay(answers[i].to)' /\ ~Answering(answers[i].to)'
    <3> SUFFICES ASSUME NEW i \in DOMAIN answers'
                 PROVE  /\ answers'[i].to \in DOMAIN asked' /\ Fits(answers[i].as, answers[i].by, asked[answers[i].to])'
                        /\ answers'[i].to \notin promised' /\ ~OnWay(answers[i].to)' /\ ~Answering(answers[i].to)'
      OBVIOUS
    <3> PICK a : a = answers'[i]
      OBVIOUS
    <3>1. /\ a.to \in DOMAIN asked /\ Fits(a.as, a.by, asked[a.to]) /\ a.to \notin promised /\ ~OnWay(a.to)
      BY <2>5, <2>9 DEF Numbered
    <3>2. \A t \in DOMAIN fromPage' : \A j \in DOMAIN fromPage'[t] : fromPage'[t][j] \notin PageCalls => fromPage'[t][j].to # a.to
      <4>1. CASE i \in DOMAIN answers
        <5>1. ~Answering(a.to)
          BY <2>9, <4>1 DEF Numbered
        <5> QED
          BY <2>8, <5>1 DEF Answering
      <4>2. CASE i = Len(answers) + 1
        <5>1. a.to = m.to
          BY <2>9, <4>2
        <5> QED
          BY <2>6, <5>1
      <4> QED
        BY <2>9, <4>1, <4>2
    <3>3. Fits(answers[i].as, answers[i].by, asked[answers[i].to])'
      BY <1>2, <3>1 DEF Fits
    <3>4. ~OnWay(answers[i].to)'
      BY <2>1, <3>1 DEF OnWay
    <3>5. ~Answering(answers[i].to)'
      BY <3>2 DEF Answering
    <3> QED
      BY <1>2, <3>1, <3>3, <3>4, <3>5
  <2>13. \A i, j \in DOMAIN answers' : answers'[i].to = answers'[j].to => i = j
    <3> SUFFICES ASSUME NEW i \in DOMAIN answers', NEW j \in DOMAIN answers', answers'[i].to = answers'[j].to
                 PROVE  i = j
      OBVIOUS
    <3>1. CASE i \in DOMAIN answers /\ j \in DOMAIN answers
      BY <2>9, <3>1 DEF Numbered
    <3>2. answers'[Len(answers) + 1].to = m.to
      BY <2>9
    <3>3. \A k \in DOMAIN answers : answers'[k].to # m.to
      BY <2>5, <2>9
    <3> QED
      BY <2>9, <3>1, <3>2, <3>3
  <2>14. \A t \in DOMAIN toPage' : \A i \in DOMAIN toPage'[t] :
            toPage'[t][i] \notin PageCalls => toPage'[t][i] \in DOMAIN asked' /\ asked'[toPage'[t][i]].on = t
    BY <1>2, <2>1 DEF Numbered
  <2>15. \A k \in promised' : k \in DOMAIN asked' /\ asked'[k].method = "promises" /\ ~OnWay(k)'
    BY <1>2, <2>1 DEF Numbered, OnWay
  <2> QED
    BY <2>10, <2>11, <2>12, <2>13, <2>14, <2>15 DEF Numbered
<1> QED
  BY <1>4, <1>5

LEMMA AskNumbered ==
    ASSUME Admissible, PageTyped, Numbered, NEW s \in Sockets, NEW q \in Methods, Ask(s, q)
    PROVE  Numbered'
<1> PICK n : n = Len(asked) + 1
  OBVIOUS
<1>1. /\ toPage' = [toPage EXCEPT ![s] = @ \o <<n>>] /\ n \in Nat
      /\ asked'[n] = [on |-> s, method |-> q]
      /\ \A k \in DOMAIN asked : k \in DOMAIN asked' /\ asked'[k] = asked[k]
      /\ DOMAIN asked' = DOMAIN asked \cup {n} /\ n \notin DOMAIN asked
  BY AskTyped
<1>2. UNCHANGED <<fromPage, promised, answers, closes>>
  BY DEF Ask, client
<1>3. toPage \in Seq(Seq(ToPage)) /\ s \in DOMAIN toPage /\ n \in ToPage
  BY <1>1 DEF PageTyped, Sockets, ToPage
<1>4. DOMAIN toPage' = DOMAIN toPage /\ (\A t \in DOMAIN toPage : t # s => toPage'[t] = toPage[t]) /\ toPage'[s] = toPage[s] \o <<n>>
  BY <1>1, <1>3
<1>5. /\ \A i \in DOMAIN toPage'[s] : \/ i \in DOMAIN toPage[s] /\ toPage'[s][i] = toPage[s][i]
                                      \/ i = Len(toPage[s]) + 1 /\ toPage'[s][i] = n
  <2> PICK p : p = toPage[s]
    OBVIOUS
  <2>1. p \in Seq(ToPage)
    BY <1>3
  <2>2. \A i \in DOMAIN (p \o <<n>>) : \/ i \in DOMAIN p /\ (p \o <<n>>)[i] = p[i]
                                       \/ i = Len(p) + 1 /\ (p \o <<n>>)[i] = n
    BY <1>3, <2>1, OneMore
  <2> QED
    BY <1>4, <2>2
<1>6. \A t \in DOMAIN toPage : \A i \in DOMAIN toPage'[t] :
         \/ i \in DOMAIN toPage[t] /\ toPage'[t][i] = toPage[t][i]
         \/ i = Len(toPage[t]) + 1 /\ toPage'[t][i] = n /\ t = s
  BY <1>4, <1>5
<1>7. \A k : OnWay(k)' => OnWay(k) \/ k = n
  BY <1>4, <1>6 DEF OnWay
<1>8. \A t \in DOMAIN toPage' : \A i \in DOMAIN toPage'[t] :
          toPage'[t][i] \notin PageCalls => toPage'[t][i] \in DOMAIN asked' /\ asked'[toPage'[t][i]].on = t
  <2> SUFFICES ASSUME NEW t \in DOMAIN toPage, NEW i \in DOMAIN toPage'[t], toPage'[t][i] \notin PageCalls
               PROVE  toPage'[t][i] \in DOMAIN asked' /\ asked'[toPage'[t][i]].on = t
    BY <1>4
  <2>1. CASE i \in DOMAIN toPage[t] /\ toPage'[t][i] = toPage[t][i]
    BY <1>1, <2>1 DEF Numbered
  <2>2. CASE toPage'[t][i] = n /\ t = s
    BY <1>1, <2>2
  <2> QED
    BY <1>6, <2>1, <2>2
<1>9. RequestsOnce(toPage')
  <2> SUFFICES ASSUME NEW t \in DOMAIN toPage, NEW u \in DOMAIN toPage,
                      NEW i \in DOMAIN toPage'[t], NEW j \in DOMAIN toPage'[u],
                      toPage'[t][i] \notin PageCalls, toPage'[u][j] \notin PageCalls, toPage'[t][i] = toPage'[u][j]
               PROVE  t = u /\ i = j
    BY <1>4 DEF RequestsOnce
  <2>1. CASE toPage'[t][i] = n
    <3>1. ~(i \in DOMAIN toPage[t] /\ toPage'[t][i] = toPage[t][i])
      BY <1>1, <2>1 DEF Numbered
    <3>2. ~(j \in DOMAIN toPage[u] /\ toPage'[u][j] = toPage[u][j])
      BY <1>1, <2>1 DEF Numbered
    <3> QED
      BY <1>6, <3>1, <3>2
  <2>2. CASE toPage'[t][i] # n
    <3>1. i \in DOMAIN toPage[t] /\ toPage'[t][i] = toPage[t][i]
      BY <1>6, <2>2
    <3>2. j \in DOMAIN toPage[u] /\ toPage'[u][j] = toPage[u][j]
      BY <1>6, <2>2
    <3>3. toPage[t][i] \notin PageCalls /\ toPage[u][j] \notin PageCalls /\ toPage[t][i] = toPage[u][j]
      BY <3>1, <3>2
    <3>4. RequestsOnce(toPage)
      BY DEF Numbered
    <3> QED
      BY <3>1, <3>2, <3>3, <3>4 DEF RequestsOnce
  <2> QED
    BY <2>1, <2>2
<1>10. \A k \in promised' : k \in DOMAIN asked' /\ asked'[k].method = "promises" /\ ~OnWay(k)'
  <2> TAKE k \in promised'
  <2>1. k \in DOMAIN asked /\ asked[k].method = "promises" /\ ~OnWay(k) /\ k # n
    BY <1>1, <1>2 DEF Numbered
  <2> QED
    BY <1>1, <1>7, <2>1
<1>12. \A t \in DOMAIN fromPage' : \A i \in DOMAIN fromPage'[t] : fromPage'[t][i] \notin PageCalls =>
            /\ fromPage'[t][i].to \in DOMAIN asked' /\ Fits(fromPage[t][i].as, t, asked[fromPage[t][i].to])'
            /\ fromPage'[t][i].to \notin promised' /\ ~OnWay(fromPage[t][i].to)'
  <2> SUFFICES ASSUME NEW t \in DOMAIN fromPage, NEW i \in DOMAIN fromPage[t], fromPage[t][i] \notin PageCalls
               PROVE  /\ fromPage'[t][i].to \in DOMAIN asked' /\ Fits(fromPage[t][i].as, t, asked[fromPage[t][i].to])'
                      /\ fromPage'[t][i].to \notin promised' /\ ~OnWay(fromPage[t][i].to)'
    BY <1>2
  <2> PICK r : r = fromPage[t][i]
    OBVIOUS
  <2>1. r.to \in DOMAIN asked /\ Fits(r.as, t, asked[r.to]) /\ r.to \notin promised /\ ~OnWay(r.to) /\ r.to # n
    BY <1>1 DEF Numbered
  <2>2. Fits(fromPage[t][i].as, t, asked[fromPage[t][i].to])'
    BY <1>1, <1>2, <2>1 DEF Fits
  <2>3. ~OnWay(fromPage[t][i].to)'
    BY <1>2, <1>7, <2>1 DEF OnWay
  <2> QED
    BY <1>1, <1>2, <2>1, <2>2, <2>3
<1>13. \A i \in DOMAIN answers' :
            /\ answers'[i].to \in DOMAIN asked' /\ Fits(answers[i].as, answers[i].by, asked[answers[i].to])'
            /\ answers'[i].to \notin promised' /\ ~OnWay(answers[i].to)' /\ ~Answering(answers[i].to)'
  <2> SUFFICES ASSUME NEW i \in DOMAIN answers
               PROVE  /\ answers'[i].to \in DOMAIN asked' /\ Fits(answers[i].as, answers[i].by, asked[answers[i].to])'
                      /\ answers'[i].to \notin promised' /\ ~OnWay(answers[i].to)' /\ ~Answering(answers[i].to)'
    BY <1>2
  <2> PICK a : a = answers[i]
    OBVIOUS
  <2>1. /\ a.to \in DOMAIN asked /\ Fits(a.as, a.by, asked[a.to]) /\ a.to \notin promised /\ ~OnWay(a.to)
        /\ ~Answering(a.to) /\ a.to # n
    BY <1>1 DEF Numbered
  <2>2. Fits(answers[i].as, answers[i].by, asked[answers[i].to])'
    BY <1>1, <1>2, <2>1 DEF Fits
  <2>3. ~OnWay(answers[i].to)'
    BY <1>2, <1>7, <2>1 DEF OnWay
  <2>4. ~Answering(answers[i].to)'
    BY <1>2, <2>1 DEF Answering
  <2> QED
    BY <1>1, <1>2, <2>1, <2>2, <2>3, <2>4
<1>14. RepliesOnce(fromPage') /\ \A i, j \in DOMAIN answers' : answers'[i].to = answers'[j].to => i = j
  BY <1>2 DEF Numbered
<1> QED
  BY <1>8, <1>9, <1>10, <1>12, <1>13, <1>14 DEF Numbered

(* No request of the server is under way twice, and none is answered       *)
(* before it is read or twice.                                             *)
LEMMA NumberedNext ==
    ASSUME Admissible, PageTyped, Alone, Numbered, [PageNext]_pageVars
    PROVE  Numbered'
<1>1. ASSUME NEW s \in Sockets, OnOpen(s) \/ OnClose(s) \/ OnResponse(s) \/ OnRequest(s) \/ Serve(s) \/ Break(s)
      PROVE  Numbered'
  BY <1>1, ClientNumbered, RequestNumbered, ServeNumbered
<1>2. ASSUME NEW s \in Sockets, NEW m \in {"succeeds", "fails", "promises", "unknown"}, Ask(s, m)
      PROVE  Numbered'
  BY <1>2, AskNumbered DEF Methods
<1>3. ASSUME NEW retry \in BOOLEAN, Resolve(retry)
      PROVE  Numbered'
  BY <1>3, ClientNumbered
<1>4. ASSUME NEW n \in promised, PromiseResolves(n)
      PROVE  Numbered'
  BY <1>4, PromisedNumbered
<1>5. ASSUME NEW c \in PageCalls, CallMethod(c)
      PROVE  Numbered'
  BY <1>5, ClientNumbered
<1>6. CASE Connect \/ Close \/ UNCHANGED pageVars
  BY <1>6, ClientNumbered
<1> QED
  BY <1>1, <1>2, <1>3, <1>4, <1>5, <1>6 DEF PageNext, Browser

-----------------------------------------------------------------------------
(* Calls that wait, and all together *)

(* A call is in the table until it is settled.                             *)
Waits == Pending \subseteq idtable

LEMMA CleanupWaits ==
    ASSUME PageTyped, Waits, NEW keeprq \in BOOLEAN, Cleanup(keeprq)
    PROVE  Waits'
BY DEF PageTyped, Waits, Pending, Cleanup, Rejected

LEMMA WaitsNext ==
    ASSUME Admissible, PageTyped, Waits, [PageNext]_pageVars
    PROVE  Waits'
<1>1. ASSUME UNCHANGED <<idtable, fate>>
      PROVE  Waits'
  BY <1>1 DEF Waits, Pending
<1>2. ASSUME NEW s \in Sockets, OnResponse(s)
      PROVE  Waits'
  <2> PICK c : c = Head(toPage[s])
    OBVIOUS
  <2>1. c \in PageCalls /\ c # "pending" /\ idtable' = idtable \ {c}
        /\ fate' = IF c \in idtable /\ fate[c] = "pending" THEN [fate EXCEPT ![c] = c] ELSE fate
    BY <1>2 DEF OnResponse, Admissible
  <2> QED
    BY <2>1 DEF Waits, Pending, PageTyped
<1>3. ASSUME NEW c \in PageCalls, CallMethod(c)
      PROVE  Waits'
  <2>1. idtable' = idtable \cup {c} /\ \A d \in PageCalls : d # c => fate'[d] = fate[d]
    BY <1>3 DEF CallMethod, PageTyped
  <2> QED
    BY <2>1 DEF Waits, Pending
<1>4. ASSUME NEW s \in Sockets, OnClose(s)
      PROVE  Waits'
  BY <1>1, <1>4, CleanupWaits DEF OnClose
<1>5. ASSUME NEW retry \in BOOLEAN, Resolve(retry)
      PROVE  Waits'
  BY <1>5, CleanupWaits DEF Resolve
<1>6. CASE Close
  BY <1>1, <1>6, CleanupWaits DEF Close
<1>7. CASE Connect \/ UNCHANGED pageVars
  BY <1>1, <1>7 DEF Connect, pageVars, client, calls
<1>8. ASSUME NEW s, OnOpen(s) \/ OnRequest(s) \/ Serve(s) \/ Break(s)
      PROVE  Waits'
  BY <1>1, <1>8 DEF OnOpen, OnRequest, Serve, Break, client, calls
<1>9. ASSUME NEW s, NEW m, Ask(s, m)
      PROVE  Waits'
  BY <1>1, <1>9 DEF Ask, client
<1>10. ASSUME NEW n, PromiseResolves(n)
      PROVE  Waits'
  BY <1>1, <1>10 DEF PromiseResolves, client, calls
<1> QED
  BY <1>2, <1>3, <1>4, <1>5, <1>6, <1>7, <1>8, <1>9, <1>10 DEF PageNext, Browser

PageInv == PageTyped /\ Alone /\ Repeated /\ Numbered /\ Waits

LEMMA PageInvInit == Admissible /\ PageInit => PageInv
<1> SUFFICES ASSUME Admissible, PageInit PROVE PageInv
  OBVIOUS
<1>1. Waits
  BY DEF PageInit, Waits, Pending
<1> QED
  BY <1>1, PageTypedInit, AloneInit, RepeatedInit, NumberedInit DEF PageInv

(* What the run checks follows.                                            *)
LEMMA PageInvConsistent == PageInv => PageConsistent
<1> SUFFICES ASSUME PageInv PROVE PageConsistent
  OBVIOUS
<1>1. PageTyped /\ Alone /\ Repeated /\ Numbered /\ Waits
  BY DEF PageInv
<1>2. PageTypeOK
  BY <1>1 DEF PageTyped, PageTypeOK, Sockets, ReadyStates
<1>3. OneConnection
  <2> SUFFICES ASSUME closes = 0
               PROVE  /\ \A s \in Sockets : Live(s) => s = connection
                      /\ connection # 0 /\ Live(connection) => (opened <=> socket[connection] = "open")
                      /\ dialogs <= 1
    BY DEF OneConnection
  <2>1. \A s \in Sockets : Live(s) => s = connection
    BY <1>1 DEF Alone, Live
  <2>2. dialogs <= 1
    BY <1>1 DEF Alone, PageTyped
  <2> QED
    BY <1>1, <2>1, <2>2 DEF Alone
<1>4. ConsentedRepeats
  BY <1>1 DEF Repeated, ConsentedRepeats
<1>5. Answered
  BY <1>1 DEF Numbered, Answered
<1> QED
  BY <1>1, <1>2, <1>3, <1>4, <1>5 DEF PageConsistent, Waits

LEMMA PageInvNext == Admissible /\ PageInv /\ [PageNext]_pageVars => PageInv'
<1> SUFFICES ASSUME Admissible, PageInv, [PageNext]_pageVars PROVE PageInv'
  OBVIOUS
<1>1. PageTyped /\ Alone /\ Repeated /\ Numbered /\ Waits
  BY DEF PageInv
<1>2. PageTyped' /\ Alone'
  BY <1>1, PageTypedNext, AloneNext
<1>3. Repeated'
  BY <1>1, RepeatedNext
<1>4. Numbered'
  BY <1>1, NumberedNext
<1>5. Waits'
  BY <1>1, WaitsNext
<1> QED
  BY <1>2, <1>3, <1>4, <1>5 DEF PageInv

(* The page keeps one connection, sends a call again only with the user's  *)
(* consent, answers a request of the server at most once and where it was  *)
(* asked, and forgets no call that waits, for any calls of the page, any   *)
(* requests of the server and any losses (wsrpc.js).                       *)
THEOREM PageAlwaysConsistent == PageSpec => []PageConsistent
<1>1. PageInit => PageInv
  BY PageAssumption, PageInvInit
<1>2. PageInv /\ [PageNext]_pageVars => PageInv'
  BY PageAssumption, PageInvNext
<1> QED
  BY <1>1, <1>2, PageInvConsistent, PTL DEF PageSpec

=============================================================================
