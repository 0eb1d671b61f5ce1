# TLA+ models of jsonrpcserver

The repository is a C++ HTTP server with JSON-RPC over HTTP and over WebSockets, the
clients for both, and the scripts that web pages use. It is built on the LightSpeed library,
whose source is not in the tree: its TCP server, buffered network stream, locks, promises
and JSON objects are external here and are modelled by what the code that uses them relies on.

All line numbers below refer to files of the repository. PROJECT.json lists the components, the
hazards each property answers, the lines that every definition models, and for each property a
plausible bug (*Mutant* in the modules) that breaks it.

## 1. The system

| Component | State | Operations | Hard behaviour | What makes it correct |
|---|---|---|---|---|
| Busy thread control (`httpserver/busyThreadsControl.*`, used by `ConnHandler`, `SectionIO`) | a semaphore; a nesting counter per connection | `lock`, `unlock`, with and without a status | threads, foreign writers, nested sections, network waits inside sections | no permit lost or invented; the limit on busy threads; every event is handled |
| HTTP connection (`HttpReqImpl.*`) | parser position, rest of the body, chunking, 100-continue, keep-alive, header and output flags | `onData`, `readHeader`, `read`, `canRead`, `write`, `sendHeaders`, `errorPage`, `finish`, `closeOutput` | pipelining, early returns, exceptions, timeouts, protocol switch | one response per request, in order; parser aligned with the client; framing honoured; nobody waits for ever |
| TCP callbacks (`ConnHandler.*`, `httpServer.*`) | the connection context, its owner, the control object | `onDataReady`, `onTimeout`, `onUserWakeup`, `wait`, `callHandler` | wake-ups from other threads; handlers under a lock | buffered input is processed; idle means flushed |
| Path and host mapping (`pathMapper.*`, `hostMapper.*`) | maps from path to handler, from host to path | add, remove, search, absolute address | editing while in use; path arithmetic | longest match; the absolute address leads back |
| Job scheduler (`JobSchedulerImpl.*`) | queue of actions, worker thread | `schedule`, `cancel`, `cancelLoop` | an action that schedules itself against its cancellation | nothing runs after a cancel; the cancel ends |
| WebSocket framing (`abstractWebSockets.*`, `webSockets.*`) | frame buffer, fragment state, close state | `onRawDataIncome`, `sendFrame`, `closeConnection` | several frames in one read, fragments, several senders | frames arrive whole, in order, once, with their type |
| WebSocket JSON-RPC peers (`jsonrpc/wsHandler.*`; older: `jsonRpcWebsockets.*`) | waiting promises, locks | calls, responses, notifications, close | caller threads against the reader; locks against busy permits | every call is settled once; nobody is blocked |
| Collector (`wscollector.*`) | set of connections under one lock | sign in, sign off, `forEach` | callbacks under the lock, plain pointers | no self-blocking, no dead member |
| HTTP JSON-RPC handler, dispatcher (`httpHandler.*`, `dispatch.*`, `methodreg.tcc`) | context per request, maps of methods and exception handlers | `onPOST`, `onData`, `callMethod`, `dispatchException` | results later than the handler returns; parse errors; the order of prototypes | exactly one response per request |
| Old JSON-RPC server (`jsonRpc.cpp`) | methods, context of a request | `onPOST`, `executeMethod`, `Server.multicall` | nested multicalls sharing one context; exceptions in the middle | replies and contexts end up where they belong |
| Batching HTTP client (`jsonrpc/client.*`) | collected list, batch counter, two locks | `callAsync`, `beginBatch`, `closeBatch`, `runBatch` | batches of several threads, callbacks that call again, failures in the middle | every call settled once by its own response; nothing stranded |
| WebSocket client (`clientWS.*`, `httpclient/webSocketsClient.*`) | waiting results, queue, scheduled reconnect | calls, loss, reconnect, disconnect | reconnect against disconnect | a call is settled or rejected; a lost connection comes back |
| HTTP client (`httpClient.*`, `httpStream.*`) | the kept connection, its flags, 100-continue | open, send, read, close, retries | retry on a reused connection; 417; framing of bodies | no response mixed up, nothing executed twice unknown |
| Page scripts (`resources/rpc.js`, `wsrpc.js`) | queued calls, id table | multicall, reconnect, resend | results by position; events of an old connection | each promise gets its own result |
| Statistics, live log (`statBuffer.h`, `stats.cpp`, `livelog.cpp`) | a ring of seconds; filters | add, read, dump; parse, filter | silence longer than the ring; the dump that schedules itself | recent seconds only; a filter means what it says |
| REST adapter, database helpers (`RPC2Rest.cpp`, `db.cpp`) | - | find a method, bind arguments; rows to JSON, orders | keys that cover each other; columns left out | the nearest method; every column under its name |
| Main program, web site (`serverMain.cpp`, `simpleWebSite.cpp`) | - | start, stop; a file for a path | the order of start and stop against requests | nothing used after it is gone; no path out of the folder |

How they interact: the TCP server calls `ConnHandler`, one thread per connection at a time; `processEvent`
takes a busy permit, then calls `HttpReqImpl::onData` until no input is buffered. `onData` parses
the header, asks the path mapper for a handler, under the lock of the maps, and calls it; what the handler returns
(`stContinue`, `stSleep`, `stWaitForWrite`, a status) decides what happens next. JSON-RPC and WebSocket
handlers are such handlers; other threads reach a connection by `wakeUp` or by writing to its
stream. Clients are separate programs on the other side of the same protocols.

## 2. The modules

| Module | Models | Role |
|---|---|---|
| `BusyThreads` | `busyThreadsControl.cpp`, `ConnHandler::processEvent` and `wait`, `SectionIO` | component |
| `HttpConn` | `HttpReqImpl.cpp` and the loop of `ConnHandler` | component |
| `Sites` | `ConnHandler::callHandler`, forwards, links, edits of `PathMapper` and `HostMapper` | component |
| `Jobs` | `JobSchedulerImpl`, the dump of `stats.cpp` | component |
| `HttpServer` | `HttpServer`, `serverMain.cpp` | composes `Sites` and `Jobs` |
| `RpcCalls` | the promise of a client to its callers | abstract specification |
| `BatchClient` | `jsonrpc/client.cpp` | implements `RpcCalls` |
| `MessageChannel` | the promise of a WebSocket connection to its user | abstract specification |
| `WsFrames` | the receiving side of `abstractWebSockets.tcc`, `webSockets.cpp` | implements `MessageChannel` |
| `WsPeer` | `jsonrpc/wsHandler.cpp` | implements `RpcCalls` |
| `WsRpc` | `jsonRpcWebsockets.cpp`, `wscollector.tcc` | implements `BusyThreads` |
| `Dispatch` | `dispatch.cpp`, `methodreg.tcc` | implements `RpcCalls` |
| `RpcHttp` | `httpHandler.cpp` | composes `Dispatch` with a connection |
| `HttpClient` | `httpClient.cpp`, the parser of `httpStream.cpp` | component |
| `WsClient` | `clientWS.cpp`, `webSocketsClient.cpp` | implements `RpcCalls` |
| `JsonRpc` | `jsonRpc.cpp` | component |
| `RpcPage` | `resources/rpc.js` | composes the page with `JsonRpc`, implements `RpcCalls` |
| `WsPage` | `resources/wsrpc.js` | component |
| `Prototypes` | the orders of `CmpMethodPrototype`, old and new | functions |
| `RequestBody` | the body writer of `httpStream.cpp` | functions |
| `HelpPages` | the pages of a GET in `httpHandler.cpp`, the lists and the help of `jsonRpc.cpp` | functions |
| `Tunnels` | the ways of `httpClient.cpp` to a site by a proxy, `simpleHttpsProvider.cpp` | functions |
| `Sha1` | `sha1.cpp`, the answer to a handshake in `webSockets.cpp` | functions |
| `Urls` | `pathMapper.cpp`, `hostMapper.cpp`, `getRealAddr`, `queryParser.cpp` | functions |
| `StaticPages` | `simpleWebSite.cpp`, `getStatusMessage` | functions |
| `StatBuffer`, `LiveLog` | `statBuffer.h`, `livelog.cpp` | functions |
| `RestMap`, `DbRows` | `RPC2Rest.cpp`, `db.cpp` | functions |
| `HttpServer_proofs` (with those about `BusyThreads`), `BatchClient_proofs`, `WsPeer_proofs` (with those about `WsFrames`), `WsRpc_proofs` (with those about `RpcPage` and `JsonRpc`), `RpcHttp_proofs`, `WsClient_proofs` (with those about `WsPage`), `HttpConn_proofs`, `HttpClient_proofs` | | theorems |
| `MC...` | | instances for TLC, where a run needs more than its `.cfg` |

In a module a comment that begins with *Mutant* stands above a definition that is a plausible
bug of the code (a dropped guard, a missing reset). No specification uses these;
PROJECT.json pairs each with a property, and that property fails when the mutant takes the
place of the definition it varies.

### BusyThreads

`pc[t]` says where a thread is, `depth[t]` is `LockStatus::counter`
of the connection it works on, `permits` the count of the semaphore. One action per call that can
block or that changes the count: `EnterBusy` and `Leave` are the `Synchronized` object of `processEvent`, `BeginIO` and
`EndIO`/`Relock` the two halves of `SectionIO`, `BeginWait`/`EndPoll`/`EndWait` the `SyncReleased` of
`ConnHandler::wait`. *Outsiders* are threads that write to a connection without handling an event
of it; they pass through `wait` too, because the wait handler belongs to the stream.

### HttpConn

Input and output are sequences of tokens: a request line, the rest of a header, body units, chunk
headers, the last chunk; on the other side the 100 status, a response header with the framing it
announces, data, the last chunk. `h` holds the fields of `HttpReqImpl` that decide anything, under short names
(`sent` is `bHeaderSent`, `remain` is `remainPostData`, and so on, see `Fields`); the constructor leaves
some of them uninitialised, so `Init` leaves them open. `pc` tells where the connection's thread is: parked with a command,
in the loop of `processEvent`, in `readHeader`, in the handler, inside `read` or `canRead`, or in
the draining loop of `finishChunk`. Those are the places where the thread can meet an empty buffer,
hence the boundaries of the actions. The client is well-formed: it sends requests of the given
kinds, holds back a body it has announced with `Expect: 100-continue` until it sees that status, and may close
its side at any moment. The handler is nondeterministic: any order of the API calls and return codes in `Moves`, at most
`MaxOps` per request. What a failed handler left is noted in `threw`, so that `OutputFramed` can say whether the client sees the failure.

### Sites, Jobs and HttpServer

`Sites` is the search for a handler: the host is mapped, then the handlers of the path are called from the longest
key down until one takes the request, all under the read lock that `callHandler` takes (`ConnHandler.cpp:135`). `frames[t]` is the
stack of searches a thread is in, since a handler may forward; `held[t]` how often it holds the lock. A writer that waits holds back
new readers, also those that hold the lock already: that is the worst a lock of this kind may do, and LightSpeed's source is not there to tell.
`Jobs` has one thread for all jobs; `cancel()` waits until this thread carries it out between two jobs. The dump of the statistics schedules
itself and may run before the number of its job is noted (`stats.cpp:129`). `HttpServer` puts them together under the main program's start and end.
`Urls`, `StatBuffer`, `LiveLog`, `StaticPages` and `Sha1` are calculations; `MCHttpServer` compares each with what it should be on small inputs, the digest on published
examples and on cuts of a message into pieces (`Computed`). `Consistent` says of `HttpServer` that the nearest handler is called, data goes to the one that took the request, a site stays where it was added (`registered` remembers what was), the dump stops and nobody is used after its end.

### BatchClient and RpcCalls

Locks are sets of holders. A critical section of `batchAccess` in which the thread cannot block is one
step; the lock is held over two steps only where the code reads a response from the network
under it (`client.cpp:127-130`). `runBatch` is a loop over places `take`, `send`, `parse`,
`parsing`, `settle` and the rejecting loops; between a settlement and the next iteration the thread is in `callback`, where callbacks may call
the client again when `Reentrant` is set. The server may answer the requests in any order, answer one
twice, answer with an unknown id, with another status, or fail at any point.
`RpcCalls` is the abstract specification: each call is made once and settled at most once, by its own
response or by a failure. Five modules implement it.

### WsFrames and MessageChannel

The peer's frames are a log, `done` counts those that `onRawDataIncome` has processed, `read` those that are whole in
the buffer `frame`, and `partial` says that the next has come in part; the rest of the log is on its way or in
the stream's own buffer. A `Read` moves any amount, so a frame may come in pieces and several may come at once. One action stands for each
case of the switch on the opcode; each includes the removal of the frame (`FrameCommit`), the callback, which may
close the connection or throw, and the return to the loop of `processEvent`. Another thread's `closeConnection` is two steps, the flag and the frame. The peer obeys the rules of fragmentation
but may use an unknown opcode or hang up at any time. `MessageChannel` is the abstract
specification: what is delivered is what was sent, message by message; the payload of a message is the list of its frames.

### WsPeer

`wsHandler.cpp`: calling threads, notifying threads, the reader, and workers that finish a request of the peer later. A frame is written in two steps
(`SendHeader`, `SendPayload`), under `bufferLock` or under no lock as the code has it. A caller sends and then inserts its promise
(`InsertBegins`, `InsertEnds`); the reader looks promises up under the other lock. When the two meet, `raced` notes it and either
outcome of the lookup and of the insertion is possible. The peer answers in any order, repeats itself, errs in the id.

### WsRpc

The older peer and the collector. Three kinds of locks: of each connection (recursive), of the collector, and the busy permits. `KnownDeadlocks` finds every set of threads that
wait for each other only and says which kinds there are; `ClosedLeaves` says that a closed member is about to be removed, `NoDeadUse` that nobody comes to a destroyed connection but where `OvertakenDrop` names it. `PermitsUsedRightly` is the refinement of `BusyThreads`, so what is
proved of that module holds of this one.

### Dispatch and RpcHttp

`Dispatch` follows a request through `callMethod`: its prototype, its name, the method, which answers, throws or answers later, and the handlers of exceptions,
which are asked under the read lock (`dispatch.cpp:345`). `RpcHttp` is one POST whose body holds requests one after another; the connection sleeps while a
result is awaited and is woken by the thread that has it, also when it has not gone to sleep yet. `Prototypes` compares the two sorted maps' orders: a registered
prototype must be found where the documentation in `methodreg.h` says so; the letter `d` and a `*` in the middle are exceptions with a name. `HelpPages` is what a GET or a help method tells about the methods; `MCRpcHttp` runs it.

### HttpClient and RequestBody

One client with at most one connection, servers that answer in every framing, close, lose connections, ignore or refuse an Expect. The user opens requests, sends them in one of the ways the class has
and reads the response. `pc` says which wait of the client is under way; `served` counts how often a server has got the whole of a request.
A user is `Careful` who takes every response before the next `open()` and calls `close()` after a failure; the run has one, and `RepeatedAlways` (section 4) holds for any user. For a careless one `send()` finishes the request that is left
over, outside of its own handlers of exceptions (`Send`, operations `finish` and `flush`).
`RequestBody` is the writer of a body as operations on a record; `MCHttpClient` runs all short sequences of them. `Tunnels` says which peer a request goes to, and whether by TLS, when a proxy
is asked for a URL or told to `CONNECT`; `MCHttpClient` tries all sequences of up to three requests.

### WsClient

Threads: callers, the reader (in an executor or in the listener's thread), the scheduler's worker, a closer that calls `disconnect()`. What the code does without its lock
is cut into the steps that others can come between: the reader's search of the table (`Response`, `Find`) and its removal (`Take`), while a caller is at `Insert` or a loss at `Fail` (`Searching`, `Clearing`);
a writer's look at `stream` (`SendTextMessage`) and its use (`Write`), while the reader gives the stream up. Where an unguarded access meets a change the outcome is open (`Unguarded`): the program crashes, or goes on with either outcome.
A program that uses what is gone has crashed (`crash`) and stops; `KnownCrashes` names the ways. An attempt to connect fails (`ConnectFails`, another is scheduled) or the server refuses the handshake
(`ConnectRefused`, none is). `NoCallForgotten` follows each open call through queue, network and table.

### JsonRpc, RpcPage and WsPage

`JsonRpc` executes the requests of a POST one after another; `stack` holds the multicalls in progress, `nodes` the context objects that they share. Methods are named for what they do.
`RpcPage` is `rpc.js` on top of it: calls are collected while a request is under way and dealt out by position. Others post bodies of their own.
`WsPage` is `wsrpc.js`: WebSockets are numbered, and handlers serve the client whatever connection it has by now. The server numbers its requests, so that an answer names the one it is for; the order in which
`for (... in ...)` sends calls again is any (`Orders`).
`RestMap` and `DbRows` are calculations, checked by `MCRpcHttp` (`MethodsServed`).

## 3. The runs

Each run answers one question; TLC explores the whole state space of the instance without an error.

| Run | Question | Instance |
|---|---|---|
| `busy_threads` | Do permits stay accounted for, and is every event handled? | 2 handler threads, 1 outsider, 1 permit, sections nested twice, waits inside sections |
| `http_conn` | Do pipelined requests stay aligned, ordered, framed as announced, free of 100-continue deadlocks, and is each answered? | 2 requests of 7 kinds, 3 handler steps each |
| `batch_calls` | Is every call settled once, by its own response? | 2 threads, 3 calls, callbacks that call |
| `ws_frames` | Are messages delivered whole, in order, once, and is a close orderly? | 4 frames of 7 kinds, closes by others |
| `ws_peer` | Is a call settled by its own answer, and does a request get one response? | 2 calls, 1 request, 1 notification, 2 messages of the peer |
| `ws_rpc` | Who blocks whom, and who uses a connection that is gone? | 2 connections, 1 broadcasting thread, 1 permit |
| `rpc_http` | Is each request of a POST answered once, in order, whoever has the result? | 2 requests, 2 exception handlers, 1 thread that registers, 1 piece that does not parse; all prototypes of up to 3 letters, small maps of REST keys, rows and orders |
| `http_client` | Are responses kept apart, requests repeated rightly, connections fit? | 2 sites, plain and TLS, 2 requests, 1 lost connection; all short bodies |
| `ws_client` | Is a call forgotten, does a lost connection come back, does `disconnect()` end (`NeverStuck`)? | 2 calls, 3 connections, 1 incident: a failed attempt, a refused handshake or a request of the peer |
| `json_rpc` | Do replies, contexts and results end up where they belong? | 3 calls, 9 bodies of others, 1 fault or change of methods |
| `ws_page` | Is a call repeated only with consent, and none forgotten? | 2 calls, 4 sockets, 2 faults, 2 `connect()`, 1 `close()`, 1 request of the server |
| `server` | Who handles a request, who waits for whom, what outlives its owner? | 2 connections, 2 requests, a job that edits the map, 1 dump, start to end; all small paths, queries, filters, records |

What holds with an exception names it. `Answered` (HttpConn) excepts `FinishSpins`, `NoContinueDeadlock` a handler that asks
`canRead()` (`pc = "probing"`), `OutputFramed` what a HEAD gets although it should have no body (the last chunk; the page that refuses its version); `EveryDelivered` (WsFrames) excepts `LeftBehind`, `AnswerSettles` (WsPeer) `raced`,
`KnownDeadlocks`, `KnownCrashes`, `GaveUp`, `Deadlocked`, `Blocked`, `StaleErrorsKnown` and `shifted` are such names as well.
Each names a behaviour of the code that a reader would not expect, and the property shows there is no other.

Where the code contradicts its own documentation or comments, or is plainly wrong, the property states what is documented and its exception is a definition of its own, under a comment that begins
*Known defect* and cites the lines: `TruncationHidden`, `FinishSpins` (HttpConn); `KeptBetween`, `PutOut` (Sites); `StatsDestroyedInMap` (HttpServer); `OvertakenDrop` (WsRpc); `LetterDLost`, `StarMisread` (Prototypes);
`VeryPathLost`, `Shadowed`, `VeryPathPassed`, `MovedUp` (RestMap); `BinaryAsJson`, `HeaderOfSkipped`, `CommaLeft` (DbRows); `Tripled`, `NotEscaped`, `HelpOutlives` (HelpPages); `ForcedRepeated`, `ExpectKept`, `StaleTls` (HttpClient);
`BodyDropped`, `EmptyChunkEnds` (RequestBody); `RefusalOverlooked`, `TlsForgotten` (Tunnels); `SilenceSince` (StatBuffer); `GroupRefused` (LiveLog); `EmptyPassedOn` (StaticPages);
`SlashInverted`, `PartOfListed`, `ReadForEver` (MCHttpServer). None is idle: without it the property fails, and TLC shows the behaviour. Thus a run that passes does not say that the code is right there, but that it is
wrong in no other way. PROJECT.json lists them as findings; section 6 tells of them.

### Bounds

`busy_threads`: one permit and two handlers already contend for it, the outsider brings the permits above
the limit, and nesting twice separates the outermost section from an inner one. `http_conn`: every property relates a request to itself or to the
next one, and `clear()` brings `h` back to one of a few states between requests; a body has two units, so that reading none, part and all of it differ; `MaxOps = 3` allows
a header, a read or a write, and a return. `EofReads` gives both outcomes of a read at the
end of the input, since the library's source is not there to tell. `batch_calls`: two threads give overlapping batches and a waiter at each lock;
the third call is the one that a callback makes while two are under way.
`ws_frames`: four frames make two fragmented messages, or one with control frames between its fragments and a close behind it.
`ws_peer`: two calls race with each other and with the reader; `MaxIn = 2` lets an answer come twice or the answers come in the wrong order. `ws_rpc`: two connections and a thread outside
make every pair of locks meet; a third connection adds no new kind of wait. `rpc_http`: a second handler is asked when the first has passed, two changes let a registration be undone.
`http_client`: the second request is the one that meets what the first has left, on the same site or another. `ws_client`: the third connection is the one after a reconnect that was lost before its queue was flushed; one incident is enough for a wait between losses that ends, or does not.
`json_rpc`: a third call is one that is behind a null result in the same multicall. `ws_page`: four sockets are a first, two lost ones and one more of the page's own. `server`: a request served and one that waits for the lock; one dump is the one that schedules another.
The bounds are constants: `MaxDepth`, `NReq`, `MaxOps`, `MaxFrames`, `Calls` and `Script` (each call is made once), `MaxIn`, `Changes`, `Garbage`, `MaxRequests`, `MaxFaults`, `MaxConnections`, `MaxIncidents`, `MaxSockets`, `MaxConnects`, `MaxCloses`, `MaxAsked`,
`MaxEvents`, `MaxDumps`.

`CHECK_DEADLOCK FALSE` is set everywhere but in `busy_threads`: connections end, bounded calls run out, programs stop, and threads that block each other are the subject of properties of their own.

In `http_conn` two moves are left out of `Moves`, and its result is to be read with that restriction: with `"connclose"` (a handler sets
`Connection: close` itself) the connection goes on, since `sendHeaders` passes the field on and leaves `closeConn`
alone; with `"cont"` (a handler sends the 100 status by `status(100)`) the body is refused, as for any other code.

### Fairness

- `BusyThreads`: strong fairness of taking the semaphore (a waiting thread is not overtaken for ever; the library's
  lock is external, so this is an assumption), weak fairness of the end of a poll (waits have timeouts), strong fairness of leaving sections and
  of returning: handlers end.
- `HttpConn`: weak fairness of the server's steps, and of the timeouts. At the end of the input a read throws or returns 0, and neither is preferred: fairness is that of both together, so a loop that goes
  on for ever with reads of 0 is a behaviour the run has to excuse (`FinishSpins`). A
  request that sleeps is woken: `httprequest.h` makes that the handler's duty. Nothing is assumed of the client.
- `BatchClient`: strong fairness at the locks, weak fairness of processing (network operations have
  timeouts). Whoever opens a batch closes it, and there is infinitely often a moment at which the batch being closed is the
  last one open. The second assumption is one on the callers and is needed: if batches of two threads
  overlap for ever, `client.cpp:72` never reaches the branch that sends.
- `WsFrames`: weak fairness of the connection's thread. Nothing is assumed of the peer or of the thread that closes.
- `WsPeer`: strong fairness at the locks, weak fairness of the end of a write, which has a timeout. Nothing of the peer.
- `Dispatch`, `RpcHttp`: strong fairness at the lock, weak fairness of methods (they return, their futures are resolved) and of the connection's thread.
- `HttpClient`: weak fairness of the client: each wait ends, by its timer at the latest. Nothing of servers or of the user.
- `WsClient`: weak fairness of the client's, the listener's and the scheduler's threads while the program has not crashed. Nothing of the peer, or of who connects or disconnects.
- `RpcPage`: weak fairness of the server and of the browser. `WsPage`: of the browser's events and the user's answers.
- `HttpServer`: weak fairness of the main program, of the end of a job and of the connections' threads; no request need come and no job's time.
- `WsRpc` has safety properties only: deadlocks are sets of threads, not behaviours.

## 4. The theorems

TLAPS proves the following for every value of the constants that satisfies the module's named assumption: any number of threads, calls, connections,
requests or frames. Each module has `TypeCorrect`, `Spec => []TypeOK`. The assumptions (`BusyAssumption`, `BatchAssumption`, `PeerAssumption`,
`WsRpcAssumption`, `DispatchAssumption` and `BodyAssumption`, `HttpConnAssumption`, `HttpClientAssumption`, `WsClientAssumption`, `WsFramesAssumption`, `PageAssumption`, `MethodsAssumption` and `RpcPageAssumption`, `SitesAssumption`, `JobsAssumption`,
`ServerAssumption`) only say which sets the constants belong to, which bounds are numbers and which sets are disjoint or not empty; TLC evaluates them in the runs. Four modules of proofs are about
a second component as well, which they extend besides the first: its specification, invariants and fairness carry its name (`BusySpec`, `FramesTypeOK`, `PageNext`, `RpcSpec`).

| Theorem | What holds | Argument |
|---|---|---|
| `HttpServer_proofs!PermitsAccounted`, `LimitTypeCorrect`, `LimitAlwaysConsistent`: `BusyThreads` | permits and busy threads add up | `Accounting` needs `SectionsClosed`: what the nesting counter says agrees with the place of the thread, else a return would give back a permit that a section has given back already |
| `HttpServer_proofs!BusyExcessBounded`, `LimitHolds` | by how much the limit is exceeded; when it holds | from `Accounting`: each permit above the limit was lent by a wait that had none |
| `BatchClient_proofs!BatchesCounted`, `RequestsKept`, `AlwaysConsistent` | the counter is the number of open batches; collected requests have a sender | `Counting`, `Collected`, `NoBatchOutside`, with at most one thread in `runBatch` (`OneInside`) |
| `BatchClient_proofs!ImplementsCalls`, `CallsKept` | the client implements `RpcCalls`; no call is lost | `IdsMatch` and `ResponseMatches`: an id is a position in the list being sent; `Made` and `UnsettledAhead`: what is not settled lies ahead of the loop |
| `WsPeer_proofs!EndIsAnnounced`, `LastAfterClose`, `FramesAlwaysConsistent`: `WsFrames` | an orderly end | `EndAnnounced`, the state of the close frame follows the flag |
| `WsPeer_proofs!ImplementsChannel` | the reader implements `MessageChannel` | `FrameWhole`; `History`, with the messages sent so far as the witness of what the log holds (`Follows`) |
| `WsPeer_proofs!ImplementsCalls` | the peer implements `RpcCalls` | `IdsDistinct` and `TableRight`: an id belongs to one call and the table holds only calls whose request is out; `Held`, `ArrivesOnce`: a promise that the reader has found is settled by it alone |
| `WsPeer_proofs!AlwaysConsistent` | one response per request, nothing after the end | `Unanswered`, `ReaderReplies`: a request being answered has no response yet, and one thread answers it |
| `WsRpc_proofs!ImplementsBusy` | connections and broadcasts use the permits as `BusyThreads` does | `Tasks` maps a thread's stack to a place of `BusyThreads`; `BusyMoved`, `StaysBusy` cover the steps that move a thread and those that do not. What section 4 says of `BusyThreads` thus holds for `WsRpc` |
| `WsRpc_proofs!AlwaysConsistent` | a closed member is being removed; nobody comes to a destroyed connection unless its drop by `forEach` was overtaken (`OvertakenDrop`) | `DInv`: `forEach` holds the collector's lock, so what it visits is a member; a member whose close future is resolved is being removed; a destroyed connection's thread does nothing more, so it is a member, or used, only while another thread is on its way to remove it |
| `RpcHttp_proofs!ImplementsCalls` | each request of a POST is answered once | `Open`: a request under way has its outcome open; `Inside`: one with the handlers of exceptions holds the read lock; together with `DispatchInv` |
| `RpcHttp_proofs!AlwaysConsistent` | no late wake-up, and responses in order | `Sleeping`: an observed result, or a wake-up that was kept, belongs to a connection that sleeps or is about to |
| `WsClient_proofs!ImplementsCalls` | the client implements `RpcCalls` across lost connections, although the reader finds and takes a promise in two unguarded steps | `CInv`: table, outcome and place of a call agree (`Entered`, `Calling`, `Unmade`); a promise that the reader has found is in the table or settled already |
| `WsClient_proofs!AlwaysConsistent` | no call forgotten but in the three known ways, no crash but the known ones, and a connection lost is made again unless the handshake was refused | `FInv`: who owns a lock is where it is needed, the order of `disconnect()`, wires cleared with their connection; `Tabled` and `Sought`: a call out of `callAsync` is in the table, and its message is in the queue, on a wire or answered, or the connection is being given up |
| `HttpConn_proofs!InOrderAlways` | responses in the order of the requests, one each; under `Orderly`, that is without the moves `"cont"` and `"connclose"` | `Control`: what the fields are at each place, e.g. nothing is sent before a handler has the request, and a header that is out owes no 100 Continue; `Past`: what those fields say of the output, e.g. without a header sent there is no head of this request, and a head that announced the end belongs to it; `Coming`: the request lines on their way are of later requests, in order |
| `WsRpc_proofs!OnlyKnownDeadlocks` | threads that wait for each other are in one of the circles that `KnownDeadlocks` names; there is no other | `LInv`: who holds a lock is at a place that says so. Outside the three ways nobody in a circle holds a connection's lock, so nobody waits for one; then nobody holds the collector's, so all wait for permits, which nobody of them has |
| `RpcHttp_proofs!InOrderAlways` | replies in the order of the requests, after a page at most | `Due`: what has been written answers exactly the items before the one under way, or that one too |
| `HttpConn_proofs!FramedAlways` | the framing a header announces is the framing of what follows, and a failed handler shows but behind `eof` framing; any handler | `Writer`: the last head of the output is the response being written, the fields know its framing and whether its last chunk is out, and each head before it has a whole body (`Gone` once the connection is removed); `Framing`: what the fields say at each place of a header that has not gone out |
| `HttpConn_proofs!ConsistentAlways` | the server's parser and its client agree where requests begin and bodies end; an idle connection has flushed; under `Orderly` | `Stream`: what is on the wire is what the client has sent of the tokens of its requests (`Arriving`), and what has been read of the one being handled agrees with the rest that the server counts (`Parsing`); `Switch`: a switched connection never comes to another request; `Misread`: only chunks that a handler left unread are taken for a request |
| `HttpConn_proofs!NoDeadlockAlways` | the server does not wait for a body that the client holds back until it sees 100 Continue; any handler, no `Orderly` | `Informed`: a handler that owes no 100 Continue any more has it, or the response, in the output, and so has every request that ended; `Flushed`: who waits for an event of the input has written out its buffer; `Behind`: a header that is awaited has not been sent in full, so its client is not yet at its body |
| `HttpClient_proofs!RepeatedAlways` | a request reaches a server at most once on a kept connection and once on a fresh one; only who asked for 100-continue gets an Expect or is repeated for 417, but for two defects; any user, any faults | `Attempts`: which attempts a request can already have had at each place, e.g. none on a fresh connection while a second one may still be made; `Control`: which call is where, hence what may be caught; `Objects`: whose request is under way |
| `HttpClient_proofs!FitsAlways` | the connection a request is awaited on is to its site; under `Careful` | `Fits`: the kept connection is to `currentDomain`, a skip is one for the same site and mode, and the end of chunks that is left unread comes from a chunked response |
| `HttpClient_proofs!OwnAlways` | a response returned is the one to the request opened last (`OwnResponse`); under `Careful` | `Own`: what is on the connection belongs to the request under way, at most one final head and then only pieces of a body, and no head without a request or once one has been parsed; `WorldEffect`, `ReadEffect` say what each side does to a stream |
| `HttpClient_proofs!AlwaysConsistent` | the last two together: what the run checks of a careful user | from them |
| `HttpServer_proofs!NearestAlways`, `TakerAlways` | a request is offered to the handlers of its path from the longest key down, and its data goes to the one that took it in the end, but for a request forwarded twice (`KeptBetween`), for any map and any behaviour of the handlers | `Locks`: a thread holds the lock as often as it has searches under way, so the map a search began with is the one there is (`LookupOf`); `FrameRight`: the keys behind a search all passed; `ChainOf`: the place of a thread tells how many searches it is inside and who takes the data. `LeastNumber` gives `nextKey` its longest key |
| `HttpServer_proofs!DumpStopsAlways` | one dump at a time, and none after `stopDumpJob` unless the first ran before its number was noted | `JobsInv`: jobs are numbered in order, and a dump that runs is not queued as well; `DumpNoted`: the number noted is that of the dump that waits |
| `HttpServer_proofs!AlwaysConsistent` | these; a site stays unless another is put in its place; and the only destroyed handler in use is that of the statistics, late in the shutdown | `Dead`: who is alive at each place of the main program; `StayKept`: an edit leaves the other sites alone |
| `WsClient_proofs!PageAlwaysConsistent`: `WsPage` | one connection, repeats with consent only, each request of the server answered at most once and where it was asked, no waiting call forgotten | `Alone`: the connection is the last one made and the others are closed; `Repeated`: a call is on its way once, to the open connection, and executed once more than the user has agreed to repeat; `Numbered`: a request of the server is in one place, on its way, promised, being answered or answered; `Waits`: an open call is in the table |
| `WsRpc_proofs!RpcAlwaysConsistent`: `RpcPage` with `JsonRpc` | each body gets the replies of its requests, in order; the page and the server take the same for the context; the page's list of methods is the server's until they change; a call of the page settles with its own result or error | `RpcInv`: `AnsweredSoFar`, the replies that are ready answer exactly the items before the one under way; `SharedContext`, the multicalls of a request share one context object, which is what the innermost of them that changed it tells, or the request's own if none did, unless one that failed has leaked; what a multicall returns is merged into the one around it; `Served`, how far the server is with the page's request, up to the results and errors its multicall has by now (`Fits`: results are those of the first calls, and each null stands for the next error or is a result itself); `Dealing`, what is dealt out is a part of that. `FitsBy` names the errors by a function, which grows with each call |
| `WsRpc_proofs!PageSettlesOnce` | the page implements `RpcCalls` | `Queued`: a call is in one place, not yet collected, in the queue or in the batch under way, and open as long as it is there; with `Dealing` for the outcome it gets |

The invariants of the runs are not inductive, hence the longer ones. Each was model-checked before it was proved.

Only model-checked: all liveness, and the calculations (`Computed`, `MethodsServed`, `RightContents`), which are compared with reference definitions on all small inputs. Out of the prover's reach: liveness under fairness and
`ENABLED`; induction over data, hence what a recursive definition computes for every input; and modules that declare `RECURSIVE` operators or use `Bitwise`, which are `LiveLog` and `Sha1`.

## 5. Not modelled

- `simpleHttpsProvider.*`: the TLS library it binds to; its result is a stream or an exception, which `HttpClient` has. `Tunnels` has the loops around it.
- `serverMethods.cpp` 211-411: the load-balancing methods. The cyclers pass a member to their base before it is constructed (281-284, 338-341), a request is kept by reference beyond its call (330), and the
  dispatcher is used without a test (292-312): what they do is undefined from the first call.
- The old interface in `server.cpp` 154-282, `restHandler.cpp`, `rpchandler.cpp`: adapters without state of their own.
- The fields of a WebSocket handshake and the masking of frames: formats. `headerValue.cpp`, dates and numbers of `db.cpp`, the syntax of mapping lines, configuration, versions, log texts: wording.
- `HttpReqImpl`: limits on sizes, `peek`, the contexts of requests and connections, header maps, HTTP/1.0 as a client.
- `ConnHandler::releaseOwnership` and `wakeUp` against a connection that dies (372, 382): whether the object is still there is decided by LightSpeed's reference counts, which are not in the tree.
- The build helper: no state.

## 6. Where the code surprises

Met while modelling. Those with a name are states or properties of a module; the others are what a definition has to do to be true to the code. `PROJECT.json` lists under "findings" those that contradict a comment or a header, with the line they contradict.

### Server

- The busy limit is exceeded: a wait inside an I/O section, or of a thread without a permit, releases one it does not hold (`ConnHandler.cpp:73`; `BusyExcessBounded`).
- After a protocol switch a final return spins in `finishChunk` at the end of the input (`HttpReqImpl.cpp:497`; `FinishSpins`), and so does the end of a body shorter than its Content-Length if `blockRead` returns 0 there (496). A handler that fails after its header is out ends the connection like one that is done:
  a response delimited by the end of the connection passes for complete (542; `TruncationHidden`). `canRead()` waits for a body without sending 100 Continue (441). A handler that has sent its header is
  called at the end of the input with event `evEndOfStream`, one that has not is not told (752). A HEAD response gets the last chunk (501), and what is written to it is dropped without the exception of `httprequest.h:67-69`. `Connection: close` set by a handler is not honoured, and `status(100)` refuses the body.
- Data events of a request that was forwarded twice go to the handler in the middle (`HttpReqImpl.cpp:481`; `httprequest.h:425` says the new one; `KeptBetween`). `httprequest.h:428`, no recursion into the current handler, is not enforced.
- Handlers run under the read lock of the maps (`ConnHandler.cpp:135`): `addSite` inside a handler waits for its own thread (116, 141), and so does a nested read lock while a writer waits. Host and handlers are locked separately (249).
- `addSite` on a taken path replaces silently, and `removeSite` never releases (`pathMapper.cpp:22`, `:29`; `httprequest.h:727-731` says otherwise; `PutOut`). A prefix need not end at a path segment (`hostMapper.cpp:74`). The test for a leading slash is inverted (161; `SlashInverted`),
  and `query.empty()` was meant to clear (119). `getRealAddr` does not leave its loop at an empty element (`ConnHandler.cpp:228`; `ReadForEver`), and an address is trusted if it is any part of the text of the trusted ones (`httpServer.cpp:133`; `PartOfListed`). A field behind an empty item of a query is lost.
- The port is open before the host mappings are there (`serverMain.cpp:139`, 147-151), and the statistics' handler is destroyed before it closes (182; `StatsDestroyedInMap`). The dump's job number is assigned after the job may have run (`stats.cpp:129`).
- `StatBuffer` counts seconds before a silence longer than its ring as recent (`statBuffer.h:106`; `SilenceSince`).
- An empty file is written by no write, so its handler counts as having passed on the request: the next handler or 404 answers, with the file's length and tag already set (`simpleWebSite.cpp:84-96`; `EmptyPassedOn`).
- A refused live-log filter is told and not applied, so everything is shown; parentheses are always refused (`livelog.cpp:144` against 217-219; `GroupRefused`); the pieces of a line are dropped separately when the peer is slow (73); a hang-up is noticed only at a text that is filtered out (95).
- The name of `Refresh` is "Referer" (`headerValue.cpp:37`).

### WebSockets

- A second frame read with the first waits in the buffer for more bytes (`abstractWebSockets.tcc:211`; `LeftBehind`).
- An answer may come before its promise is in the table (`wsHandler.cpp:255-261`; `raced`). The future of `onClose()` is never resolved, since its promise is created only if there is one (236).
- `onConnect` releases a lock its thread need not hold (`jsonRpcWebsockets.cpp:236`). `KnownDeadlocks` lists who blocks whom under the collector's lock; a failed member may be used after its end (`wscollector.tcc:72`; `OvertakenDrop`), which `wscollector.h:36` excludes.

### JSON-RPC

- The order of prototypes is none with `d`, `?` or `*`: the tests at `dispatch.cpp:108` and `:120` are always true, so a method with `d` is not found (`LetterDLost`); a `*` that is not the last letter is not looked at once the arguments end, and behind a `?` it repeats that letter (110, 142; `StarMisread`); `o` is documented (`methodreg.h:68`) but objects are `c` (`dispatch.cpp:39`); alternatives with commas (`methodreg.h:74`) do not exist. The older server's order has `d` right.
- `jsonRpc.cpp`: an error of one call ends the whole multicall; a nested one that fails leaves its changes of the context; a notification inside a multicall dereferences a null error (654, 692); text behind the last request drops the replies of all (143-160). The help of a method with a prototype outlives the method (342; `HelpOutlives`), and `addLine` mistakes lines (418; `Tripled`, `NotEscaped`).
- `httpHandler.cpp`: "not modified" is told by the tag of the list sent last, whatever is registered by now (196; `outOfDate`); `prevMethod` is compared (213) and never set, so a name comes once for each prototype.
- `rpc.js`: a call that succeeds with null takes the next error (90), and the context stores null instead of deleting (119 tests the name, not the value).
- `wsrpc.js`: result and error of the page's own methods are exchanged (83-87 with 93-96), a promise's answer lacks its id (81), an unknown method is never answered (78), `me.FAILED` does not exist (125, 267), `removeEventListener` uses a name that does not exist (242); events of an old socket act on the new one.
- `RPC2Rest.cpp`: a longer key that fits the path with the wrong method hides the right one (92-102; `Shadowed`); a path that is exactly a key calls nothing (107; `VeryPathLost`); the order is true for equal keys (232; `VeryPathPassed`); names that are missing let the body or query move up (163-165; `MovedUp`).
- `db.cpp`: `binary` falls through into the case of JSON texts (249; `BinaryAsJson`); a comma is written for an order field that is not allowed (399; `CommaLeft`); the list of columns counts those that are skipped (222; `HeaderOfSkipped`).

### Clients

- A callback of `Client` that calls again with no batch open waits for its own thread (`client.cpp:89`).
- `HttpClient`: the repetition after 417 sends `Expect` again (`ExpectKept`), `psoForce100` behaves as `psoFavour100` (`httpClient.h:71`, `:73`; `ForcedRepeated`); the TLS flag outlives its connection (`httpClient.cpp:466`; `StaleTls`, `TlsForgotten`); `sendNoWait` swallows errors; `proxyConnect` tests the client's status instead of the proxy's (543; `RefusalOverlooked`). The request left over is finished outside the `try` (120-122, 143, 158-160): its exception goes to the caller, not to the repetition.
- `httpStream.cpp`: `canChunked` is read before it is set (42); `throw;` without an exception ends the program (141, 165); with `chunkMinSize` 0 an empty write ends the body (66; `EmptyChunkEnds`); the body of a method other than POST or PUT is dropped (149-150; `BodyDropped`).
- `WsClient`: a call answered between its sending and its entry in the table is forgotten; the table is searched and changed without the lock under which others insert and clear (`clientWS.cpp:154-159` against 132 and 220), and the stream is cleared without the lock of a thread that writes (`webSocketsClient.cpp:33-35` against 132).
  A handshake answered by other than 101 throws what `reconnect()` does not catch, so no attempt follows (`webSocketsClient.cpp:108-109`, `clientWS.cpp:255`; `GaveUp`). A reconnect against a live connection leaves the old one without an owner; `reconnect()` after `disconnect()` uses a null listener (`KnownCrashes`).
