------------------------------- MODULE WsPeer -------------------------------
(***************************************************************************)
(* jsonrpc::WSConnection (jsonrpc/wsHandler.cpp): JSON-RPC in both         *)
(* directions over one WebSocket. Threads call the peer and notify it, the *)
(* reader takes what it sends, workers finish requests that were answered  *)
(* later than their handler returned. Frames are written in two pieces     *)
(* (abstractWebSockets.tcc:87), under bufferLock or under no lock at all.  *)
(*                                                                         *)
(* The table of promises is read under bufferLock and written under        *)
(* promisesLock: when the two meet, the lookup finds the entry or not, and *)
(* either entry may be lost. (A crash of the program is left out.)         *)
(*                                                                         *)
(* External: the peer, the dispatcher, the stream (a write may fail), the  *)
(* weak reference through which others hold the connection: whoever has    *)
(* locked it keeps the destructor waiting.                                 *)
(***************************************************************************)
EXTENDS Naturals, Sequences, FiniteSets

CONSTANTS
    Calls,      \* calls of the peer, each made by a thread of its own
    Requests,   \* requests of the peer, each with the worker that may finish it
    Notes,      \* notifications, each sent by a thread of its own
    MaxIn       \* bound: messages of the peer

Reader == "reader"

ASSUME PeerAssumption ==
    /\ Calls \cap {"none", "pending", "failed"} = {} /\ "none" \notin Requests
    /\ Calls \cap Requests = {} /\ (Calls \cup Requests) \cap (Notes \cup {Reader}) = {} /\ Reader \notin Notes
    /\ MaxIn \in Nat

Actors == Calls \cup Requests \cup Notes \cup {Reader}

VARIABLES
    pc,         \* where each actor is, see below
    bufferLock, \* its holders
    id, nextPromiseId,
    waitingPromises,    \* entries: the id, and the call whose promise it is
    received,   \* messages on their way to the reader
    sent,       \* number of messages the peer has sent
    alive,      \* is the connection there?
    outcome,    \* of the future of each call, see RpcCalls
    answers,    \* number of responses written for each request of the peer
    replies,    \* what the reader is about to answer: "none" or a request
    raced       \* calls whose lookup or insertion has met another access

vars == <<pc, bufferLock, id, nextPromiseId, waitingPromises, received, sent, alive,
          outcome, answers, replies, raced>>

(* "lock" waits for bufferLock, at "head" the header of the frame has been *)
(* written and not its payload. "insert" and "inserting" are the end of    *)
(* callAsync, "async" a request whose result is awaited.                   *)
Places == {"idle", "lock", "head", "insert", "inserting", "async", "done"}

Messages == [kind : {"result", "error"}, id : Nat] \cup [kind : {"bare", "binary"}]
            \cup [kind : {"request"}, from : Requests]

TypeOK ==
    /\ pc \in [Actors -> Places]
    /\ bufferLock \subseteq Actors
    /\ id \in [Calls -> Nat] /\ nextPromiseId \in Nat
    /\ waitingPromises \subseteq [id : Nat, call : Calls]
    /\ received \in Seq(Messages) /\ sent \in Nat
    /\ alive \in BOOLEAN
    /\ outcome \in [Calls -> {"none", "pending", "failed"} \cup Calls]
    /\ answers \in [Requests -> Nat]
    /\ replies \in Requests \cup {"none"}
    /\ raced \subseteq Calls

Init ==
    /\ pc = [a \in Actors |-> "idle"]
    /\ bufferLock = {}
    /\ id = [c \in Calls |-> 0] /\ nextPromiseId = 0
    /\ waitingPromises = {}
    /\ received = <<>> /\ sent = 0
    /\ alive = TRUE
    /\ outcome = [c \in Calls |-> "none"]
    /\ answers = [r \in Requests |-> 0]
    /\ replies = "none"
    /\ raced = {}

Goto(a, place) == pc' = [pc EXCEPT ![a] = place]

-----------------------------------------------------------------------------
(* Sending *)

(* callAsync takes an id and serialises the request. Mutant: the increment *)
(* is not atomic, one of two may be lost.                                  *)
CallAsyncStale(c) ==
    /\ pc[c] = "idle" /\ alive
    /\ nextPromiseId' \in {nextPromiseId, nextPromiseId + 1}
    /\ id' = [id EXCEPT ![c] = nextPromiseId + 1]
    /\ outcome' = [outcome EXCEPT ![c] = "pending"]
    /\ Goto(c, "lock")
    /\ UNCHANGED <<bufferLock, waitingPromises, received, sent, alive, answers, replies, raced>>

CallAsync(c) ==
    /\ pc[c] = "idle" /\ alive
    /\ nextPromiseId' = nextPromiseId + 1
    /\ id' = [id EXCEPT ![c] = nextPromiseId + 1]
    /\ outcome' = [outcome EXCEPT ![c] = "pending"]
    /\ Goto(c, "lock")
    /\ UNCHANGED <<bufferLock, waitingPromises, received, sent, alive, answers, replies, raced>>

(* sendResponse, also of callAsync's request: the header of the frame. *)
SendHeader(a) ==
    /\ pc[a] = "lock"
    /\ bufferLock = {} /\ bufferLock' = {a}
    /\ Goto(a, "head")
    /\ UNCHANGED <<id, nextPromiseId, waitingPromises, received, sent, alive, outcome,
                   answers, replies, raced>>

Answering(a) == IF a = Reader THEN {replies} \cap Requests ELSE {a} \cap Requests

(* The payload. Both writes may throw; the caller of callAsync then has no *)
(* future, which counts as a failure. Mutant: the lock is kept then.       *)
SendPayloadLocked(a) ==
    /\ pc[a] = "head"
    /\ replies' = IF a = Reader THEN "none" ELSE replies
    /\ \/ /\ bufferLock' = bufferLock \ {a}
          /\ Goto(a, IF a \in Calls THEN "insert" ELSE IF a = Reader THEN "idle" ELSE "done")
          /\ answers' = [r \in Requests |->
                           IF r \in Answering(a) THEN answers[r] + 1 ELSE answers[r]]
          /\ UNCHANGED outcome
       \/ /\ Goto(a, IF a = Reader THEN "idle" ELSE "done")
          /\ outcome' = [c \in Calls |-> IF c = a THEN "failed" ELSE outcome[c]]
          /\ UNCHANGED <<bufferLock, answers>>
    /\ UNCHANGED <<id, nextPromiseId, waitingPromises, received, sent, alive, raced>>

SendPayload(a) ==
    /\ pc[a] = "head"
    /\ bufferLock' = bufferLock \ {a}
    /\ replies' = IF a = Reader THEN "none" ELSE replies
    /\ \/ /\ Goto(a, IF a \in Calls THEN "insert" ELSE IF a = Reader THEN "idle" ELSE "done")
          /\ answers' = [r \in Requests |->
                           IF r \in Answering(a) THEN answers[r] + 1 ELSE answers[r]]
          /\ UNCHANGED outcome
       \/ /\ Goto(a, IF a = Reader THEN "idle" ELSE "done")
          /\ outcome' = [c \in Calls |-> IF c = a THEN "failed" ELSE outcome[c]]
          /\ UNCHANGED answers
    /\ UNCHANGED <<id, nextPromiseId, waitingPromises, received, sent, alive, raced>>

(* callAsync, the promise: after the request has gone. *)
InsertBegins(c) ==
    /\ pc[c] = "insert"
    /\ \A d \in Calls : pc[d] # "inserting"     \* promisesLock
    /\ Goto(c, "inserting")
    /\ UNCHANGED <<bufferLock, id, nextPromiseId, waitingPromises, received, sent, alive,
                   outcome, answers, replies, raced>>

InsertEnds(c) ==
    /\ pc[c] = "inserting"
    /\ \/ waitingPromises' = waitingPromises \cup {[id |-> id[c], call |-> c]}
       \/ c \in raced /\ UNCHANGED waitingPromises
    /\ Goto(c, "done")
    /\ UNCHANGED <<bufferLock, id, nextPromiseId, received, sent, alive, outcome, answers,
                   replies, raced>>

(* sendNotification: prepare() under bufferLock, then the frame under no lock. *)
Notify(n) ==
    /\ pc[n] = "idle" /\ alive
    /\ bufferLock = {}
    /\ Goto(n, "head")
    /\ UNCHANGED <<bufferLock, id, nextPromiseId, waitingPromises, received, sent, alive,
                   outcome, answers, replies, raced>>

-----------------------------------------------------------------------------
(* The reader: onTextMessage and onBinaryMessage. Whatever arrives while   *)
(* it sends waits.                                                         *)

Incoming(kind) ==
    /\ pc[Reader] = "idle" /\ alive
    /\ received # <<>> /\ Head(received).kind = kind
    /\ received' = Tail(received)

Found(i) == {e \in waitingPromises : e.id = i}
Inserting == {c \in Calls : pc[c] = "inserting"}

Settle(cs, kind) ==
    outcome' = [c \in Calls |->
                  IF c \in cs /\ outcome[c] = "pending"
                  THEN IF kind = "result" THEN c ELSE "failed"
                  ELSE outcome[c]]

(* processResponse finds the promise, erases it and settles it.            *)
Response(kind) ==
    LET i == Head(received).id
    IN  /\ Incoming(kind)
        /\ bufferLock = {} /\ Inserting = {}
        /\ waitingPromises' = waitingPromises \ Found(i)
        /\ Settle({e.call : e \in Found(i)}, kind)
        /\ UNCHANGED <<pc, bufferLock, id, nextPromiseId, sent, alive, answers, replies, raced>>

(* The same while a promise is being inserted: a data race. *)
RacingResponse(kind) ==
    LET i == Head(received).id
        touched == {e.call : e \in Found(i)} \cup Inserting
    IN  /\ Incoming(kind)
        /\ bufferLock = {} /\ Inserting # {}
        /\ raced' = raced \cup touched
        /\ \E found \in SUBSET {c \in touched : id[c] = i}, kept \in SUBSET Found(i) :
             /\ waitingPromises' = (waitingPromises \ Found(i)) \cup kept
             /\ Settle(found, kind)
        /\ UNCHANGED <<pc, bufferLock, id, nextPromiseId, sent, alive, answers, replies>>

(* processRequest: the result is there, or it is awaited by a worker.      *)
(* Mutant: the future is asked for its value and waited for as well.       *)
RequestTwice ==
    LET r == Head(received).from
    IN  /\ Incoming("request")
        /\ replies' = r
        /\ pc' = [pc EXCEPT ![Reader] = "lock", ![r] = "async"]
        /\ UNCHANGED <<bufferLock, id, nextPromiseId, waitingPromises, sent, alive, outcome,
                       answers, raced>>

Request ==
    LET r == Head(received).from
    IN  /\ Incoming("request")
        /\ \/ Goto(r, "async") /\ UNCHANGED replies
           \/ Goto(Reader, "lock") /\ replies' = r
        /\ UNCHANGED <<bufferLock, id, nextPromiseId, waitingPromises, sent, alive, outcome,
                       answers, raced>>

(* A response without "result" is taken for a request, and answered.       *)
BareResponse ==
    /\ Incoming("bare")
    /\ Goto(Reader, "lock")
    /\ UNCHANGED <<bufferLock, id, nextPromiseId, waitingPromises, sent, alive, outcome,
                   answers, replies, raced>>

(* closeConnection, a control frame of the reader. *)
BinaryMessage ==
    /\ Incoming("binary")
    /\ Goto(Reader, "head")
    /\ UNCHANGED <<bufferLock, id, nextPromiseId, waitingPromises, sent, alive, outcome,
                   answers, replies, raced>>

(* sendResponseAsync: through the weak reference.                         *)
ResponseAsync(r) ==
    /\ pc[r] = "async"
    /\ Goto(r, IF alive THEN "lock" ELSE "done")
    /\ UNCHANGED <<bufferLock, id, nextPromiseId, waitingPromises, received, sent, alive,
                   outcome, answers, replies, raced>>

(* The destructor, when the stream has ended: myPeer.setNull() waits for   *)
(* those who use the connection. The table goes with the object.           *)
Users == {a \in Actors : pc[a] \in {"lock", "head", "insert", "inserting"}}

Destroy ==
    /\ alive /\ Users = {}
    /\ alive' = FALSE
    /\ received' = <<>> /\ waitingPromises' = {}
    /\ UNCHANGED <<pc, bufferLock, id, nextPromiseId, sent, outcome, answers, replies, raced>>

-----------------------------------------------------------------------------
(* The peer answers calls it has seen, in any order, twice even, with or   *)
(* without "result", and sends requests and binary messages.               *)
Seen == {c \in Calls : pc[c] \in {"insert", "inserting", "done"}}

PeerSends ==
    /\ alive /\ sent < MaxIn
    /\ sent' = sent + 1
    /\ \E m \in [kind : {"result", "error"}, id : {id[c] : c \in Seen}]
                \cup [kind : {"bare", "binary"}]
                \cup [kind : {"request"}, from : {r \in Requests : pc[r] = "idle"
                         /\ replies # r /\ answers[r] = 0
                         /\ \A i \in DOMAIN received : received[i] # [kind |-> "request", from |-> r]}] :
         received' = Append(received, m)
    /\ UNCHANGED <<pc, bufferLock, id, nextPromiseId, waitingPromises, alive, outcome,
                   answers, replies, raced>>

Reads ==
    \/ \E kind \in {"result", "error"} : Response(kind) \/ RacingResponse(kind)
    \/ Request \/ BareResponse \/ BinaryMessage

Sends(a) == SendHeader(a) \/ SendPayload(a)

Next ==
    \/ \E c \in Calls : CallAsync(c) \/ InsertBegins(c) \/ InsertEnds(c)
    \/ \E a \in Actors : Sends(a)
    \/ \E n \in Notes : Notify(n)
    \/ \E r \in Requests : ResponseAsync(r)
    \/ Reads \/ Destroy \/ PeerSends

Spec == Init /\ [][Next]_vars

(* Threads run, a write ends (the stream has a timeout), and nobody is     *)
(* overtaken forever at a lock.                                            *)
Fairness ==
    /\ SF_vars(Reads)
    /\ \A a \in Actors : SF_vars(SendHeader(a)) /\ WF_vars(SendPayload(a))
    /\ \A c \in Calls : SF_vars(InsertBegins(c)) /\ WF_vars(InsertEnds(c))

FairSpec == Spec /\ Fairness

-----------------------------------------------------------------------------
(* A call is settled once, by the response to this call or by a failure,   *)
(* also when responses come in any order, twice, or race with the table.   *)
Abstract == INSTANCE RpcCalls WITH Calls <- Calls, outcome <- outcome
EachCallOnce == Abstract!Spec

(* A request of the peer gets one response at most, from the reader or     *)
(* from a worker; a frame is interleaved with another only if one of the   *)
(* two is written without bufferLock (notifications, control frames).      *)
Unlocked == {a \in Actors : pc[a] = "head"} \ bufferLock

OneResponse ==
    /\ \A r \in Requests : answers[r] <= 1
    /\ Unlocked \subseteq Notes \cup {Reader}

(* Nobody writes to a connection that has been destroyed.                  *)
NothingAfterEnd == ~alive => Users = {}

(* Types, responses and the end of a connection together.                  *)
Consistent == TypeOK /\ OneResponse /\ NothingAfterEnd

(* An answer that comes when the promise is in the table settles the call, *)
(* unless the connection ends before, or the lookup has met an insertion.  *)
Answered(c) == \E i \in DOMAIN received :
    received[i].kind \in {"result", "error"} /\ received[i].id = id[c]
    /\ [id |-> id[c], call |-> c] \in waitingPromises

AnswerSettles ==
    \A c \in Calls : Answered(c) ~> outcome[c] # "pending" \/ ~alive \/ c \in raced
=============================================================================
