----------------------------- MODULE BatchClient -----------------------------
(***************************************************************************)
(* jsonrpc::Client (jsonrpc/client.cpp): threads share a client that       *)
(* collects JSON-RPC calls and sends them in one HTTP request.             *)
(*                                                                         *)
(* Two locks: batchAccess guards the collected list and the batch counter, *)
(* processingAccess is held by the one thread that sends a batch. A lock   *)
(* is the set of its holders. A critical section of batchAccess in which   *)
(* the thread cannot block is one step; the lock is held across steps only *)
(* where the code reads a response from the network under it.              *)
(*                                                                         *)
(* External: the HTTP client and the server (any response, any failure),   *)
(* and LightSpeed's Promise: the first settlement counts, callbacks run in *)
(* the thread that settles. A thread has at most one batch open at a time; *)
(* waiting for a future inside an open batch is excluded by client.h.      *)
(***************************************************************************)
EXTENDS Integers, Sequences, FiniteSets

CONSTANTS
    Threads,
    Calls,      \* bound: every call is made at most once
    Reentrant   \* do callbacks of futures make calls themselves?

ASSUME BatchAssumption ==
    /\ IsFiniteSet(Threads)
    /\ Calls \cap {"none", "pending", "failed"} = {}
    /\ Reentrant \in BOOLEAN

VARIABLES
    batchAccess, processingAccess,
    batchCounter,
    preparedList,   \* requests collected: the call and the "id" it is sent with
    processing,     \* requests of the batch being sent, a local of runBatch
    done,           \* positions in processing that have got their response
    at,             \* the position the loops of runBatch are at
    response,       \* the response just parsed
    open,           \* threads between beginBatch and closeBatch
    outcome,        \* of the future of each call, see RpcCalls
    pc, next        \* where each thread is, where runBatch goes on after a callback

lists == <<preparedList, processing, done, at, response>>
vars == <<batchAccess, processingAccess, batchCounter, preparedList, processing,
          done, at, response, open, outcome, pc, next>>

(* runBatch: "run" waits for processingAccess, "take" for batchAccess,     *)
(* "send" is up to http.send(), "parse" and "parsing" read the responses,  *)
(* "settle" handles one, "sweep", "reject" and "fail" are the loops that   *)
(* reject futures. "relock" is the end of the SyncReleased around runBatch. *)
Inside == {"take", "send", "parse", "parsing", "settle", "sweep", "reject",
           "fail", "callback"}

Requests == [call : Calls, id : Nat]

(* No id, an id out of range, or the response to a request of the batch.   *)
Responses == {[id |-> -1]} \cup [id : Nat, to : Calls]

TypeOK ==
    /\ batchAccess \subseteq Threads /\ processingAccess \subseteq Threads
    /\ batchCounter \in Nat
    /\ preparedList \in Seq(Requests) /\ processing \in Seq(Requests)
    /\ done \subseteq Nat /\ at \in Nat \ {0}
    /\ response \in Responses
    /\ open \subseteq Threads
    /\ outcome \in [Calls -> {"none", "pending", "failed"} \cup Calls]
    /\ pc \in [Threads -> Inside \cup {"idle", "run", "relock"}]
    /\ next \in {"parse", "sweep", "reject", "fail"}

Ignored == [id |-> -1]

Init ==
    /\ batchAccess = {} /\ processingAccess = {}
    /\ batchCounter = 0
    /\ preparedList = <<>> /\ processing = <<>> /\ done = {} /\ at = 1
    /\ response = Ignored
    /\ open = {}
    /\ outcome = [c \in Calls |-> "none"]
    /\ pc = [t \in Threads |-> "idle"] /\ next = "parse"

Goto(t, place) == pc' = [pc EXCEPT ![t] = place]

-----------------------------------------------------------------------------
(* What callers do. *)

(* callAsync adds the request; the first one outside any batch opens a     *)
(* batch of its own and runs it. "here" is where the caller goes on.       *)
(* Mutant: ids start at 1.                                                 *)
AddFrom1(t, c, here) ==
    /\ batchAccess = {}
    /\ outcome[c] = "none"
    /\ outcome' = [outcome EXCEPT ![c] = "pending"]
    /\ preparedList' = Append(preparedList, [call |-> c, id |-> Len(preparedList) + 1])
    /\ IF batchCounter = 0
       THEN batchCounter' = 1 /\ Goto(t, "run")
       ELSE UNCHANGED batchCounter /\ Goto(t, here)
    /\ UNCHANGED <<batchAccess, processingAccess, processing, done, at, response,
                   open, next>>

Add(t, c, here) ==
    /\ batchAccess = {}
    /\ outcome[c] = "none"
    /\ outcome' = [outcome EXCEPT ![c] = "pending"]
    /\ preparedList' = Append(preparedList, [call |-> c, id |-> Len(preparedList)])
    /\ IF batchCounter = 0
       THEN batchCounter' = 1 /\ Goto(t, "run")
       ELSE UNCHANGED batchCounter /\ Goto(t, here)
    /\ UNCHANGED <<batchAccess, processingAccess, processing, done, at, response,
                   open, next>>

CallAsync(t) == pc[t] = "idle" /\ \E c \in Calls : Add(t, c, "idle")

BeginBatch(t) ==
    /\ pc[t] = "idle" /\ t \notin open
    /\ batchAccess = {}
    /\ batchCounter' = batchCounter + 1
    /\ open' = open \cup {t}
    /\ UNCHANGED <<batchAccess, processingAccess, lists, outcome, pc, next>>

(* The last batch stays counted until runBatch has taken the list.         *)
(* Mutant: the last close is taken for one that is not.                    *)
CloseBatchNotLast(t) ==
    /\ pc[t] = "idle" /\ t \in open
    /\ batchAccess = {}
    /\ open' = open \ {t}
    /\ IF batchCounter > 1
       THEN Goto(t, "run") /\ UNCHANGED batchCounter
       ELSE batchCounter' = 0 /\ UNCHANGED pc
    /\ UNCHANGED <<batchAccess, processingAccess, lists, outcome, next>>

CloseBatch(t) ==
    /\ pc[t] = "idle" /\ t \in open
    /\ batchAccess = {}
    /\ open' = open \ {t}
    /\ IF batchCounter = 1
       THEN Goto(t, "run") /\ UNCHANGED batchCounter
       ELSE /\ batchCounter' = IF batchCounter > 0 THEN batchCounter - 1 ELSE batchCounter
            /\ UNCHANGED pc
    /\ UNCHANGED <<batchAccess, processingAccess, lists, outcome, next>>

-----------------------------------------------------------------------------
(* runBatch *)

LockProcessing(t) ==
    /\ pc[t] = "run"
    /\ processingAccess = {}
    /\ processingAccess' = {t}
    /\ Goto(t, "take")
    /\ UNCHANGED <<batchAccess, batchCounter, lists, open, outcome, next>>

(* runBatch returns: the locals are gone, processingAccess is released.    *)
Return(t) ==
    /\ processing' = <<>> /\ done' = {} /\ processingAccess' = {}
    /\ Goto(t, "relock")

(* Mutant: no other batch is expected to be open.                          *)
TakeAll(t) ==
    /\ pc[t] = "take"
    /\ batchAccess = {}
    /\ batchCounter' = 0
    /\ preparedList' = <<>>
    /\ IF preparedList = <<>> THEN Return(t)
       ELSE /\ processing' = preparedList /\ done' = {}
            /\ Goto(t, "send") /\ UNCHANGED processingAccess
    /\ UNCHANGED <<batchAccess, at, response, open, outcome, next>>

Take(t) ==
    /\ pc[t] = "take"
    /\ batchAccess = {}
    /\ batchCounter' = batchCounter - 1
    /\ preparedList' = <<>>
    /\ IF preparedList = <<>> THEN Return(t)
       ELSE /\ processing' = preparedList /\ done' = {}
            /\ Goto(t, "send") /\ UNCHANGED processingAccess
    /\ UNCHANGED <<batchAccess, at, response, open, outcome, next>>

(* Within runBatch nothing but the loops' state moves. *)
Loop == UNCHANGED <<processingAccess, batchCounter, preparedList, processing, open>>

(* open, beginBody, toStream and send: status 200, another one, or an      *)
(* exception. Mutant: the loop over the responses or rejections starts at  *)
(* the second request.                                                     *)
SendSkips(t) ==
    /\ pc[t] = "send"
    /\ at' = 2
    /\ \E place \in {"parse", "reject", "fail"} : Goto(t, place)
    /\ UNCHANGED <<batchAccess, done, response, outcome, next>> /\ Loop

Send(t) ==
    /\ pc[t] = "send"
    /\ at' = 1
    /\ \E place \in {"parse", "reject", "fail"} : Goto(t, place)
    /\ UNCHANGED <<batchAccess, done, response, outcome, next>> /\ Loop

(* One response per request is expected; it is read under batchAccess.     *)
LockParse(t) ==
    /\ pc[t] = "parse"
    /\ IF at <= Len(processing)
       THEN batchAccess = {} /\ batchAccess' = {t} /\ Goto(t, "parsing") /\ UNCHANGED at
       ELSE UNCHANGED batchAccess /\ Goto(t, "sweep") /\ at' = 1
    /\ UNCHANGED <<done, response, outcome, next>> /\ Loop

(* fromStream returns: the server has answered any of the requests, in any *)
(* order, twice even, or nothing of use. Or it throws.                     *)
Parsed(t) ==
    /\ pc[t] = "parsing"
    /\ batchAccess' = {}
    /\ \/ /\ \/ response' = Ignored
             \/ \E i \in DOMAIN processing :
                  response' = [id |-> processing[i].id, to |-> processing[i].call]
          /\ Goto(t, "settle") /\ UNCHANGED at
       \/ /\ Goto(t, "fail") /\ at' = 1
          /\ UNCHANGED response
    /\ UNCHANGED <<done, outcome, next>> /\ Loop

(* Promise::resolve and reject. *)
Settled(c, o) == IF outcome[c] = "pending" THEN [outcome EXCEPT ![c] = o] ELSE outcome

(* The id is the position of the request that is settled. *)
Settle(t) ==
    LET i == response.id + 1
    IN  /\ pc[t] = "settle"
        /\ at' = at + 1
        /\ IF i \in DOMAIN processing /\ i \notin done
           THEN /\ done' = done \cup {i}
                /\ outcome' = Settled(processing[i].call, response.to)
                /\ Goto(t, "callback") /\ next' = "parse"
           ELSE Goto(t, "parse") /\ UNCHANGED <<done, outcome, next>>
        /\ UNCHANGED <<batchAccess, response>> /\ Loop

(* The loops that reject: "sweep" and "fail" skip what has got a response, *)
(* "reject" (status other than 200) does not mark what it has rejected.    *)
Reject(t) ==
    /\ pc[t] \in {"sweep", "reject", "fail"} /\ at <= Len(processing)
    /\ at' = at + 1
    /\ IF at \in done /\ pc[t] # "reject"
       THEN UNCHANGED <<outcome, pc, next>>
       ELSE /\ outcome' = Settled(processing[at].call, "failed")
            /\ Goto(t, "callback") /\ next' = pc[t]
    /\ UNCHANGED <<batchAccess, done, response>> /\ Loop

(* http.close() follows; it throws nothing. runBatch is at its end.        *)
Rejected(t) ==
    /\ pc[t] \in {"sweep", "reject", "fail"} /\ at > Len(processing)
    /\ Return(t)
    /\ UNCHANGED <<batchAccess, batchCounter, preparedList, at, response, open,
                   outcome, next>>

(* The callbacks of a future that has been settled. *)
CallbackCalls(t) ==
    /\ pc[t] = "callback" /\ Reentrant
    /\ \E c \in Calls : Add(t, c, "callback")

CallbackReturns(t) ==
    /\ pc[t] = "callback"
    /\ Goto(t, next)
    /\ UNCHANGED <<batchAccess, done, at, response, outcome, next>> /\ Loop

(* ~SyncReleased, then ~Synchronized: callAsync or closeBatch returns. *)
Relock(t) ==
    /\ pc[t] = "relock"
    /\ batchAccess = {}
    /\ Goto(t, "idle")
    /\ UNCHANGED <<batchAccess, processingAccess, batchCounter, lists, open,
                   outcome, next>>

-----------------------------------------------------------------------------
Caller(t) == CallAsync(t) \/ BeginBatch(t) \/ CloseBatch(t)

Locking(t) == LockProcessing(t) \/ Take(t) \/ LockParse(t) \/ Relock(t)

Processing(t) == Send(t) \/ Parsed(t) \/ Settle(t) \/ Reject(t) \/ Rejected(t)
                 \/ CallbackReturns(t)

Next == \E t \in Threads :
          Caller(t) \/ Locking(t) \/ Processing(t) \/ CallbackCalls(t)

Spec == Init /\ [][Next]_vars

(* Threads run, network operations end (by a timeout if need be), a waiting*)
(* thread is not overtaken forever at a lock. Whoever opens a batch closes *)
(* it; and the callers do not keep some batch open at any time, by opening *)
(* one before another is closed: that would hold back every call forever.  *)
Fairness == \A t \in Threads :
    /\ SF_vars(Locking(t)) /\ WF_vars(Processing(t)) /\ SF_vars(CloseBatch(t))
    /\ SF_vars(CloseBatch(t) /\ batchCounter = 1)

FairSpec == Spec /\ Fairness

-----------------------------------------------------------------------------
(* Threads that are about to take the collected requests. *)
Runners == {t \in Threads : pc[t] \in {"run", "take"}}

(* The batch counter counts the open batches and the thread about to run   *)
(* one, whatever batches are opened and closed meanwhile.                  *)
Counting ==
    /\ batchCounter = Cardinality(open) + Cardinality(Runners)
    /\ Cardinality(Runners) <= 1

(* Requests collected are never forgotten: some batch is still to be       *)
(* closed, or some thread is about to send them.                           *)
NothingStranded == preparedList # <<>> => open # {} \/ Runners # {}

(* Types, the counter and the list it guards together.                     *)
Consistent == TypeOK /\ Counting /\ NothingStranded

InList(c, list) == \E i \in DOMAIN list : list[i].call = c

(* A future that is not settled belongs to a request that is collected or  *)
(* in the batch being processed: no failure after the list is taken drops  *)
(* a call.                                                                 *)
NoCallLost ==
    \A c \in Calls : outcome[c] = "pending" => InList(c, preparedList) \/ InList(c, processing)

(* One call at a time is settled, once, by its own response: the "id" that *)
(* a request got when it was collected is its position when the response   *)
(* comes.                                                                  *)
Abstract == INSTANCE RpcCalls
EachCallOnce == Abstract!Spec

(* A thread that waits for the lock it holds: a callback has made a call   *)
(* while no batch was open, runBatch is entered again.                     *)
SelfBlocked(t) == pc[t] = "run" /\ processingAccess = {t}

(* Every call is settled in the end; the only thing that can prevent it is *)
(* a thread that blocks itself.                                            *)
EverySettled ==
    \A c \in Calls : outcome[c] = "pending" ~>
                        outcome[c] # "pending" \/ \E t \in Threads : SelfBlocked(t)
=============================================================================
