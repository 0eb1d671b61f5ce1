---------------------------- MODULE WsPeer_proofs ----------------------------
(***************************************************************************)
(* Theorems about WsPeer, for any calls, requests and notifications; and   *)
(* at the end about WsFrames, for any number of frames.                    *)
(***************************************************************************)
EXTENDS WsPeer, WsFrames, SequenceTheorems, TLAPS

-----------------------------------------------------------------------------
(* Types *)

LEMMA HeadTyped ==
    ASSUME TypeOK, received # <<>>
    PROVE  Head(received) \in Messages /\ Tail(received) \in Seq(Messages)
BY DEF TypeOK

LEMMA TypeInit == Init => TypeOK
BY DEF Init, TypeOK, Places, Messages, Actors

LEMMA CallTyped ==
    ASSUME TypeOK, NEW c \in Calls, CallAsync(c) \/ InsertBegins(c) \/ InsertEnds(c)
    PROVE  TypeOK'
<1>1. CASE CallAsync(c)
  BY <1>1 DEF TypeOK, CallAsync, Goto, Places, Actors
<1>2. CASE InsertBegins(c)
  BY <1>2 DEF TypeOK, InsertBegins, Goto, Places, Actors
<1>3. CASE InsertEnds(c)
  <2>1. [id |-> id[c], call |-> c] \in [id : Nat, call : Calls]
    BY DEF TypeOK
  <2> QED
    BY <1>3, <2>1 DEF TypeOK, InsertEnds, Goto, Places, Actors
<1> QED
  BY <1>1, <1>2, <1>3

LEMMA SendTyped ==
    ASSUME TypeOK, NEW a \in Actors, Sends(a)
    PROVE  TypeOK'
<1>1. CASE SendHeader(a)
  BY <1>1 DEF TypeOK, SendHeader, Goto, Places
<1>2. CASE SendPayload(a)
  <2>1. pc' \in [Actors -> Places] /\ bufferLock' \subseteq Actors
    BY <1>2 DEF TypeOK, SendPayload, Goto, Places
  <2>2. outcome' \in [Calls -> {"none", "pending", "failed"} \cup Calls]
    BY <1>2 DEF TypeOK, SendPayload
  <2>3. answers' = answers \/ answers' = [r \in Requests |-> IF r \in Answering(a) THEN answers[r] + 1 ELSE answers[r]]
    BY <1>2 DEF SendPayload
  <2>4. answers' \in [Requests -> Nat]
    BY <2>3 DEF TypeOK
  <2>5. replies' \in Requests \cup {"none"}
    BY <1>2 DEF TypeOK, SendPayload
  <2> QED
    BY <1>2, <2>1, <2>2, <2>4, <2>5 DEF TypeOK, SendPayload
<1> QED
  BY <1>1, <1>2 DEF Sends

LEMMA SettleTyped ==
    ASSUME TypeOK, NEW cs, NEW kind, Settle(cs, kind)
    PROVE  outcome' \in [Calls -> {"none", "pending", "failed"} \cup Calls]
BY DEF TypeOK, Settle

LEMMA ResponseTyped ==
    ASSUME TypeOK, NEW kind, Response(kind)
    PROVE  TypeOK'
<1>1. outcome' \in [Calls -> {"none", "pending", "failed"} \cup Calls]
  BY SettleTyped DEF Response
<1>2. received' \in Seq(Messages)
  BY HeadTyped DEF Response, Incoming
<1> QED
  BY <1>1, <1>2 DEF TypeOK, Response

LEMMA RacingTyped ==
    ASSUME TypeOK, NEW kind, RacingResponse(kind)
    PROVE  TypeOK'
<1>1. outcome' \in [Calls -> {"none", "pending", "failed"} \cup Calls]
  BY SettleTyped DEF RacingResponse
<1>2. received' \in Seq(Messages)
  BY HeadTyped DEF RacingResponse, Incoming
<1>3. waitingPromises' \subseteq [id : Nat, call : Calls] /\ raced' \subseteq Calls
  BY DEF TypeOK, RacingResponse, Found, Inserting
<1> QED
  BY <1>1, <1>2, <1>3 DEF TypeOK, RacingResponse

LEMMA RequestTyped ==
    ASSUME TypeOK, Request
    PROVE  TypeOK' /\ Head(received).from \in Requests
<1>1. Head(received) \in Messages /\ Head(received).kind = "request"
  BY HeadTyped DEF Request, Incoming
<1>2. Head(received).from \in Requests
  BY <1>1 DEF Messages
<1>3. received' \in Seq(Messages)
  BY HeadTyped DEF Request, Incoming
<1> QED
  BY <1>2, <1>3 DEF TypeOK, Request, Goto, Places, Actors

LEMMA PeerTyped ==
    ASSUME TypeOK, PeerSends
    PROVE  TypeOK'
<1>1. PICK m \in [kind : {"result", "error"}, id : {id[c] : c \in Seen}]
                 \cup [kind : {"bare", "binary"}]
                 \cup [kind : {"request"}, from : {r \in Requests : pc[r] = "idle"
                          /\ replies # r /\ answers[r] = 0
                          /\ \A i \in DOMAIN received : received[i] # [kind |-> "request", from |-> r]}] :
          received' = Append(received, m)
  BY DEF PeerSends
<1>2. m \in Messages
  <2>1. {id[c] : c \in Seen} \subseteq Nat
    BY DEF TypeOK, Seen
  <2> QED
    BY <1>1, <2>1 DEF Messages
<1> QED
  BY <1>1, <1>2 DEF TypeOK, PeerSends

LEMMA NextTyped == TypeOK /\ [Next]_vars => TypeOK'
<1> SUFFICES ASSUME TypeOK, [Next]_vars PROVE TypeOK'
  OBVIOUS
<1>1. CASE \E c \in Calls : CallAsync(c) \/ InsertBegins(c) \/ InsertEnds(c)
  BY <1>1, CallTyped
<1>2. CASE \E a \in Actors : Sends(a)
  BY <1>2, SendTyped
<1>3. CASE \E n \in Notes : Notify(n)
  BY <1>3 DEF TypeOK, Notify, Goto, Places, Actors
<1>4. CASE \E r \in Requests : ResponseAsync(r)
  BY <1>4 DEF TypeOK, ResponseAsync, Goto, Places, Actors
<1>5. CASE Reads
  <2>1. CASE \E kind \in {"result", "error"} : Response(kind) \/ RacingResponse(kind)
    BY <2>1, ResponseTyped, RacingTyped
  <2>2. CASE Request
    BY <2>2, RequestTyped
  <2>3. CASE BareResponse
    BY <2>3, HeadTyped DEF TypeOK, BareResponse, Incoming, Goto, Places, Actors
  <2>4. CASE BinaryMessage
    BY <2>4, HeadTyped DEF TypeOK, BinaryMessage, Incoming, Goto, Places, Actors
  <2> QED
    BY <1>5, <2>1, <2>2, <2>3, <2>4 DEF Reads
<1>6. CASE Destroy
  <2>1. received' \in Seq(Messages) /\ waitingPromises' = {} /\ alive' = FALSE
    BY <1>6 DEF Destroy
  <2> QED
    BY <1>6, <2>1 DEF TypeOK, Destroy
<1>7. CASE PeerSends
  BY <1>7, PeerTyped
<1>8. CASE UNCHANGED vars
  BY <1>8 DEF TypeOK, vars
<1> QED
  BY <1>1, <1>2, <1>3, <1>4, <1>5, <1>6, <1>7, <1>8 DEF Next

(* Type invariant of the peer, for any calls, requests and notifications.  *)
THEOREM TypeCorrect == Spec => []TypeOK
<1> QED
  BY TypeInit, NextTyped, PTL DEF Spec

-----------------------------------------------------------------------------
(* Calls *)

(* A call that waits for bufferLock, or whose request is being written or  *)
(* has just been, is open; one not made is none.                           *)
CallsOpen ==
    \A c \in Calls :
       /\ pc[c] = "idle" => outcome[c] = "none"
       /\ pc[c] \in {"lock", "head", "insert"} => outcome[c] = "pending"

(* Ids are those handed out, each to one call. *)
IdsDistinct ==
    /\ \A c \in Calls : id[c] <= nextPromiseId
    /\ \A c, d \in Calls : pc[c] # "idle" /\ pc[d] # "idle" /\ id[c] = id[d] => c = d

(* The table has promises of calls whose request is out, by their ids.     *)
TableRight ==
    \A e \in waitingPromises : e.id = id[e.call] /\ pc[e.call] = "done"

CInv == TypeOK /\ CallsOpen /\ IdsDistinct /\ TableRight

LEMMA CInit == Init => CInv
<1> SUFFICES ASSUME Init PROVE CInv
  OBVIOUS
<1> QED
  BY TypeInit DEF Init, CInv, CallsOpen, IdsDistinct, TableRight, Actors

(* What changes nothing that the invariant is about. *)
calls == <<id, nextPromiseId, waitingPromises, outcome>>
CallPlaces == \A c \in Calls : pc'[c] = pc[c]

LEMMA CallsAside ==
    ASSUME CInv, TypeOK', UNCHANGED calls, CallPlaces
    PROVE  CInv'
BY DEF CInv, CallsOpen, IdsDistinct, TableRight, calls, CallPlaces, TypeOK

(* A response, racing or not, finds one call at most, and that is open no  *)
(* more in the table's keeping: it has been sent.                          *)
LEMMA SettleOne ==
    ASSUME CInv, NEW i, NEW cs \in SUBSET Calls, NEW kind, Settle(cs, kind),
           \A c \in cs : id[c] = i /\ pc[c] \in {"inserting", "done"}
    PROVE  /\ \A c \in Calls : pc[c] \notin {"inserting", "done"} => outcome'[c] = outcome[c]
           /\ outcome' = outcome \/ \E c \in Calls : Abstract!Settle(c)
<1>1. outcome' = [c \in Calls |->
                    IF c \in cs /\ outcome[c] = "pending"
                    THEN IF kind = "result" THEN c ELSE "failed" ELSE outcome[c]]
  BY DEF Settle
<1>2. CASE \A c \in cs : outcome[c] # "pending"
  <2>1. outcome' = outcome
    BY <1>1, <1>2 DEF CInv, TypeOK
  <2> QED
    BY <2>1
<1>3. CASE \E c \in cs : outcome[c] = "pending"
  <2>1. PICK c \in cs : outcome[c] = "pending"
    BY <1>3
  <2>2. \A d \in cs : d = c
    BY DEF CInv, IdsDistinct
  <2>3. outcome' = [outcome EXCEPT ![c] = IF kind = "result" THEN c ELSE "failed"]
    BY <1>1, <2>1, <2>2 DEF CInv, TypeOK
  <2>4. Abstract!Settle(c)
    BY <2>1, <2>3 DEF Abstract!Settle
  <2> QED
    BY <1>1, <2>4
<1> QED
  BY <1>2, <1>3

(* Every step of a call is one of RpcCalls, or none to it. *)
LEMMA CallStep ==
    ASSUME CInv, NEW c \in Calls, CallAsync(c) \/ InsertBegins(c) \/ InsertEnds(c)
    PROVE  CInv' /\ (Abstract!Next \/ UNCHANGED outcome)
<1>0. TypeOK /\ TypeOK'
  BY CallTyped DEF CInv
<1>1. CASE CallAsync(c)
  <2>1. pc' = [pc EXCEPT ![c] = "lock"] /\ id' = [id EXCEPT ![c] = nextPromiseId + 1]
        /\ outcome' = [outcome EXCEPT ![c] = "pending"] /\ nextPromiseId' = nextPromiseId + 1
        /\ waitingPromises' = waitingPromises /\ pc[c] = "idle"
    BY <1>1 DEF CallAsync, Goto
  <2>2. CallsOpen'
    BY <1>0, <2>1 DEF CInv, CallsOpen, TypeOK, Actors
  <2>3. IdsDistinct'
    BY <1>0, <2>1 DEF CInv, IdsDistinct, TypeOK, Actors
  <2>4. TableRight'
    BY <1>0, <2>1 DEF CInv, TableRight, TypeOK, Actors
  <2>5. Abstract!Make(c)
    BY <2>1 DEF CInv, CallsOpen, Abstract!Make
  <2> QED
    BY <1>0, <2>2, <2>3, <2>4, <2>5 DEF CInv, Abstract!Next
<1>2. CASE InsertBegins(c)
  <2>1. pc' = [pc EXCEPT ![c] = "inserting"] /\ UNCHANGED calls /\ pc[c] = "insert"
    BY <1>2 DEF InsertBegins, Goto, calls
  <2> QED
    BY <1>0, <2>1 DEF CInv, CallsOpen, IdsDistinct, TableRight, TypeOK, Actors, calls
<1>3. CASE InsertEnds(c)
  <2>1. pc' = [pc EXCEPT ![c] = "done"] /\ UNCHANGED <<id, nextPromiseId, outcome>> /\ pc[c] = "inserting"
        /\ waitingPromises' \subseteq waitingPromises \cup {[id |-> id[c], call |-> c]}
    BY <1>3 DEF InsertEnds, Goto
  <2>2. TableRight'
    BY <1>0, <2>1 DEF CInv, TableRight, TypeOK, Actors
  <2>3. CallsOpen' /\ IdsDistinct'
    BY <1>0, <2>1 DEF CInv, CallsOpen, IdsDistinct, TypeOK, Actors
  <2> QED
    BY <1>0, <2>1, <2>2, <2>3 DEF CInv
<1> QED
  BY <1>1, <1>2, <1>3

LEMMA SendStep ==
    ASSUME CInv, NEW a \in Actors, Sends(a)
    PROVE  CInv' /\ (Abstract!Next \/ UNCHANGED outcome)
<1>0. TypeOK /\ TypeOK'
  BY SendTyped DEF CInv
<1>1. CASE SendHeader(a)
  <2>1. pc' = [pc EXCEPT ![a] = "head"] /\ UNCHANGED calls /\ pc[a] = "lock"
    BY <1>1 DEF SendHeader, Goto, calls
  <2> QED
    BY <1>0, <2>1 DEF CInv, CallsOpen, IdsDistinct, TableRight, TypeOK, calls
<1>2. CASE SendPayload(a) /\ a \in Calls
  <2>1. pc[a] = "head" /\ a # Reader /\ UNCHANGED <<id, nextPromiseId, waitingPromises>>
    BY <1>2, PeerAssumption DEF SendPayload
  <2>2. CASE pc' = [pc EXCEPT ![a] = "insert"] /\ UNCHANGED outcome
    BY <1>0, <1>2, <2>1, <2>2 DEF CInv, CallsOpen, IdsDistinct, TableRight, TypeOK
  <2>3. CASE pc' = [pc EXCEPT ![a] = "done"] /\ outcome' = [c \in Calls |-> IF c = a THEN "failed" ELSE outcome[c]]
    <3>1. CInv'
      BY <1>0, <1>2, <2>1, <2>3 DEF CInv, CallsOpen, IdsDistinct, TableRight, TypeOK
    <3>2. outcome[a] = "pending" /\ outcome' = [outcome EXCEPT ![a] = "failed"]
      BY <1>0, <1>2, <2>1, <2>3 DEF CInv, CallsOpen, TypeOK
    <3> QED
      BY <1>2, <3>1, <3>2 DEF Abstract!Next, Abstract!Settle
  <2> QED
    BY <1>2, <2>1, <2>2, <2>3 DEF SendPayload, Goto
<1>3. CASE SendPayload(a) /\ a \notin Calls
  <2>1. outcome' = outcome
    BY <1>0, <1>3 DEF SendPayload, TypeOK
  <2>2. CallPlaces
    <3>1. PICK p : pc' = [pc EXCEPT ![a] = p]
      BY <1>3 DEF SendPayload, Goto
    <3> QED
      BY <1>0, <1>3, <3>1 DEF CallPlaces, TypeOK
  <2>3. UNCHANGED calls
    BY <1>3, <2>1 DEF SendPayload, calls
  <2> QED
    BY <1>0, <2>1, <2>2, <2>3, CallsAside
<1> QED
  BY <1>1, <1>2, <1>3 DEF Sends

LEMMA ResponseStep ==
    ASSUME CInv, NEW kind, Response(kind) \/ RacingResponse(kind)
    PROVE  CInv' /\ (Abstract!Next \/ UNCHANGED outcome)
<1>0. TypeOK /\ TypeOK'
  BY ResponseTyped, RacingTyped DEF CInv
<1> DEFINE i == Head(received).id
<1>1. /\ UNCHANGED <<pc, id, nextPromiseId>> /\ waitingPromises' \subseteq waitingPromises
      /\ \E cs \in SUBSET Calls : Settle(cs, kind)
                 /\ \A c \in cs : id[c] = i /\ pc[c] \in {"inserting", "done"}
  <2>1. \A e \in Found(i) : e.call \in Calls /\ id[e.call] = i /\ pc[e.call] = "done"
    BY <1>0 DEF Found, CInv, TableRight, TypeOK
  <2>2. CASE Response(kind)
    BY <2>1, <2>2 DEF Response
  <2>3. CASE RacingResponse(kind)
    <3>1. UNCHANGED <<pc, id, nextPromiseId>>
      BY <2>3 DEF RacingResponse
    <3> DEFINE touched == {e.call : e \in Found(i)} \cup Inserting
    <3>2. PICK found \in SUBSET {c \in touched : id[c] = i}, kept \in SUBSET Found(i) :
             /\ waitingPromises' = (waitingPromises \ Found(i)) \cup kept
             /\ Settle(found, kind)
      BY <2>3 DEF RacingResponse
    <3>3. \A c \in found : c \in Calls /\ id[c] = i /\ pc[c] \in {"inserting", "done"}
      BY <2>1 DEF Inserting
    <3>4. waitingPromises' \subseteq waitingPromises
      BY <3>2 DEF Found
    <3>5. found \in SUBSET Calls
      BY <3>3
    <3> QED
      BY <3>1, <3>2, <3>3, <3>4, <3>5
  <2> QED
    BY <2>2, <2>3
<1>2. PICK cs \in SUBSET Calls : Settle(cs, kind)
                 /\ \A c \in cs : id[c] = i /\ pc[c] \in {"inserting", "done"}
  BY <1>1
<1>3. /\ \A c \in Calls : pc[c] \notin {"inserting", "done"} => outcome'[c] = outcome[c]
      /\ outcome' = outcome \/ \E c \in Calls : Abstract!Settle(c)
  BY <1>2, SettleOne
<1>4. CallsOpen' /\ IdsDistinct' /\ TableRight'
  BY <1>0, <1>1, <1>3 DEF CInv, CallsOpen, IdsDistinct, TableRight
<1> QED
  BY <1>0, <1>3, <1>4 DEF CInv, Abstract!Next

LEMMA CNext == CInv /\ [Next]_vars => CInv' /\ [Abstract!Next]_outcome
<1> SUFFICES ASSUME CInv, [Next]_vars PROVE CInv' /\ (Abstract!Next \/ UNCHANGED outcome)
  OBVIOUS
<1>0. TypeOK /\ TypeOK'
  BY NextTyped DEF CInv
<1>1. CASE \E c \in Calls : CallAsync(c) \/ InsertBegins(c) \/ InsertEnds(c)
  BY <1>1, CallStep
<1>2. CASE \E a \in Actors : Sends(a)
  BY <1>2, SendStep
<1>3. CASE \E n \in Notes : Notify(n)
  <2>1. UNCHANGED calls /\ CallPlaces
    BY <1>0, <1>3, PeerAssumption DEF Notify, Goto, calls, CallPlaces, TypeOK
  <2> QED
    BY <1>0, <2>1, CallsAside DEF calls
<1>4. CASE \E r \in Requests : ResponseAsync(r)
  <2>1. UNCHANGED calls /\ CallPlaces
    BY <1>0, <1>4, PeerAssumption DEF ResponseAsync, Goto, calls, CallPlaces, TypeOK
  <2> QED
    BY <1>0, <2>1, CallsAside DEF calls
<1>5. CASE \E kind \in {"result", "error"} : Response(kind) \/ RacingResponse(kind)
  BY <1>5, ResponseStep
<1>6. CASE Request \/ BareResponse \/ BinaryMessage
  <2>1. UNCHANGED calls
    BY <1>6 DEF Request, BareResponse, BinaryMessage, calls
  <2>2. CallPlaces
    <3>1. \E a \in Requests \cup {Reader} : \E p : pc' = [pc EXCEPT ![a] = p]
      <4>1. CASE Request
        BY <1>0, <4>1, RequestTyped DEF Request, Goto
      <4>2. CASE BareResponse \/ BinaryMessage
        BY <4>2 DEF BareResponse, BinaryMessage, Goto
      <4> QED
        BY <1>6, <4>1, <4>2
    <3> QED
      BY <1>0, <3>1, PeerAssumption DEF CallPlaces, TypeOK
  <2> QED
    BY <1>0, <2>1, <2>2, CallsAside DEF calls
<1>7. CASE Destroy
  <2>1. UNCHANGED <<pc, id, nextPromiseId, outcome>> /\ waitingPromises' = {}
    BY <1>7 DEF Destroy
  <2> QED
    BY <1>0, <2>1 DEF CInv, CallsOpen, IdsDistinct, TableRight
<1>8. CASE PeerSends \/ UNCHANGED vars
  <2>1. UNCHANGED calls /\ CallPlaces
    BY <1>8 DEF PeerSends, vars, calls, CallPlaces
  <2> QED
    BY <1>0, <2>1, CallsAside DEF calls
<1> QED
  BY <1>1, <1>2, <1>3, <1>4, <1>5, <1>6, <1>7, <1>8 DEF Next, Reads

(* The peer implements RpcCalls: a call is made once and settled at most   *)
(* once, by its own response or by a failure, also when the response meets *)
(* the insertion of a promise.                                             *)
THEOREM ImplementsCalls == Spec => EachCallOnce
<1>1. Init => Abstract!Init
  BY DEF Init, Abstract!Init
<1> QED
  BY <1>1, CInit, CNext, PTL DEF Spec, EachCallOnce, Abstract!Spec

-----------------------------------------------------------------------------
(* Requests, locks and the end *)

(* A thread that holds bufferLock over the two pieces of a frame has it.   *)
Held == \A a \in Calls \cup Requests : pc[a] = "head" => a \in bufferLock

Asks(r) == [kind |-> "request", from |-> r]

(* A request is at one place at most: on its way, with the reader, with a  *)
(* worker; and then it has no response yet.                                *)
Arriving(r) == \E i \in DOMAIN received : received[i] = Asks(r)
ArrivesOnce ==
    \A r \in Requests : \A i, j \in DOMAIN received :
        received[i] = Asks(r) /\ received[j] = Asks(r) => i = j
Unanswered ==
    \A r \in Requests :
       /\ answers[r] <= 1
       /\ Arriving(r) => pc[r] = "idle" /\ replies # r /\ answers[r] = 0
       /\ replies = r => pc[r] = "idle" /\ answers[r] = 0
       /\ pc[r] \in {"async", "lock", "head"} => answers[r] = 0
ReaderReplies == pc[Reader] = "idle" => replies = "none"

RInv == TypeOK /\ Held /\ ArrivesOnce /\ Unanswered /\ ReaderReplies /\ NothingAfterEnd

LEMMA RInit == Init => RInv
<1> SUFFICES ASSUME Init PROVE RInv
  OBVIOUS
<1> QED
  BY TypeInit DEF Init, RInv, Held, ArrivesOnce, Unanswered, Arriving, ReaderReplies, NothingAfterEnd, Actors

LEMMA RInvConsistent == RInv => Consistent
<1> SUFFICES ASSUME RInv PROVE Consistent
  OBVIOUS
<1>1. Unlocked \subseteq Notes \cup {Reader}
  BY DEF RInv, Held, Unlocked, Actors
<1> QED
  BY <1>1 DEF RInv, Unanswered, OneResponse, Consistent

(* The reader takes a message: what is behind it keeps its order. *)
LEMMA TakenOnce ==
    ASSUME RInv, received # <<>>, received' = Tail(received)
    PROVE  /\ ArrivesOnce'
           /\ \A r \in Requests : Arriving(r)' => Arriving(r) /\ Head(received) # Asks(r)
<1>1. received \in Seq(Messages) /\ Len(received) > 0
  BY DEF RInv, TypeOK
<1>2. DOMAIN received' = 1 .. Len(received) - 1 /\ DOMAIN received = 1 .. Len(received)
      /\ \A i \in DOMAIN received' : received'[i] = received[i + 1]
  BY <1>1
<1>3. Head(received) = received[1] /\ 1 \in DOMAIN received
  BY <1>1
<1>4. \A i \in DOMAIN received' : i + 1 \in DOMAIN received /\ i \in Nat /\ i + 1 # 1
  BY <1>1, <1>2
<1>5. ArrivesOnce'
  BY <1>2, <1>4 DEF RInv, ArrivesOnce, Asks
<1>6. \A r \in Requests : Arriving(r)' => Arriving(r) /\ Head(received) # Asks(r)
  BY <1>2, <1>3, <1>4 DEF RInv, ArrivesOnce, Arriving, Asks
<1> QED
  BY <1>5, <1>6

LEMMA AddedOnce ==
    ASSUME RInv, NEW m \in Messages, received' = Append(received, m),
           \A r \in Requests : m = Asks(r) => ~Arriving(r)
    PROVE  ArrivesOnce' /\ \A r \in Requests : Arriving(r)' => Arriving(r) \/ m = Asks(r)
<1>1. received \in Seq(Messages)
  BY DEF RInv, TypeOK
<1>2. DOMAIN received' = 1 .. Len(received) + 1 /\ DOMAIN received = 1 .. Len(received)
      /\ received'[Len(received) + 1] = m /\ \A i \in DOMAIN received : received'[i] = received[i]
  BY <1>1
<1>3. \A i \in DOMAIN received' : i \in DOMAIN received \/ i = Len(received) + 1
  BY <1>1, <1>2
<1>4. \A r \in Requests : Arriving(r)' => Arriving(r) \/ m = Asks(r)
  BY <1>2, <1>3 DEF Arriving, Asks
<1>5. ArrivesOnce'
  BY <1>2, <1>3 DEF RInv, ArrivesOnce, Arriving, Asks
<1> QED
  BY <1>4, <1>5

LEMMA RSend ==
    ASSUME RInv, NEW a \in Actors, Sends(a)
    PROVE  RInv'
<1>0. TypeOK /\ TypeOK' /\ a \in Calls \cup Requests \cup Notes \cup {Reader}
  BY SendTyped DEF RInv, Actors
<1>1. UNCHANGED <<received, alive>> /\ ArrivesOnce' /\ \A r \in Requests : Arriving(r)' <=> Arriving(r)
  BY DEF Sends, SendHeader, SendPayload, RInv, ArrivesOnce, Arriving
<1>2. CASE SendHeader(a)
  <2>1. pc' = [pc EXCEPT ![a] = "head"] /\ pc[a] = "lock" /\ bufferLock = {} /\ bufferLock' = {a}
        /\ UNCHANGED <<answers, replies>>
    BY <1>2 DEF SendHeader, Goto
  <2>2. Held'
    BY <1>0, <2>1 DEF RInv, Held, TypeOK, Actors
  <2>3. Unanswered'
    BY <1>0, <1>1, <2>1 DEF RInv, Unanswered, TypeOK, Actors
  <2>4. ReaderReplies'
    BY <1>0, <2>1 DEF RInv, ReaderReplies, TypeOK, Actors
  <2>5. NothingAfterEnd'
    BY <1>0, <1>1, <2>1 DEF RInv, NothingAfterEnd, Users, TypeOK
  <2> QED
    BY <1>0, <1>1, <2>2, <2>3, <2>4, <2>5 DEF RInv
<1>3. CASE SendPayload(a)
  <2>1. pc[a] = "head" /\ bufferLock' = bufferLock \ {a} /\ alive
    BY <1>3 DEF SendPayload, RInv, NothingAfterEnd, Users
  <2>2. PICK p : pc' = [pc EXCEPT ![a] = p] /\ p \in {"insert", "idle", "done"}
           /\ (p = "idle" <=> a = Reader) /\ (p = "insert" => a \in Calls)
    BY <1>3, PeerAssumption DEF SendPayload, Goto
  <2>3. replies' = IF a = Reader THEN "none" ELSE replies
    BY <1>3 DEF SendPayload
  <2>4. \A r \in Requests : answers'[r] = answers[r] \/ (r \in Answering(a) /\ answers'[r] = answers[r] + 1)
    BY <1>0, <1>3 DEF SendPayload, TypeOK
  <2>5. \A r \in Answering(a) : r \in Requests /\ (r = a \/ (a = Reader /\ r = replies))
    BY DEF Answering
  <2>6. Held'
    BY <1>0, <2>1, <2>2 DEF RInv, Held, TypeOK, Actors
  <2>7. Unanswered'
    <3> SUFFICES ASSUME NEW r \in Requests
                 PROVE  /\ answers'[r] <= 1
                        /\ Arriving(r)' => pc'[r] = "idle" /\ replies' # r /\ answers'[r] = 0
                        /\ replies' = r => pc'[r] = "idle" /\ answers'[r] = 0
                        /\ pc'[r] \in {"async", "lock", "head"} => answers'[r] = 0
      BY DEF Unanswered
    <3>0. answers[r] \in Nat /\ r \in Actors /\ r # Reader /\ r # "none"
      BY <1>0, PeerAssumption DEF TypeOK, Actors
    <3>1. CASE r = a
      BY <1>0, <1>1, <2>1, <2>2, <2>3, <2>4, <3>0, <3>1 DEF RInv, Unanswered, TypeOK
    <3>2. CASE r # a
      <4>1. pc'[r] = pc[r]
        BY <1>0, <2>2, <3>0, <3>2 DEF TypeOK
      <4> QED
        BY <1>1, <2>3, <2>4, <2>5, <3>0, <3>2, <4>1 DEF RInv, Unanswered
    <3> QED
      BY <3>1, <3>2
  <2>8. ReaderReplies'
    BY <1>0, <2>2, <2>3 DEF RInv, ReaderReplies, TypeOK, Actors
  <2>9. NothingAfterEnd'
    BY <1>1, <2>1 DEF NothingAfterEnd
  <2> QED
    BY <1>0, <1>1, <2>6, <2>7, <2>8, <2>9 DEF RInv
<1> QED
  BY <1>2, <1>3 DEF Sends

LEMMA RReads ==
    ASSUME RInv, Reads
    PROVE  RInv'
<1>0. TypeOK /\ TypeOK'
  BY NextTyped DEF RInv, Next
<1>1. received # <<>> /\ received' = Tail(received) /\ pc[Reader] = "idle" /\ alive /\ alive' = alive
  BY DEF Reads, Response, RacingResponse, Request, BareResponse, BinaryMessage, Incoming
<1>2. ArrivesOnce' /\ \A r \in Requests : Arriving(r)' => Arriving(r) /\ Head(received) # Asks(r)
  BY <1>1, TakenOnce
<1>3. NothingAfterEnd' /\ replies = "none" /\ UNCHANGED <<bufferLock, answers>>
  BY <1>1 DEF NothingAfterEnd, RInv, ReaderReplies, Reads, Response, RacingResponse, Request, BareResponse, BinaryMessage
<1>4. CASE UNCHANGED <<pc, replies>>
  BY <1>0, <1>2, <1>3, <1>4 DEF RInv, Held, Unanswered, ReaderReplies
<1>5. CASE Request
  <2>1. PICK r \in Requests : Head(received) = Asks(r)
    <3>1. Head(received) \in Messages /\ Head(received).kind = "request"
      BY <1>0, <1>5, HeadTyped DEF Request, Incoming
    <3> QED
      BY <3>1 DEF Messages, Asks
  <2>2. Arriving(r) /\ ~Arriving(r)' /\ Head(received).from = r
    <3>1. Head(received) = received[1] /\ 1 \in DOMAIN received
      BY <1>0, <1>1 DEF TypeOK
    <3> QED
      BY <1>2, <2>1, <3>1 DEF Arriving, Asks
  <2>3. pc[r] = "idle" /\ answers[r] = 0 /\ r # "none" /\ r # Reader
    BY <2>2, PeerAssumption DEF RInv, Unanswered
  <2>4. CASE pc' = [pc EXCEPT ![r] = "async"] /\ replies' = replies
    BY <1>0, <1>1, <1>2, <1>3, <2>2, <2>3, <2>4 DEF RInv, Held, Unanswered, ReaderReplies, TypeOK, Actors
  <2>5. CASE pc' = [pc EXCEPT ![Reader] = "lock"] /\ replies' = r
    BY <1>0, <1>1, <1>2, <1>3, <2>2, <2>3, <2>5, PeerAssumption
    DEF RInv, Held, Unanswered, ReaderReplies, TypeOK, Actors
  <2> QED
    BY <1>5, <2>2, <2>4, <2>5 DEF Request, Goto
<1>6. CASE BareResponse \/ BinaryMessage
  <2>1. PICK p : pc' = [pc EXCEPT ![Reader] = p] /\ replies' = replies
    BY <1>6 DEF BareResponse, BinaryMessage, Goto
  <2> QED
    BY <1>0, <1>2, <1>3, <2>1, PeerAssumption DEF RInv, Held, Unanswered, ReaderReplies, TypeOK, Actors
<1> QED
  BY <1>4, <1>5, <1>6 DEF Reads, Response, RacingResponse

(* A step of a call, a notification or a worker on its way to the lock.    *)
LEMMA RMove ==
    ASSUME RInv, TypeOK', NEW a \in Actors, NEW p, pc' = [pc EXCEPT ![a] = p],
           UNCHANGED <<bufferLock, received, alive, answers, replies>>,
           a # Reader, a \in Requests => pc[a] = "async",
           p = "head" => a \in Notes, alive \/ p \notin {"lock", "head", "insert", "inserting"}
    PROVE  RInv'
<1>1. ArrivesOnce' /\ \A r \in Requests : Arriving(r)' <=> Arriving(r)
  BY DEF RInv, ArrivesOnce, Arriving
<1>2. Held'
  BY PeerAssumption DEF RInv, Held, TypeOK
<1>3. Unanswered'
  BY <1>1 DEF RInv, Unanswered, TypeOK, Actors
<1>4. ReaderReplies'
  BY DEF RInv, ReaderReplies, TypeOK, Actors
<1>5. NothingAfterEnd'
  BY DEF RInv, NothingAfterEnd, Users, TypeOK
<1> QED
  BY <1>1, <1>2, <1>3, <1>4, <1>5 DEF RInv

LEMMA RNext == RInv /\ [Next]_vars => RInv'
<1> SUFFICES ASSUME RInv, [Next]_vars PROVE RInv'
  OBVIOUS
<1>0. TypeOK /\ TypeOK'
  BY NextTyped DEF RInv
<1>1. CASE \E c \in Calls : CallAsync(c) \/ InsertBegins(c) \/ InsertEnds(c)
  <2>1. PICK c \in Calls : CallAsync(c) \/ InsertBegins(c) \/ InsertEnds(c)
    BY <1>1
  <2>2. c \in Actors /\ c # Reader /\ c \notin Requests
    BY PeerAssumption DEF Actors
  <2>3. PICK p \in {"lock", "inserting", "done"} : pc' = [pc EXCEPT ![c] = p]
    BY <2>1 DEF CallAsync, InsertBegins, InsertEnds, Goto
  <2>4. UNCHANGED <<bufferLock, received, alive, answers, replies>>
    BY <2>1 DEF CallAsync, InsertBegins, InsertEnds
  <2>5. alive
    BY <2>1, <2>2 DEF CallAsync, InsertBegins, InsertEnds, RInv, NothingAfterEnd, Users
  <2> QED
    BY <1>0, <2>2, <2>3, <2>4, <2>5, RMove
<1>2. CASE \E a \in Actors : Sends(a)
  BY <1>2, RSend
<1>3. CASE \E n \in Notes : Notify(n)
  <2>1. PICK n \in Notes : Notify(n)
    BY <1>3
  <2>2. n \in Actors /\ n # Reader /\ n \notin Requests
    BY <2>1, PeerAssumption, <1>0 DEF Actors
  <2> QED
    BY <1>0, <2>1, <2>2, RMove DEF Notify, Goto
<1>4. CASE \E r \in Requests : ResponseAsync(r)
  <2>1. PICK r \in Requests : ResponseAsync(r)
    BY <1>4
  <2>2. r \in Actors /\ r # Reader /\ pc[r] = "async"
    BY <2>1, PeerAssumption DEF Actors, ResponseAsync
  <2>3. PICK p : pc' = [pc EXCEPT ![r] = p] /\ p = IF alive THEN "lock" ELSE "done"
    BY <2>1 DEF ResponseAsync, Goto
  <2>4. UNCHANGED <<bufferLock, received, alive, answers, replies>>
    BY <2>1 DEF ResponseAsync
  <2> QED
    BY <1>0, <2>2, <2>3, <2>4, RMove
<1>5. CASE Reads
  BY <1>5, RReads
<1>6. CASE Destroy
  <2>1. received' = <<>> /\ Users = {} /\ UNCHANGED <<pc, bufferLock, answers, replies>>
    BY <1>6 DEF Destroy
  <2>2. DOMAIN received' = {}
    BY <2>1
  <2>3. ArrivesOnce' /\ \A r \in Requests : ~Arriving(r)'
    BY <2>2 DEF ArrivesOnce, Arriving
  <2> QED
    BY <1>0, <2>1, <2>3 DEF RInv, Held, Unanswered, ReaderReplies, NothingAfterEnd, Users
<1>7. CASE PeerSends
  <2>1. PICK m \in Messages :
          /\ received' = Append(received, m)
          /\ \A r \in Requests : m = Asks(r) =>
                pc[r] = "idle" /\ replies # r /\ answers[r] = 0 /\ ~Arriving(r)
    <3>1. PICK m \in [kind : {"result", "error"}, id : {id[c] : c \in Seen}]
                     \cup [kind : {"bare", "binary"}]
                     \cup [kind : {"request"}, from : {r \in Requests : pc[r] = "idle"
                              /\ replies # r /\ answers[r] = 0
                              /\ \A i \in DOMAIN received : received[i] # [kind |-> "request", from |-> r]}] :
              received' = Append(received, m)
      BY <1>7 DEF PeerSends
    <3>2. m \in Messages
      <4>1. {id[c] : c \in Seen} \subseteq Nat
        BY <1>0 DEF TypeOK, Seen
      <4> QED
        BY <3>1, <4>1 DEF Messages
    <3>3. ASSUME NEW r \in Requests, m = Asks(r)
          PROVE  pc[r] = "idle" /\ replies # r /\ answers[r] = 0 /\ ~Arriving(r)
      <4>1. m.kind = "request" /\ m.from = r
        BY <3>3 DEF Asks
      <4> QED
        BY <3>1, <4>1 DEF Arriving, Asks
    <3> QED
      BY <3>1, <3>2, <3>3
  <2>2. ArrivesOnce' /\ \A r \in Requests : Arriving(r)' => Arriving(r) \/ m = Asks(r)
    BY <2>1, AddedOnce
  <2>3. UNCHANGED <<pc, bufferLock, alive, answers, replies>>
    BY <1>7 DEF PeerSends
  <2> QED
    BY <1>0, <2>1, <2>2, <2>3 DEF RInv, Held, Unanswered, ReaderReplies, NothingAfterEnd, Users
<1>8. CASE UNCHANGED vars
  BY <1>8 DEF RInv, TypeOK, Held, ArrivesOnce, Unanswered, Arriving, ReaderReplies, NothingAfterEnd, Users, vars
<1> QED
  BY <1>1, <1>2, <1>3, <1>4, <1>5, <1>6, <1>7, <1>8 DEF Next

(* A request of the peer gets one response at most, its frame is torn only *)
(* by those who write without the lock, and nobody writes after the end.   *)
THEOREM AlwaysConsistent == Spec => []Consistent
<1> QED
  BY RInit, RNext, RInvConsistent, PTL DEF Spec

-----------------------------------------------------------------------------
(* WsFrames, for any number of frames: what the peer above is given to     *)
(* read.                                                                   *)

(* A frame is looked at only when it is whole. *)
FrameWhole == stage = "frame" => done < read

OpenedInv == FramesTypeOK /\ FrameWhole

(* What the peer has sent keeps its type. *)
LEMMA FrameTyped ==
    ASSUME FramesTypeOK, NEW m \in DataMessages,
           NEW op \in {"text", "binary", "cont"}, NEW fin \in BOOLEAN,
           PeerSendsPart(m, op, fin)
    PROVE  FramesTypeOK'
<1>1. log' \in Seq(Frames) /\ Len(log') = Len(log) + 1
  BY DEF FramesTypeOK, PeerSendsPart, PeerSendsFrame, Frames, DataOps
<1>2. completed' \in Seq(DataMessages) /\ begun' \in DataMessages \cup {None}
  <2>0. completed \in Seq(DataMessages)
    BY DEF FramesTypeOK
  <2>1. CASE fin
    <3>1. completed' = Append(completed, m) /\ begun' = None
      BY <2>1 DEF PeerSendsPart
    <3> QED
      BY <2>0, <3>1
  <2>2. CASE ~fin
    <3>1. completed' = completed /\ begun' = m
      BY <2>2 DEF PeerSendsPart
    <3> QED
      BY <2>0, <3>1
  <2> QED
    BY <2>1, <2>2
<1>3. UNCHANGED <<hungUp, bytes, conn, stage, delivered, controls, closing>>
  BY DEF PeerSendsPart, PeerSendsFrame
<1> QED
  BY <1>1, <1>2, <1>3 DEF FramesTypeOK, bytes, conn

(* A fragment more makes a message of a message. *)
LEMMA LongerMessage ==
    ASSUME NEW m \in DataMessages, NEW i \in Nat
    PROVE  [type |-> m.type, payload |-> Append(m.payload, i)] \in DataMessages
<1>1. m.type \in DataOps /\ m.payload \in Seq(Nat)
  BY DEF DataMessages
<1>2. Append(m.payload, i) \in Seq(Nat)
  BY <1>1
<1> QED
  BY <1>1, <1>2 DEF DataMessages

LEMMA PeerStep == OpenedInv /\ Peer => OpenedInv'
<1> SUFFICES ASSUME OpenedInv, Peer PROVE OpenedInv'
  OBVIOUS
<1>1. CASE PeerBegins
  <2>1. PICK op \in DataOps, fin \in BOOLEAN :
          PeerSendsPart([type |-> op, payload |-> <<Len(log) + 1>>], op, fin)
    BY <1>1 DEF PeerBegins
  <2>2. [type |-> op, payload |-> <<Len(log) + 1>>] \in DataMessages
    BY DEF DataMessages, OpenedInv, FramesTypeOK
  <2>3. FramesTypeOK'
    BY <2>1, <2>2, FrameTyped DEF OpenedInv, DataOps
  <2> QED
    BY <2>1, <2>3 DEF OpenedInv, FrameWhole, PeerSendsPart, PeerSendsFrame, bytes
<1>2. CASE PeerContinues
  <2>1. PICK fin \in BOOLEAN :
          PeerSendsPart([type |-> begun.type, payload |-> Append(begun.payload, Len(log) + 1)],
                        "cont", fin)
    BY <1>2 DEF PeerContinues
  <2>2. begun \in DataMessages
    BY <1>2 DEF PeerContinues, OpenedInv, FramesTypeOK
  <2>3. [type |-> begun.type, payload |-> Append(begun.payload, Len(log) + 1)] \in DataMessages
    <3>1. Len(log) + 1 \in Nat
      BY DEF OpenedInv, FramesTypeOK
    <3> QED
      BY <2>2, <3>1, LongerMessage
  <2>4. FramesTypeOK'
    BY <2>1, <2>3, FrameTyped DEF OpenedInv
  <2> QED
    BY <2>1, <2>4 DEF OpenedInv, FrameWhole, PeerSendsPart, PeerSendsFrame, bytes
<1>3. CASE PeerControls
  BY <1>3 DEF PeerControls, PeerSendsFrame, OpenedInv, FramesTypeOK, FrameWhole, Frames, DataOps,
              bytes, conn
<1>4. CASE PeerHangsUp
  BY <1>4 DEF PeerHangsUp, OpenedInv, FramesTypeOK, FrameWhole, bytes, conn
<1> QED
  BY <1>1, <1>2, <1>3, <1>4 DEF Peer

(* The message that a frame completes. *)
LEMMA DeliverTyped ==
    ASSUME FramesTypeOK, NEW m \in DataMessages, Deliver(m)
    PROVE  /\ delivered' \in Seq(DataMessages)
           /\ requestClose' \in BOOLEAN /\ controls' \in Seq({"pong", "close"})
           /\ stage' \in {"loop", "ended"}
<1>1. /\ delivered \in Seq(DataMessages) /\ controls \in Seq({"pong", "close"})
      /\ requestClose \in BOOLEAN
  BY DEF FramesTypeOK
<1>2. delivered' = Append(delivered, m)
  BY DEF Deliver
<1>3. delivered' \in Seq(DataMessages)
  BY <1>1, <1>2
<1>4. Append(controls, "close") \in Seq({"pong", "close"})
  BY <1>1
<1> QED
  BY <1>1, <1>3, <1>4 DEF Deliver, Continue, CloseAndEnd

LEMMA ReaderStep == OpenedInv /\ FrameReader => OpenedInv'
<1> SUFFICES ASSUME OpenedInv, FrameReader PROVE OpenedInv'
  OBVIOUS
<1> USE DEF OpenedInv, FrameWhole
<1>1. CASE DataReady \/ LoopAgain \/ LoopEnds \/ ReadNothing
  BY <1>1 DEF DataReady, LoopAgain, LoopEnds, ReadNothing, FramesTypeOK, peer, bytes, conn
<1>2. CASE Read
  BY <1>2 DEF Read, FramesTypeOK, peer, conn
<1>3. ASSUME Process
      PROVE  /\ done + 1 \in DOMAIN log /\ First \in Frames /\ done + 1 \in Nat
             /\ done' \in 0 .. read' /\ read' \in 0 .. Len(log')
             /\ partial' \in BOOLEAN /\ (partial' => read' < Len(log'))
             /\ UNCHANGED <<log, begun, hungUp, completed, closing>>
  BY <1>3 DEF Process, Commit, First, FramesTypeOK, peer
<1>4. CASE WholeMessage
  <2>1. [type |-> First.op, payload |-> <<done + 1>>] \in DataMessages
    BY <1>3, <1>4 DEF WholeMessage, DataMessages
  <2> QED
    BY <1>3, <1>4, <2>1, DeliverTyped DEF WholeMessage, FramesTypeOK
<1>5. CASE FirstFragment
  BY <1>3, <1>5 DEF FirstFragment, Continue, FramesTypeOK, FragmentTypes
<1>6. CASE Fragment
  <2> DEFINE fragments == Append(fragmentBuffer, done + 1)
  <2>1. fragments \in Seq(Nat)
    BY <1>3, <1>6 DEF Fragment, FramesTypeOK
  <2>2. CASE First.fin
    <3>1. [type |-> IF fragmentedMsgType = "binary" THEN "binary" ELSE "text",
           payload |-> fragments] \in DataMessages
      BY <2>1 DEF DataMessages, DataOps
    <3>2. FramesTypeOK'
      BY <1>3, <1>6, <2>2, <3>1, DeliverTyped DEF Fragment, FramesTypeOK, FragmentTypes
    <3> QED
      BY <1>3, <1>6, <2>2, <3>1, <3>2, DeliverTyped DEF Fragment
  <2>3. CASE ~First.fin
    BY <1>3, <1>6, <2>1, <2>3 DEF Fragment, FramesTypeOK, Continue
  <2> QED
    BY <2>2, <2>3
<1>7. CASE Ping
  BY <1>3, <1>7 DEF Ping, Continue, FramesTypeOK, conn
<1>8. CASE Pong
  BY <1>3, <1>8 DEF Pong, Continue, FramesTypeOK, conn
<1>9. CASE Close
  BY <1>3, <1>9 DEF Close, CloseAndEnd, FramesTypeOK
<1> QED
  BY <1>1, <1>2, <1>4, <1>5, <1>6, <1>7, <1>8, <1>9 DEF FrameReader

LEMMA OpenedStep == OpenedInv /\ [FramesNext]_frameVars => OpenedInv'
<1> SUFFICES ASSUME OpenedInv, [FramesNext]_frameVars PROVE OpenedInv'
  OBVIOUS
<1>1. CASE OthersClose
  BY <1>1 DEF OthersClose, OpenedInv, FramesTypeOK, FrameWhole, peer, bytes
<1>2. CASE OthersCloseWrites
  <2>1. Append(controls, "close") \in Seq({"pong", "close"})
    BY DEF OpenedInv, FramesTypeOK
  <2> QED
    BY <1>2, <2>1 DEF OthersCloseWrites, OpenedInv, FramesTypeOK, FrameWhole, peer, bytes, conn
<1>3. CASE UNCHANGED frameVars
  BY <1>3 DEF frameVars, OpenedInv, FramesTypeOK, FrameWhole, peer, bytes, conn
<1> QED
  BY <1>1, <1>2, <1>3, PeerStep, ReaderStep DEF FramesNext

LEMMA InitOpened == FramesInit => OpenedInv
<1> SUFFICES ASSUME FramesInit PROVE OpenedInv
  OBVIOUS
<1>1. log \in Seq(Frames) /\ Len(log) = 0 /\ fragmentBuffer \in Seq(Nat)
  BY DEF FramesInit
<1>2. /\ completed \in Seq(DataMessages) /\ delivered \in Seq(DataMessages)
      /\ controls \in Seq({"pong", "close"})
  BY DEF FramesInit
<1>3. begun \in DataMessages \cup {None}
  BY DEF FramesInit
<1>4. /\ done = 0 /\ read = 0 /\ partial = FALSE /\ hungUp = FALSE
      /\ requestClose = FALSE /\ closing = FALSE /\ stage = "parked"
      /\ fragmentedMsgType \in {"none", "garbage"}
  BY DEF FramesInit
<1>5. done \in 0 .. read /\ read \in 0 .. Len(log)
  <2>1. done = 0 /\ read = 0 /\ Len(log) = 0
    BY <1>1, <1>4
  <2> QED
    BY ONLY <2>1, SMT
<1>6. partial \in BOOLEAN /\ (partial => read < Len(log))
  BY <1>4
<1> QED
  BY <1>1, <1>2, <1>3, <1>4, <1>5, <1>6 DEF OpenedInv, FramesTypeOK, FrameWhole, FragmentTypes

(* The types of the connection and of its history, for any peer.           *)
THEOREM FramesTypeCorrect == FramesSpec => []FramesTypeOK
<1>1. OpenedInv => FramesTypeOK
  BY DEF OpenedInv
<1> QED
  BY <1>1, InitOpened, OpenedStep, PTL DEF FramesSpec

-----------------------------------------------------------------------------
(* A close frame has been written. *)
Announced == \E i \in DOMAIN controls : controls[i] = "close"

(* Why a connection that ends says so: requestClose is set only by         *)
(* closeConnection, which also writes the frame, and a thread reads only   *)
(* when there is something to read, or nobody to read from.                *)
Announces ==
    /\ requestClose => closing \/ Announced
    /\ stage = "read" => read < Len(log) \/ hungUp
    /\ EndAnnounced

ClosingInv == OpenedInv /\ Announces

(* What is written stays written. *)
LEMMA RepliesGrow ==
    ASSUME FramesTypeOK, NEW r \in {"pong", "close"}, controls' = Append(controls, r)
    PROVE  (Announced \/ r = "close") => Announced'
<1>1. /\ Len(controls') = Len(controls) + 1 /\ controls'[Len(controls) + 1] = r
      /\ \A i \in 1 .. Len(controls) : controls'[i] = controls[i]
      /\ DOMAIN controls' = 1 .. Len(controls) + 1 /\ DOMAIN controls = 1 .. Len(controls)
      /\ Len(controls) \in Nat
  BY DEF FramesTypeOK
<1>2. CASE Announced
  BY <1>1, <1>2 DEF Announced
<1>3. CASE r = "close"
  BY <1>1, <1>3 DEF Announced
<1> QED
  BY <1>2, <1>3

(* Closing from this side writes a close frame. *)
LEMMA CloseWrites ==
    ASSUME FramesTypeOK, controls' = Append(controls, "close")
    PROVE  Announced'
  BY RepliesGrow

LEMMA ClosingStep == ClosingInv /\ [FramesNext]_frameVars => ClosingInv'
<1> SUFFICES ASSUME ClosingInv, [FramesNext]_frameVars PROVE Announces'
  BY OpenedStep DEF ClosingInv
<1>0. /\ FramesTypeOK /\ (requestClose => closing \/ Announced)
      /\ (stage = "read" => read < Len(log) \/ hungUp)
      /\ (stage = "ended" => hungUp \/ closing \/ Announced)
  BY DEF ClosingInv, OpenedInv, Announces, EndAnnounced, Announced
<1>1. SUFFICES /\ requestClose' => closing' \/ Announced'
               /\ stage' = "read" => read' < Len(log') \/ hungUp'
               /\ stage' = "ended" => hungUp' \/ closing' \/ Announced'
  BY DEF Announces, EndAnnounced, Announced
<1>2. CASE Peer
  <2>1. /\ (hungUp => hungUp') /\ UNCHANGED <<stage, read, controls, requestClose, closing>>
    BY <1>2 DEF Peer, PeerBegins, PeerContinues, PeerControls, PeerHangsUp,
                PeerSendsPart, PeerSendsFrame, bytes, conn
  <2>2. Len(log') >= Len(log) /\ Len(log) \in Nat /\ Len(log') \in Nat /\ read \in Nat
    <3>1. log \in Seq(Frames) /\ read \in Nat
      BY <1>0 DEF FramesTypeOK
    <3>2. log' = log \/ \E f : log' = Append(log, f)
      BY <1>2 DEF Peer, PeerBegins, PeerContinues, PeerControls, PeerHangsUp,
                  PeerSendsPart, PeerSendsFrame
    <3>3. ASSUME NEW f, log' = Append(log, f)
          PROVE  Len(log') = Len(log) + 1
      BY <3>1, <3>3
    <3> QED
      BY <3>1, <3>2, <3>3
  <2>3. Announced => Announced'
    BY <2>1 DEF Announced
  <2> QED
    BY <1>0, <2>1, <2>2, <2>3
<1>3. CASE DataReady \/ LoopAgain \/ LoopEnds
  BY <1>0, <1>3 DEF DataReady, LoopAgain, LoopEnds, Arrived, Announced, peer, bytes, conn
<1>4. CASE Read
  BY <1>0, <1>4 DEF Read, Announced, peer, conn
<1>5. CASE ReadNothing
  BY <1>0, <1>5 DEF ReadNothing, Arrived, Announced, peer, bytes, conn
<1>6. ASSUME NEW m, Process, Deliver(m)
      PROVE  /\ (requestClose' => closing' \/ Announced') /\ stage' # "read"
             /\ (stage' = "ended" => closing' \/ Announced')
  <2>1. CASE Continue /\ UNCHANGED <<requestClose, controls>>
    BY <1>0, <1>6, <2>1 DEF Continue, Process, Announced
  <2>2. CASE CloseAndEnd
    BY <1>0, <2>2, CloseWrites DEF CloseAndEnd
  <2> QED
    BY <1>6, <2>1, <2>2 DEF Deliver
<1>7. CASE WholeMessage
  BY <1>6, <1>7 DEF WholeMessage
<1>8. CASE FirstFragment \/ Pong
  BY <1>0, <1>8 DEF FirstFragment, Pong, Process, Continue, Announced, conn
<1>9. CASE Fragment
  <2>1. CASE First.fin
    BY <1>6, <1>9, <2>1 DEF Fragment
  <2>2. CASE ~First.fin
    BY <1>0, <1>9, <2>2 DEF Fragment, Process, Continue, Announced
  <2> QED
    BY <2>1, <2>2
<1>10. CASE Ping
  <2>1. Announced => Announced'
    BY <1>0, <1>10, RepliesGrow DEF Ping
  <2> QED
    BY <1>0, <1>10, <2>1 DEF Ping, Process, Continue, conn
<1>11. CASE Close
  BY <1>0, <1>11, CloseWrites DEF Close, CloseAndEnd
<1>12. CASE OthersClose
  BY <1>0, <1>12 DEF OthersClose, peer, bytes
<1>13. CASE OthersCloseWrites
  BY <1>0, <1>13, CloseWrites DEF OthersCloseWrites, peer, bytes, conn
<1>14. CASE UNCHANGED frameVars
  BY <1>0, <1>14 DEF frameVars, peer, bytes, conn, Announced
<1> QED
  BY <1>2, <1>3, <1>4, <1>5, <1>7, <1>8, <1>9, <1>10, <1>11, <1>12, <1>13, <1>14
     DEF FramesNext, FrameReader

(* This side ends a connection only when it has written a close frame,     *)
(* when another thread is about to, or when the peer has hung up: whoever  *)
(* closes, and whenever (AbstractWebSocketConnection::closeConnection).    *)
THEOREM EndIsAnnounced == FramesSpec => []EndAnnounced
<1>1. FramesInit => ClosingInv
  BY InitOpened DEF FramesInit, ClosingInv, Announces, EndAnnounced
<1>2. ClosingInv => EndAnnounced
  BY DEF ClosingInv, Announces
<1> QED
  BY <1>1, <1>2, ClosingStep, PTL DEF FramesSpec

(* Once this side has begun to close, a message that is still handed to    *)
(* the user is the last thing that happens.                                *)
THEOREM LastAfterClose == FramesSpec => NothingAfterClose
<1>1. [FramesNext]_frameVars => [requestClose /\ delivered' # delivered => stage' = "ended"]_frameVars
  <2> SUFFICES ASSUME FramesNext, requestClose, delivered' # delivered PROVE stage' = "ended"
    OBVIOUS
  <2>1. ~Peer /\ ~OthersClose /\ ~OthersCloseWrites
    BY DEF Peer, PeerBegins, PeerContinues, PeerControls, PeerHangsUp, PeerSendsPart,
           PeerSendsFrame, OthersClose, OthersCloseWrites
  <2>2. ASSUME NEW m, Deliver(m) PROVE stage' = "ended"
    BY <2>2 DEF Deliver, Continue, CloseAndEnd
  <2>3. WholeMessage \/ Fragment
    BY <2>1 DEF FramesNext, FrameReader, DataReady, LoopAgain, LoopEnds, Read, ReadNothing,
                FirstFragment, Ping, Pong, Close
  <2> QED
    BY <2>2, <2>3 DEF WholeMessage, Fragment
<1> QED
  BY <1>1, PTL DEF FramesSpec, NothingAfterClose

-----------------------------------------------------------------------------
(* How the frames of a log make up messages: with m begun and k messages   *)
(* complete before frame i, there are m2 and k2 after it.                  *)
Part(s, fin, p, k, k2, m2) ==
    IF fin THEN k2 = k + 1 /\ s[k + 1] = p /\ m2 = None
    ELSE k2 = k /\ m2 = p

SendsMessage(l, s, i, k, m, k2, m2) ==
    \/ /\ l[i].op \in DataOps /\ m = None
       /\ Part(s, l[i].fin, [type |-> l[i].op, payload |-> <<i>>], k, k2, m2)
    \/ /\ l[i].op = "cont" /\ m # None
       /\ Part(s, l[i].fin, [type |-> m.type, payload |-> Append(m.payload, i)], k, k2, m2)
    \/ l[i].op \in {"ping", "pong", "close", "other"} /\ k2 = k /\ m2 = m

(* n[i] messages are complete and b[i] is begun after the first i frames.  *)
History(n, b) ==
    /\ n \in [0 .. Len(log) -> 0 .. Len(completed)]
    /\ b \in [0 .. Len(log) -> DataMessages \cup {None}]
    /\ n[0] = 0 /\ b[0] = None
    /\ n[Len(log)] = Len(completed) /\ b[Len(log)] = begun
    /\ \A i \in 1 .. Len(log) : SendsMessage(log, completed, i, n[i - 1], b[i - 1], n[i], b[i])

(* The reader is where the frames that it has processed say.               *)
Follows(n, b) ==
    stage # "ended" =>
      /\ Len(delivered) = n[done]
      /\ b[done] # None =>
           fragmentedMsgType = b[done].type /\ fragmentBuffer = b[done].payload

Parsed == \E n, b : History(n, b) /\ Follows(n, b)

(* One frame more makes the history longer. *)
LEMMA HistoryGrows ==
    ASSUME OpenedInv, NEW n, NEW b, History(n, b), Follows(n, b),
           NEW f, log' = Append(log, f),
           completed' \in Seq(DataMessages), begun' \in DataMessages \cup {None},
           Len(completed) <= Len(completed'), \A j \in 1 .. Len(completed) : completed'[j] = completed[j],
           SendsMessage(log', completed', Len(log) + 1, Len(completed), begun, Len(completed'), begun'),
           UNCHANGED <<done, stage, delivered, fragmentedMsgType, fragmentBuffer>>
    PROVE  Parsed'
<1>1. /\ Len(log) \in Nat /\ Len(log') = Len(log) + 1
      /\ \A i \in 1 .. Len(log) : log'[i] = log[i]
      /\ Len(completed) \in Nat /\ Len(completed') \in Nat /\ done \in 0 .. Len(log)
  BY DEF OpenedInv, FramesTypeOK
<1>2. PICK n2 : n2 = [i \in 0 .. Len(log) + 1 |-> IF i <= Len(log) THEN n[i] ELSE Len(completed')]
  OBVIOUS
<1>3. PICK b2 : b2 = [i \in 0 .. Len(log) + 1 |-> IF i <= Len(log) THEN b[i] ELSE begun']
  OBVIOUS
<1>4. /\ \A i \in 0 .. Len(log) : n2[i] = n[i] /\ b2[i] = b[i] /\ n[i] \in 0 .. Len(completed)
      /\ n2[Len(log) + 1] = Len(completed') /\ b2[Len(log) + 1] = begun'
  <2>1. /\ \A i \in 0 .. Len(log) : i \in 0 .. Len(log) + 1 /\ i <= Len(log)
        /\ Len(log) + 1 \in 0 .. Len(log) + 1 /\ ~(Len(log) + 1 <= Len(log))
    BY <1>1
  <2>2. \A i \in 0 .. Len(log) : n[i] \in 0 .. Len(completed)
    BY DEF History
  <2>3. \A i \in 0 .. Len(log) : n2[i] = n[i] /\ b2[i] = b[i]
    BY <1>2, <1>3, <2>1
  <2>4. n2[Len(log) + 1] = Len(completed') /\ b2[Len(log) + 1] = begun'
    BY <1>2, <1>3, <2>1
  <2> QED
    BY <2>2, <2>3, <2>4
<1>5. n2 \in [0 .. Len(log) + 1 -> 0 .. Len(completed')]
  <2>1. \A i \in 0 .. Len(log) : n[i] \in 0 .. Len(completed')
    BY <1>1, <1>4
  <2>2. \A i \in 0 .. Len(log) + 1 :
          (IF i <= Len(log) THEN n[i] ELSE Len(completed')) \in 0 .. Len(completed')
    BY <1>1, <2>1
  <2> QED
    BY <1>2, <2>2
<1>6. b2 \in [0 .. Len(log) + 1 -> DataMessages \cup {None}]
  BY <1>1, <1>3 DEF History
<1>7. ASSUME NEW i \in 1 .. Len(log) + 1
      PROVE  SendsMessage(log', completed', i, n2[i - 1], b2[i - 1], n2[i], b2[i])
  <2>1. CASE i = Len(log) + 1
    <3>1. n2[i - 1] = Len(completed) /\ b2[i - 1] = begun
      BY <1>1, <1>4, <2>1 DEF History
    <3> QED
      BY <1>4, <2>1, <3>1
  <2>2. CASE i \in 1 .. Len(log)
    <3>1. i - 1 \in 0 .. Len(log) /\ i \in 0 .. Len(log)
      BY <1>1, <2>2
    <3>2. SendsMessage(log, completed, i, n[i - 1], b[i - 1], n[i], b[i])
      BY <2>2 DEF History
    <3>3. SendsMessage(log', completed', i, n[i - 1], b[i - 1], n[i], b[i])
      <4>1. n[i - 1] \in Nat /\ n[i] \in Nat /\ n[i] <= Len(completed)
        BY <1>1, <1>4, <3>1
      <4>2. i \in Nat /\ log'[i] = log[i]
        BY <1>1, <2>2
      <4>3. \A j \in 1 .. n[i] : completed'[j] = completed[j]
        BY <1>1, <4>1
      <4>4. ASSUME NEW fin, NEW p, Part(completed, fin, p, n[i - 1], n[i], b[i])
            PROVE  Part(completed', fin, p, n[i - 1], n[i], b[i])
        BY <4>1, <4>3, <4>4 DEF Part
      <4> QED
        BY <3>2, <4>2, <4>4 DEF SendsMessage
    <3> QED
      BY <1>4, <3>1, <3>3
  <2> QED
    BY <1>1, <2>1, <2>2
<1>8. History(n2, b2)'
  BY <1>1, <1>4, <1>5, <1>6, <1>7 DEF History
<1>9. Follows(n2, b2)'
  BY <1>1, <1>4 DEF Follows
<1> QED
  BY <1>8, <1>9 DEF Parsed

LEMMA PeerParsed ==
    ASSUME OpenedInv, Parsed, Peer
    PROVE  Parsed' /\ [Channel!Next]_<<completed, delivered>>
<1>1. PICK n, b : History(n, b) /\ Follows(n, b)
  BY DEF Parsed
<1>2. completed \in Seq(DataMessages) /\ Len(completed) \in Nat /\ Len(log) \in Nat /\ log \in Seq(Frames)
  BY DEF OpenedInv, FramesTypeOK
<1>3. completed' \in Seq(DataMessages) /\ begun' \in DataMessages \cup {None}
  BY PeerStep DEF OpenedInv, FramesTypeOK
<1>4. ASSUME NEW op, NEW fin, PeerSendsFrame(op, fin)
      PROVE  /\ log' = Append(log, [op |-> op, fin |-> fin])
             /\ log'[Len(log) + 1].op = op /\ log'[Len(log) + 1].fin = fin
             /\ UNCHANGED <<done, stage, delivered, fragmentedMsgType, fragmentBuffer>>
  BY <1>2, <1>4 DEF PeerSendsFrame, bytes, conn
<1>5. ASSUME NEW op, NEW fin, PeerSendsFrame(op, fin),
              Len(completed) <= Len(completed'), \A j \in 1 .. Len(completed) : completed'[j] = completed[j],
              SendsMessage(log', completed', Len(log) + 1, Len(completed), begun, Len(completed'), begun')
       PROVE  Parsed'
  <2>1. PICK f : log' = Append(log, f)
    BY <1>4, <1>5
  <2>2. UNCHANGED <<done, stage, delivered, fragmentedMsgType, fragmentBuffer>>
    BY <1>4, <1>5
  <2> QED
    BY <1>1, <1>3, <1>5, <2>1, <2>2, HistoryGrows
<1>6. ASSUME NEW m, NEW op, NEW fin \in BOOLEAN, PeerSendsPart(m, op, fin),
             \/ op \in DataOps /\ begun = None /\ m = [type |-> op, payload |-> <<Len(log) + 1>>]
             \/ /\ op = "cont" /\ begun # None
                /\ m = [type |-> begun.type, payload |-> Append(begun.payload, Len(log) + 1)],
             m \in DataMessages
      PROVE  Parsed' /\ [Channel!Next]_<<completed, delivered>>
  <2>1. PeerSendsFrame(op, fin)
    BY <1>6 DEF PeerSendsPart
  <2>2. CASE fin
    <3>1. completed' = Append(completed, m) /\ begun' = None
      BY <1>6, <2>2 DEF PeerSendsPart
    <3>2. /\ Len(completed') = Len(completed) + 1 /\ completed'[Len(completed) + 1] = m
          /\ \A j \in 1 .. Len(completed) : completed'[j] = completed[j]
      BY <1>2, <1>6, <3>1
    <3>3. Part(completed', fin, m, Len(completed), Len(completed'), begun')
      BY <2>2, <3>1, <3>2 DEF Part
    <3>4. SendsMessage(log', completed', Len(log) + 1, Len(completed), begun, Len(completed'), begun')
      BY <1>4, <1>6, <2>1, <3>3 DEF SendsMessage
    <3>5. Parsed'
      BY <1>2, <1>5, <2>1, <3>2, <3>4
    <3>6. Channel!Send
      BY <1>4, <1>6, <2>1, <3>1, <3>2 DEF Channel!Send
    <3> QED
      BY <3>5, <3>6 DEF Channel!Next
  <2>3. CASE ~fin
    <3>1. completed' = completed /\ begun' = m
      BY <1>6, <2>3 DEF PeerSendsPart
    <3>2. Part(completed', fin, m, Len(completed), Len(completed'), begun')
      BY <2>3, <3>1 DEF Part
    <3>3. SendsMessage(log', completed', Len(log) + 1, Len(completed), begun, Len(completed'), begun')
      BY <1>4, <1>6, <2>1, <3>2 DEF SendsMessage
    <3>4. Parsed'
      BY <1>2, <1>5, <2>1, <3>1, <3>3
    <3> QED
      BY <1>4, <2>1, <3>1, <3>4
  <2> QED
    BY <1>6, <2>2, <2>3
<1>7. CASE PeerBegins
  <2>1. PICK op \in DataOps, fin \in BOOLEAN :
          PeerSendsPart([type |-> op, payload |-> <<Len(log) + 1>>], op, fin)
    BY <1>7 DEF PeerBegins
  <2>2. [type |-> op, payload |-> <<Len(log) + 1>>] \in DataMessages
    BY <1>2 DEF DataMessages
  <2> QED
    BY <1>6, <1>7, <2>1, <2>2 DEF PeerBegins
<1>8. CASE PeerContinues
  <2>1. PICK fin \in BOOLEAN :
          PeerSendsPart([type |-> begun.type, payload |-> Append(begun.payload, Len(log) + 1)],
                        "cont", fin)
    BY <1>8 DEF PeerContinues
  <2>2. begun \in DataMessages
    BY <1>8 DEF PeerContinues, OpenedInv, FramesTypeOK
  <2>3. [type |-> begun.type, payload |-> Append(begun.payload, Len(log) + 1)] \in DataMessages
    BY <1>2, <2>2, LongerMessage
  <2> QED
    BY <1>6, <1>8, <2>1, <2>3 DEF PeerContinues
<1>9. CASE PeerControls
  <2>1. PICK op \in {"ping", "pong", "close", "other"} : PeerSendsFrame(op, TRUE)
    BY <1>9 DEF PeerControls
  <2>2. UNCHANGED <<begun, completed>>
    BY <1>9 DEF PeerControls
  <2>3. SendsMessage(log', completed', Len(log) + 1, Len(completed), begun, Len(completed'), begun')
    BY <1>4, <2>1, <2>2 DEF SendsMessage
  <2>4. Parsed'
    <3>1. Len(completed) <= Len(completed') /\ \A j \in 1 .. Len(completed) : completed'[j] = completed[j]
      BY <1>2, <2>2
    <3> QED
      BY <1>5, <2>1, <2>3, <3>1
  <2> QED
    BY <1>4, <2>1, <2>2, <2>4
<1>10. CASE PeerHangsUp
  <2>1. UNCHANGED <<log, begun, completed, done, stage, delivered, fragmentedMsgType, fragmentBuffer>>
    BY <1>10 DEF PeerHangsUp, bytes, conn
  <2>2. History(n, b)' /\ Follows(n, b)'
    BY <1>1, <2>1 DEF History, Follows
  <2> QED
    BY <2>1, <2>2 DEF Parsed
<1> QED
  BY <1>7, <1>8, <1>9, <1>10 DEF Peer

(* A step of the reader that delivers, delivers what is next. *)
LEMMA ReaderParsed ==
    ASSUME OpenedInv, Parsed, FrameReader
    PROVE  Parsed' /\ [Channel!Next]_<<completed, delivered>>
<1>1. PICK n, b : History(n, b) /\ Follows(n, b)
  BY DEF Parsed
<1>2. SUFFICES /\ UNCHANGED <<log, completed, begun>>
               /\ Follows(n, b)'
               /\ Channel!Deliver \/ UNCHANGED delivered
  <2>1. History(n, b)'
    BY <1>1, <1>2 DEF History
  <2> QED
    BY <1>2, <2>1 DEF Parsed, Channel!Next
<1>3. CASE DataReady \/ LoopAgain \/ LoopEnds \/ Read \/ ReadNothing
  <2>1. stage # "ended" /\ UNCHANGED <<log, completed, begun, done, delivered, fragmentedMsgType, fragmentBuffer>>
    BY <1>3 DEF DataReady, LoopAgain, LoopEnds, Read, ReadNothing, peer, bytes, conn
  <2> QED
    BY <1>1, <2>1 DEF Follows
<1>4. ASSUME Process
      PROVE  /\ done + 1 \in 1 .. Len(log) /\ done' = done + 1
             /\ UNCHANGED <<log, completed, begun>>
             /\ n[done] \in Nat /\ n[done + 1] \in 0 .. Len(completed) /\ Len(completed) \in Nat
             /\ delivered \in Seq(DataMessages)
             /\ b[done] \in DataMessages \cup {None}
             /\ Len(delivered) = n[done]
             /\ b[done] # None =>
                  fragmentedMsgType = b[done].type /\ fragmentBuffer = b[done].payload
  <2>1. done \in 0 .. Len(log) /\ done + 1 \in 1 .. Len(log) /\ done + 1 \in 0 .. Len(log)
    BY <1>4 DEF Process, OpenedInv, FramesTypeOK, FrameWhole
  <2>2. n[done] \in 0 .. Len(completed) /\ n[done + 1] \in 0 .. Len(completed) /\ b[done] \in DataMessages \cup {None}
    BY <1>1, <2>1 DEF History
  <2>3. Len(completed) \in Nat /\ delivered \in Seq(DataMessages)
    BY DEF OpenedInv, FramesTypeOK
  <2> QED
    BY <1>1, <1>4, <2>1, <2>2, <2>3 DEF Process, Commit, peer, Follows
<1>5. ASSUME Process
      PROVE  SendsMessage(log, completed, done + 1, n[done], b[done], n[done + 1], b[done + 1])
  <2>1. done + 1 \in 1 .. Len(log) /\ (done + 1) - 1 = done
    BY <1>4, <1>5 DEF OpenedInv, FramesTypeOK
  <2>2. SendsMessage(log, completed, done + 1, n[(done + 1) - 1], b[(done + 1) - 1], n[done + 1], b[done + 1])
    BY <1>1, <2>1 DEF History
  <2> QED
    BY <2>1, <2>2
(* The three kinds of frames. *)
<1>6. ASSUME Process, First.op \in DataOps
      PROVE  Part(completed, First.fin, [type |-> First.op, payload |-> <<done + 1>>],
                  n[done], n[done + 1], b[done + 1])
  BY <1>5, <1>6 DEF SendsMessage, First, DataOps
<1>7. ASSUME Process, First.op = "cont"
      PROVE  /\ b[done] # None
             /\ Part(completed, First.fin,
                     [type |-> b[done].type, payload |-> Append(b[done].payload, done + 1)],
                     n[done], n[done + 1], b[done + 1])
  BY <1>5, <1>7 DEF SendsMessage, First, DataOps
<1>8. ASSUME Process, First.op \in {"ping", "pong", "close", "other"}
      PROVE  n[done + 1] = n[done] /\ b[done + 1] = b[done]
  BY <1>5, <1>8 DEF SendsMessage, First, DataOps
(* A message that is complete. *)
<1>9. ASSUME NEW p, Process, Deliver(p),
             Part(completed, TRUE, p, n[done], n[done + 1], b[done + 1])
      PROVE  Follows(n, b)' /\ Channel!Deliver
  <2>1. /\ delivered' = Append(delivered, p) /\ n[done + 1] = n[done] + 1
        /\ completed[n[done] + 1] = p /\ b[done + 1] = None
    BY <1>9 DEF Deliver, Part
  <2>2. Len(delivered') = Len(delivered) + 1
    BY <1>4, <1>9, <2>1
  <2>3. Follows(n, b)'
    BY <1>4, <1>9, <2>1, <2>2 DEF Follows
  <2>4. Channel!Deliver
    BY <1>4, <1>9, <2>1 DEF Channel!Deliver
  <2> QED
    BY <2>3, <2>4
<1>10. CASE WholeMessage
  <2> DEFINE p == [type |-> First.op, payload |-> <<done + 1>>]
  <2>1. Process /\ First.op \in DataOps /\ First.fin /\ Deliver(p)
    BY <1>10 DEF WholeMessage
  <2>2. Part(completed, TRUE, p, n[done], n[done + 1], b[done + 1])
    BY <1>6, <2>1 DEF Part
  <2> QED
    BY <1>4, <1>9, <2>1, <2>2
<1>11. CASE FirstFragment
  <2>1. /\ Process /\ First.op \in DataOps /\ ~First.fin /\ UNCHANGED delivered
        /\ fragmentedMsgType' = First.op /\ fragmentBuffer' = <<done + 1>>
    BY <1>11 DEF FirstFragment
  <2>2. n[done + 1] = n[done] /\ b[done + 1] = [type |-> First.op, payload |-> <<done + 1>>]
    BY <1>6, <2>1 DEF Part
  <2> QED
    BY <1>4, <2>1, <2>2 DEF Follows
<1>12. CASE Fragment
  <2> DEFINE p == [type |-> b[done].type, payload |-> Append(b[done].payload, done + 1)]
  <2>1. /\ Process /\ First.op = "cont" /\ b[done] \in DataMessages
        /\ fragmentedMsgType = b[done].type /\ fragmentBuffer = b[done].payload
    BY <1>4, <1>7, <1>12 DEF Fragment
  <2>2. Part(completed, First.fin, p, n[done], n[done + 1], b[done + 1])
    BY <1>7, <2>1
  <2>3. b[done].type \in DataOps
    BY <2>1 DEF DataMessages
  <2>4. CASE First.fin
    <3>1. (IF fragmentedMsgType = "binary" THEN "binary" ELSE "text") = b[done].type
      BY <2>1, <2>3 DEF DataOps
    <3>2. Deliver(p)
      BY <1>12, <2>1, <2>4, <3>1 DEF Fragment
    <3>3. Part(completed, TRUE, p, n[done], n[done + 1], b[done + 1])
      BY <2>2, <2>4 DEF Part
    <3> QED
      BY <1>4, <1>9, <2>1, <3>2, <3>3
  <2>5. CASE ~First.fin
    <3>1. /\ fragmentBuffer' = Append(b[done].payload, done + 1)
          /\ fragmentedMsgType' = b[done].type /\ UNCHANGED delivered
      BY <1>12, <2>1, <2>5 DEF Fragment
    <3>2. n[done + 1] = n[done] /\ b[done + 1] = p
      BY <2>2, <2>5 DEF Part
    <3> QED
      BY <1>4, <2>1, <3>1, <3>2 DEF Follows
  <2> QED
    BY <2>4, <2>5
<1>13. CASE Ping \/ Pong \/ Close
  <2>1. /\ Process /\ First.op \in {"ping", "pong", "close", "other"}
        /\ UNCHANGED <<delivered, fragmentedMsgType, fragmentBuffer>>
    BY <1>13 DEF Ping, Pong, Close, conn
  <2> QED
    BY <1>4, <1>8, <2>1 DEF Follows
<1> QED
  BY <1>3, <1>10, <1>11, <1>12, <1>13 DEF FrameReader

(* Whatever the peer sends within the rules of fragmentation, and however  *)
(* its frames are cut into reads and mixed with control frames, the user   *)
(* is handed the messages that were sent: whole, in order, once and with   *)
(* their type (deliverPayload).                                            *)
THEOREM ImplementsChannel == FramesSpec => InOrder
<1>1. FramesInit => OpenedInv /\ Parsed /\ Channel!Init
  <2> SUFFICES ASSUME FramesInit PROVE Parsed /\ Channel!Init
    BY InitOpened
  <2>1. /\ Len(log) = 0 /\ Len(completed) = 0 /\ Len(delivered) = 0 /\ begun = None /\ done = 0
        /\ completed = <<>> /\ delivered = <<>>
    BY DEF FramesInit
  <2>2. PICK n, b : n = [i \in 0 .. 0 |-> 0] /\ b = [i \in 0 .. 0 |-> None]
    OBVIOUS
  <2>3. n[0] = 0 /\ b[0] = None
    BY <2>2
  <2>4. n \in [0 .. 0 -> 0 .. 0] /\ b \in [0 .. 0 -> DataMessages \cup {None}]
    BY <2>2
  <2>5. History(n, b)
    BY <2>1, <2>3, <2>4 DEF History
  <2>6. Follows(n, b)
    BY <2>1, <2>3 DEF Follows
  <2> QED
    BY <2>1, <2>5, <2>6 DEF Parsed, Channel!Init
<1>2. ASSUME OpenedInv, Parsed, [FramesNext]_frameVars
      PROVE  OpenedInv' /\ Parsed' /\ [Channel!Next]_<<completed, delivered>>
  <2>1. CASE Peer \/ FrameReader
    BY <1>2, <2>1, OpenedStep, PeerParsed, ReaderParsed
  <2>2. CASE OthersClose \/ OthersCloseWrites \/ UNCHANGED frameVars
    <3>1. UNCHANGED <<log, begun, completed, done, stage, delivered, fragmentedMsgType, fragmentBuffer>>
      BY <2>2 DEF OthersClose, OthersCloseWrites, frameVars, peer, bytes, conn
    <3>2. Parsed'
      BY <1>2, <3>1 DEF Parsed, History, Follows
    <3> QED
      BY <1>2, <3>1, <3>2, OpenedStep
  <2> QED
    BY <1>2, <2>1, <2>2 DEF FramesNext
<1> QED
  BY <1>1, <1>2, PTL DEF FramesSpec, InOrder, Channel!Spec

(* What the run checks as one invariant.                                   *)
THEOREM FramesAlwaysConsistent == FramesSpec => []FramesConsistent
<1>1. FramesTypeOK /\ EndAnnounced => FramesConsistent
  BY DEF FramesConsistent
<1> QED
  BY <1>1, FramesTypeCorrect, EndIsAnnounced, PTL
=============================================================================
