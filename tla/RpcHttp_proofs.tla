--------------------------- MODULE RpcHttp_proofs ---------------------------
(***************************************************************************)
(* Theorems about Dispatch and RpcHttp, for any requests, body, handlers   *)
(* of exceptions and registering threads.                                  *)
(***************************************************************************)
EXTENDS RpcHttp, TLAPS

-----------------------------------------------------------------------------
(* The dispatcher *)

(* A request that is under way has its outcome open, and only then.        *)
Open == \A r \in Requests :
    /\ place[r] = "idle" <=> outcome[r] = "none"
    /\ place[r] \notin {"idle", "done"} => outcome[r] = "pending"

(* A request that is with the handlers of exceptions holds the lock; one   *)
(* in which a handler runs is not past the last of them.                   *)
Inside == \A r \in Requests :
    /\ place[r] \in {"handlers", "nested"} => r \in readers
    /\ place[r] = "nested" => handler[r] \in 1 .. Handlers

(* Who waits to register something may do so.                              *)
Waits == \A w \in queue : changes[w] < Changes

DispatchInv == DispatchTypeOK /\ Open /\ Inside /\ Waits

(* What a step may do: one request moves on, or the maps change while      *)
(* nobody reads them.                                                      *)
Answering == Answers!Next \/ UNCHANGED outcome
Holding == exceptionMap' # exceptionMap => \A r \in Requests : place[r] \notin {"handlers", "nested"}
DispatchStep == DispatchInv' /\ Answering /\ Holding

LEMMA DispatchStarts == DispatchInit => DispatchInv
BY DispatchAssumption DEF DispatchInit, DispatchInv, DispatchTypeOK, Open, Inside, Waits, Steps

LEMMA DispatchStands ==
    ASSUME DispatchInv, UNCHANGED dvars
    PROVE  DispatchStep
BY DEF DispatchInv, dvars, DispatchTypeOK, Open, Inside, Waits, DispatchStep, Answering, Holding

LEMMA CallSteps ==
    ASSUME DispatchInv, NEW r \in Requests, Call(r)
    PROVE  DispatchStep
<1> USE DEF Call, Go, maps
<1>1. DispatchTypeOK'
  BY DEF DispatchInv, DispatchTypeOK, Steps
<1>2. Open' /\ Inside' /\ Waits'
  BY DEF DispatchInv, DispatchTypeOK, Open, Inside, Waits
<1>3. Answers!Make(r)
  BY DEF DispatchInv, Open, Answers!Make
<1> QED
  BY <1>1, <1>2, <1>3 DEF DispatchInv, DispatchStep, Answering, Answers!Next, Holding

(* A request that moves on and has no answer yet.                          *)
LEMMA MoveSteps ==
    ASSUME DispatchInv, NEW r \in Requests, place[r] \notin {"idle", "done"},
           NEW step \in Steps \ {"idle", "done"}, Go(r, step), UNCHANGED <<outcome, maps>>,
           handler' \in [Requests -> 1 .. Handlers + 1],
           \A q \in Requests \ {r} : handler'[q] = handler[q] /\ (q \in readers' <=> q \in readers),
           readers' \subseteq Requests,
           step \in {"handlers", "nested"} => r \in readers',
           step = "nested" => handler'[r] \in 1 .. Handlers
    PROVE  DispatchStep
<1> USE DEF Go, maps
<1>1. DispatchTypeOK'
  BY DEF DispatchInv, DispatchTypeOK
<1>2. Open' /\ Inside' /\ Waits'
  BY DEF DispatchInv, DispatchTypeOK, Open, Inside, Waits
<1> QED
  BY <1>1, <1>2 DEF DispatchInv, DispatchStep, Answering, Holding

(* A request that is answered, with its own result or a failure.           *)
LEMMA ResolveSteps ==
    ASSUME DispatchInv, NEW r \in Requests, place[r] \notin {"idle", "done"},
           Resolve(r, r) \/ Resolve(r, "failed"), UNCHANGED <<handler, maps>>,
           readers' = readers \/ readers' = readers \ {r}
    PROVE  DispatchStep
<1> USE DEF Resolve, Go, maps
<1>1. PICK o \in {r, "failed"} : outcome' = [outcome EXCEPT ![r] = o] /\ place' = [place EXCEPT ![r] = "done"]
  OBVIOUS
<1>2. DispatchTypeOK'
  BY <1>1 DEF DispatchInv, DispatchTypeOK, Steps
<1>3. Open' /\ Inside' /\ Waits'
  BY <1>1, DispatchAssumption DEF DispatchInv, DispatchTypeOK, Open, Inside, Waits
<1>4. Answers!Settle(r)
  BY <1>1 DEF DispatchInv, Open, Answers!Settle
<1> QED
  BY <1>2, <1>3, <1>4 DEF DispatchInv, DispatchStep, Answering, Answers!Next, Holding

LEMMA RequestSteps ==
    ASSUME DispatchInv, NEW r \in Requests, Locked(r) \/ Works(r) \/ Later(r)
    PROVE  DispatchStep
<1> USE DEF DispatchInv
<1>1. handler \in [Requests -> 1 .. Handlers + 1] /\ readers \subseteq Requests
  BY DEF DispatchTypeOK
<1>2. CASE Find(r)
  <2>1. PICK step \in {"run", "findName", "reject"} : Go(r, step)
    BY <1>2 DEF Find
  <2> QED
    BY <1>1, <1>2, <2>1, MoveSteps DEF Find, Steps
<1>3. CASE Translate(r)
  BY <1>1, <1>3, DispatchAssumption, MoveSteps DEF Translate, Steps
<1>4. CASE Nested(r)
  <2>1. handler[r] \in 1 .. Handlers
    BY <1>4 DEF Nested, Inside
  <2>2. handler' \in [Requests -> 1 .. Handlers + 1] /\ r \in readers
    BY <1>1, <1>4, <2>1, DispatchAssumption DEF Nested, Inside
  <2> QED
    BY <1>1, <1>4, <2>2, MoveSteps DEF Nested, Steps
<1>5. CASE Malformed(r)
  BY <1>5, ResolveSteps DEF Malformed
<1>6. CASE Run(r)
  BY <1>1, <1>6, MoveSteps, ResolveSteps DEF Run, Steps
<1>7. CASE Result(r)
  BY <1>1, <1>7, MoveSteps, ResolveSteps DEF Result, Steps
<1>8. CASE Late(r)
  BY <1>8, ResolveSteps DEF Late
<1>9. CASE Handle(r)
  <2>1. place[r] = "handlers" /\ r \in readers /\ UNCHANGED maps /\ handler[r] \in 1 .. Handlers + 1
    BY <1>1, <1>9 DEF Handle, Inside
  <2>2. CASE (Resolve(r, r) \/ Resolve(r, "failed")) /\ readers' = readers \ {r} /\ UNCHANGED handler
    BY <2>1, <2>2, ResolveSteps
  <2>3. CASE handler[r] <= Handlers /\ handler' = [handler EXCEPT ![r] = @ + 1] /\ UNCHANGED <<place, outcome, readers>>
    <3>1. handler' \in [Requests -> 1 .. Handlers + 1]
      BY <1>1, <2>1, <2>3, DispatchAssumption
    <3>2. Go(r, "handlers")
      BY <2>1, <2>3 DEF DispatchTypeOK, Go
    <3> QED
      BY <1>1, <2>1, <2>3, <3>1, <3>2, MoveSteps DEF Steps
  <2>4. CASE Go(r, "late") /\ readers' = readers \ {r} /\ UNCHANGED <<outcome, handler>>
    BY <1>1, <2>1, <2>4, MoveSteps DEF Steps
  <2>5. CASE handler[r] \in exceptionMap /\ Go(r, "nested") /\ UNCHANGED <<outcome, handler, readers>>
    BY <1>1, <2>1, <2>5, MoveSteps DEF Steps, DispatchTypeOK
  <2> QED
    BY <1>9, <2>1, <2>2, <2>3, <2>4, <2>5, DispatchAssumption DEF Handle
<1> QED
  BY <1>2, <1>3, <1>4, <1>5, <1>6, <1>7, <1>8, <1>9 DEF Locked, Works, Later

LEMMA RegistrarSteps ==
    ASSUME DispatchInv, NEW w \in Registrars, Register(w) \/ Registered(w)
    PROVE  DispatchStep
<1>1. CASE Register(w)
  BY <1>1 DEF DispatchInv, DispatchTypeOK, Open, Inside, Waits, DispatchStep, Answering, Holding, Register
<1>2. CASE Registered(w)
  <2>1. changes[w] < Changes
    BY <1>2 DEF DispatchInv, Waits, Registered
  <2>2. DispatchTypeOK'
    <3>1. changes' \in [Registrars -> 0 .. Changes] /\ queue' \subseteq Registrars
      BY <1>2, <2>1, DispatchAssumption DEF DispatchInv, DispatchTypeOK, Registered
    <3>2. methodMap' \subseteq {"prototype", "name"} /\ exceptionMap' \subseteq 1 .. Handlers
      BY <1>2 DEF DispatchInv, DispatchTypeOK, Registered
    <3> QED
      BY <1>2, <3>1, <3>2 DEF DispatchInv, DispatchTypeOK, Registered
  <2>3. Open' /\ Inside' /\ Waits'
    BY <1>2, <2>1 DEF DispatchInv, DispatchTypeOK, Open, Inside, Waits, Registered
  <2>4. Holding
    BY <1>2 DEF DispatchInv, Inside, Holding, Registered
  <2> QED
    BY <1>2, <2>2, <2>3, <2>4 DEF DispatchInv, DispatchStep, Answering, Registered
<1> QED
  BY <1>1, <1>2

LEMMA DispatchSteps ==
    ASSUME DispatchInv, DispatchNext
    PROVE  DispatchStep
BY RequestSteps, RegistrarSteps DEF DispatchNext

-----------------------------------------------------------------------------
(* The connection *)

LEMMA Dispatching ==
    ASSUME DispatchInv, thread \in Places, at \in Nat, [Next]_vars
    PROVE  DispatchStep
<1>1. CASE UNCHANGED vars
  BY <1>1, DispatchStands DEF vars
<1>2. CASE DispatchNext
  BY <1>2, DispatchSteps
<1>3. CASE DataReady
  <2>1. Body[at + 1] \in Requests
    BY <1>3, BodyAssumption DEF DataReady
  <2> QED
    BY <1>3, <2>1, CallSteps DEF DataReady
<1>4. CASE UNCHANGED dvars
  BY <1>4, DispatchStands
<1> QED
  BY <1>1, <1>2, <1>3, <1>4 DEF Next, Serves, Post, DataGarbage, DataThrows, Returned, SendResponse,
     WakeUp, Wakened, EndOfStream, Disconnect

(* A result is observed, or its wake-up kept, for a connection that sleeps. *)
Sleeping == (observed \/ awake => thread = "sleep") /\ ~(observed /\ awake)

(* A request that is served is one of the body's.                          *)
Serving ==
    /\ at <= Len(Body)
    /\ thread \in {"dispatch", "respond", "sleep"} => at # 0

HttpInv == TypeOK /\ DispatchInv /\ Sleeping /\ Serving

LEMMA Current ==
    ASSUME HttpInv, thread \in {"dispatch", "respond", "sleep"}
    PROVE  Body[at] \in Requests
BY BodyAssumption DEF HttpInv, TypeOK, Serving

LEMMA HttpStarts == Init => HttpInv
<1> SUFFICES ASSUME Init PROVE HttpInv
  OBVIOUS
<1>1. DispatchInv /\ DispatchTypeOK
  BY DispatchStarts DEF Init, DispatchInv
<1>2. \A b \in {headerSent, closeConn, observed, awake} : b \in BOOLEAN
  BY DEF Init
<1>3. thread \in Places /\ at \in Nat /\ garbage \in 0 .. Garbage /\ written \in Seq(Items)
  BY BodyAssumption DEF Init, Places
<1>4. Sleeping /\ Serving
  BY BodyAssumption DEF Init, Sleeping, Serving
<1> QED
  BY <1>1, <1>2, <1>3, <1>4 DEF HttpInv, TypeOK

LEMMA HttpSteps ==
    ASSUME HttpInv, [Next]_vars
    PROVE  HttpInv' /\ DispatchStep
<1>1. DispatchStep
  BY Dispatching DEF HttpInv, TypeOK
<1>2. DispatchInv' /\ DispatchTypeOK'
  BY <1>1 DEF DispatchStep, DispatchInv
<1> DEFINE Moved == Post \/ DataReady \/ DataThrows \/ Returned \/ WakeUp \/ Wakened \/ EndOfStream \/ Disconnect \/ UNCHANGED hvars
<1>3. written' \in Seq(Items)
  <2>1. \A i \in Items : Append(written, i) \in Seq(Items)
    BY DEF HttpInv, TypeOK
  <2>2. {"page", "error"} \subseteq Items
    BY DEF Items
  <2>3. CASE DataGarbage
    <3>1. <<"page">> \in Seq(Items) /\ <<"error">> \in Seq(Items) /\ <<>> \in Seq(Items) /\ written \in Seq(Items)
      BY <2>2 DEF HttpInv, TypeOK
    <3>2. \A s, t \in Seq(Items) : s \o t \in Seq(Items)
      OBVIOUS
    <3> QED
      BY <2>3, <3>1, <3>2 DEF DataGarbage
  <2>4. CASE SendResponse
    <3>1. Body[at] \in Items
      BY <2>4, Current DEF SendResponse, Items
    <3> QED
      BY <2>1, <2>4, <3>1 DEF SendResponse, HttpInv, TypeOK
  <2>5. CASE Moved
    BY <2>1, <2>2, <2>5 DEF HttpInv, TypeOK, hvars, Post, DataReady, DataThrows, Returned,
       WakeUp, Wakened, EndOfStream, Disconnect
  <2> QED
    BY <2>3, <2>4, <2>5 DEF Next, Serves, vars
<1>4. thread' \in Places /\ at' \in Nat /\ garbage' \in 0 .. Garbage /\ Serving'
  <2> USE BodyAssumption DEF HttpInv, TypeOK, Places, Serving
  <2>1. CASE Moved
    BY <2>1 DEF hvars, Post, DataReady, DataThrows, Returned, WakeUp, Wakened, EndOfStream, Disconnect
  <2>2. CASE DataGarbage
    BY <2>2 DEF DataGarbage
  <2>3. CASE SendResponse
    BY <2>3 DEF SendResponse
  <2> QED
    BY <2>1, <2>2, <2>3 DEF Next, Serves, vars
<1>5. headerSent' \in BOOLEAN /\ closeConn' \in BOOLEAN /\ observed' \in BOOLEAN /\ awake' \in BOOLEAN
  BY DEF HttpInv, TypeOK, Next, Serves, vars, hvars, Post, DataReady, DataGarbage, DataThrows, Returned, SendResponse,
     WakeUp, Wakened, EndOfStream, Disconnect
<1>6. Sleeping'
  <2> USE DEF HttpInv, Sleeping
  <2>1. CASE WakeUp
    BY <2>1 DEF WakeUp
  <2>2. CASE Wakened \/ Disconnect
    BY <2>2 DEF Wakened, Disconnect
  <2>3. CASE SendResponse
    BY <2>3 DEF SendResponse
  <2>4. CASE thread # "sleep" /\ observed' = observed /\ awake' = awake
    BY <2>4
  <2>5. CASE UNCHANGED hvars
    BY <2>5 DEF hvars
  <2> QED
    BY <2>1, <2>2, <2>3, <2>4, <2>5 DEF Next, Serves, vars, Post, DataReady, DataGarbage, DataThrows, Returned, EndOfStream
<1> QED
  BY <1>1, <1>2, <1>3, <1>4, <1>5, <1>6 DEF HttpInv, TypeOK

-----------------------------------------------------------------------------
(* The responses *)

(* AnsweredUpTo, of a sequence w.                                          *)
AnsweredIn(w, n) ==
    /\ \A k \in 1 .. n : \E i \in DOMAIN w : w[i] = Body[k]
    /\ \A i \in DOMAIN w : w[i] \in Requests =>
         \E k \in 1 .. n : /\ w[i] = Body[k]
                           /\ \A j \in 1 .. i - 1 : w[j] \in Requests =>
                                \E m \in 1 .. k - 1 : w[j] = Body[m]

(* The number of responses due: the request that is dispatched, waits or   *)
(* sleeps has none yet; nothing is written without a header, and none is   *)
(* sent ahead of what the first request, or what does not parse, brings.   *)
Due ==
    /\ \E n \in {at - 1, at} :
         /\ n \in Nat /\ AnsweredIn(written, n)
         /\ thread \in {"request", "data"} => n = at
         /\ thread \in {"dispatch", "respond", "sleep"} => n = at - 1
    /\ \A i \in DOMAIN written :
         /\ headerSent
         /\ written[i] = "page" => i = 1
         /\ written[i] = "error" => closeConn
    /\ at # 0 => headerSent

(* A record more.                                                          *)
LEMMA MoreItems ==
    ASSUME NEW w \in Seq(Items), NEW x \in Items
    PROVE  /\ Append(w, x) \in Seq(Items) /\ Len(w) \in Nat
           /\ DOMAIN w = 1 .. Len(w) /\ DOMAIN Append(w, x) = 1 .. Len(w) + 1
           /\ \A i \in DOMAIN w : Append(w, x)[i] = w[i]
           /\ Append(w, x)[Len(w) + 1] = x
OBVIOUS

(* A page or an error answers no request.                                  *)
LEMMA NoResponseMore ==
    ASSUME NEW w \in Seq(Items), NEW n \in Nat, AnsweredIn(w, n), NEW x \in {"page", "error"}
    PROVE  AnsweredIn(Append(w, x), n)
<1> DEFINE v == Append(w, x)
<1>1. /\ Len(w) \in Nat /\ DOMAIN w = 1 .. Len(w) /\ DOMAIN v = 1 .. Len(w) + 1
      /\ \A i \in DOMAIN w : v[i] = w[i]
      /\ v[Len(w) + 1] = x
  BY MoreItems DEF Items
<1>2. x \notin Requests
  BY BodyAssumption
<1> HIDE DEF v
<1>3. \A i \in DOMAIN v : v[i] \in Requests => i \in DOMAIN w /\ \A j \in 1 .. i - 1 : j \in DOMAIN w
  BY <1>1, <1>2
<1>4. \A k \in 1 .. n : \E i \in DOMAIN v : v[i] = Body[k]
  BY <1>1 DEF AnsweredIn
<1>5. ASSUME NEW i \in DOMAIN v, v[i] \in Requests
      PROVE  \E k \in 1 .. n : /\ v[i] = Body[k]
                               /\ \A j \in 1 .. i - 1 : v[j] \in Requests => \E m \in 1 .. k - 1 : v[j] = Body[m]
  <2>1. i \in DOMAIN w /\ w[i] \in Requests /\ w[i] = v[i] /\ \A j \in 1 .. i - 1 : v[j] = w[j]
    BY <1>1, <1>3, <1>5
  <2>2. PICK k \in 1 .. n : /\ w[i] = Body[k]
                            /\ \A j \in 1 .. i - 1 : w[j] \in Requests => \E m \in 1 .. k - 1 : w[j] = Body[m]
    BY <2>1 DEF AnsweredIn
  <2> QED
    BY <2>1, <2>2
<1> QED
  BY <1>4, <1>5 DEF AnsweredIn, v

(* The response of the next request.                                       *)
LEMMA ResponseMore ==
    ASSUME NEW w \in Seq(Items), NEW n \in Nat, AnsweredIn(w, n), n + 1 \in DOMAIN Body
    PROVE  AnsweredIn(Append(w, Body[n + 1]), n + 1)
<1> DEFINE x == Body[n + 1]
           v == Append(w, x)
<1>0. x \in Items /\ x \in Requests
  BY BodyAssumption DEF Items
<1> HIDE DEF x
<1>1. /\ Len(w) \in Nat /\ DOMAIN w = 1 .. Len(w) /\ DOMAIN v = 1 .. Len(w) + 1
      /\ \A i \in DOMAIN w : v[i] = w[i]
      /\ v[Len(w) + 1] = x
  BY <1>0, MoreItems
<1> HIDE DEF v
<1>2. \A k \in 1 .. n + 1 : \E i \in DOMAIN v : v[i] = Body[k]
  <2> SUFFICES ASSUME NEW k \in 1 .. n + 1 PROVE \E i \in DOMAIN v : v[i] = Body[k]
    OBVIOUS
  <2>1. CASE k = n + 1
    BY <1>1, <2>1 DEF x
  <2>2. CASE k # n + 1
    <3>1. k \in 1 .. n
      BY <2>2
    <3> QED
      BY <1>1, <3>1 DEF AnsweredIn
  <2> QED
    BY <2>1, <2>2
<1>3. ASSUME NEW i \in DOMAIN v, v[i] \in Requests
      PROVE  \E k \in 1 .. n + 1 : /\ v[i] = Body[k]
                                   /\ \A j \in 1 .. i - 1 : v[j] \in Requests => \E m \in 1 .. k - 1 : v[j] = Body[m]
  <2>1. CASE i = Len(w) + 1
    <3>1. v[i] = Body[n + 1] /\ n + 1 \in 1 .. n + 1
      BY <1>1, <2>1 DEF x
    <3>2. ASSUME NEW j \in 1 .. i - 1, v[j] \in Requests PROVE \E m \in 1 .. n : v[j] = Body[m]
      <4>1. j \in DOMAIN w /\ v[j] = w[j]
        BY <1>1, <2>1
      <4> QED
        BY <3>2, <4>1 DEF AnsweredIn
    <3>3. (n + 1) - 1 = n
      OBVIOUS
    <3> QED
      BY <3>1, <3>2, <3>3
  <2>2. CASE i # Len(w) + 1
    <3>1. i \in DOMAIN w /\ w[i] \in Requests /\ w[i] = v[i] /\ \A j \in 1 .. i - 1 : v[j] = w[j]
      BY <1>1, <1>3, <2>2
    <3>2. PICK k \in 1 .. n : /\ w[i] = Body[k]
                              /\ \A j \in 1 .. i - 1 : w[j] \in Requests => \E m \in 1 .. k - 1 : w[j] = Body[m]
      BY <3>1 DEF AnsweredIn
    <3>3. k \in 1 .. n + 1
      OBVIOUS
    <3> QED
      BY <3>1, <3>2, <3>3
  <2> QED
    BY <2>1, <2>2
<1> QED
  BY <1>2, <1>3 DEF AnsweredIn, v, x

LEMMA DueStarts == Init => Due
<1> SUFFICES ASSUME Init PROVE Due
  OBVIOUS
<1>1. at = 0 /\ written = <<>> /\ thread = "request" /\ DOMAIN written = {}
  BY DEF Init
<1>2. 0 \in Nat /\ 1 .. 0 = {} /\ 0 \in {0 - 1, 0}
  OBVIOUS
<1>3. AnsweredIn(written, 0)
  BY <1>1, <1>2 DEF AnsweredIn
<1> QED
  BY <1>1, <1>2, <1>3 DEF Due

(* What is written without a request: a page if no header is out.          *)
LEMMA PageDue ==
    ASSUME NEW w \in Seq(Items), NEW n \in Nat, AnsweredIn(w, n), NEW v,
           v = (IF headerSent THEN w ELSE Append(w, "page")), \A i \in DOMAIN w : headerSent
    PROVE  /\ v \in Seq(Items) /\ AnsweredIn(v, n) /\ Len(v) \in Nat /\ DOMAIN v = 1 .. Len(v)
           /\ \A i \in DOMAIN v : (i \in DOMAIN w /\ v[i] = w[i]) \/ (i = 1 /\ v[i] = "page")
<1>1. "page" \in Items /\ Len(w) \in Nat /\ DOMAIN w = 1 .. Len(w)
  BY DEF Items
<1>2. CASE headerSent
  BY <1>1, <1>2
<1>3. CASE ~headerSent
  <2>1. DOMAIN w = {} /\ Len(w) = 0
    BY <1>1, <1>3
  <2>2. v = Append(w, "page")
    BY <1>3
  <2>3. v \in Seq(Items) /\ DOMAIN v = 1 .. Len(w) + 1 /\ v[Len(w) + 1] = "page"
    BY <1>1, <2>2, MoreItems
  <2>4. AnsweredIn(v, n)
    BY <2>2, NoResponseMore
  <2>5. Len(v) = 1 /\ DOMAIN v = 1 .. Len(v) /\ v[1] = "page"
    <3>1. Len(v) = Len(w) + 1
      BY <1>1, <2>2
    <3>2. 1 = Len(w) + 1
      BY <2>1
    <3> QED
      BY ONLY <2>3, <3>1, <3>2
  <2>6. \A i \in DOMAIN v : i = 1
    BY <2>5
  <2> QED
    BY ONLY <2>3, <2>4, <2>5, <2>6
<1> QED
  BY <1>2, <1>3

LEMMA DueSteps ==
    ASSUME HttpInv, Due, [Next]_vars
    PROVE  Due'
<1>1. PICK n \in {at - 1, at} :
         /\ n \in Nat /\ AnsweredIn(written, n)
         /\ thread \in {"request", "data"} => n = at
         /\ thread \in {"dispatch", "respond", "sleep"} => n = at - 1
  BY DEF Due
<1>2. /\ written \in Seq(Items) /\ at \in Nat /\ at <= Len(Body) /\ thread \in Places
      /\ headerSent \in BOOLEAN
  BY DEF HttpInv, TypeOK, Serving
<1>3. /\ \A i \in DOMAIN written :
            headerSent /\ (written[i] = "page" => i = 1) /\ (written[i] = "error" => closeConn)
      /\ at # 0 => headerSent
  BY DEF Due
<1> DEFINE q == IF headerSent THEN written ELSE Append(written, "page")
<1>4. /\ q \in Seq(Items) /\ AnsweredIn(q, n) /\ Len(q) \in Nat /\ DOMAIN q = 1 .. Len(q)
      /\ \A i \in DOMAIN q : (i \in DOMAIN written /\ q[i] = written[i]) \/ (i = 1 /\ q[i] = "page")
  BY <1>1, <1>2, <1>3, PageDue
<1>5. CASE UNCHANGED hvars
  BY <1>5 DEF Due, hvars
<1>6. CASE Post \/ Returned \/ WakeUp \/ Wakened \/ Disconnect
  <2>1. UNCHANGED <<at, written, headerSent>> /\ (closeConn => closeConn')
    BY <1>6 DEF Post, Returned, WakeUp, Wakened, Disconnect
  <2>2. /\ thread' \in {"request", "data"} => thread \in {"request", "data"}
        /\ thread' \in {"dispatch", "respond", "sleep"} => thread \in {"dispatch", "respond", "sleep"}
    BY <1>6 DEF Post, Returned, WakeUp, Wakened, Disconnect
  <2> QED
    BY <1>1, <1>3, <2>1, <2>2 DEF Due
<1>7. CASE DataReady
  <2>1. /\ UNCHANGED <<written, closeConn>> /\ headerSent' /\ at' = at + 1 /\ thread = "data"
        /\ thread' = "dispatch"
    BY <1>7 DEF DataReady
  <2>2. n = at' - 1 /\ n \in {at' - 1, at'}
    BY <1>1, <1>2, <2>1
  <2> QED
    BY <1>1, <1>3, <2>1, <2>2 DEF Due
<1>8. CASE DataGarbage
  <2> DEFINE page == IF headerSent THEN <<>> ELSE <<"page">>
  <2>1. /\ at' = at /\ headerSent' /\ closeConn' /\ thread = "data" /\ n = at
        /\ \/ written' = written \o page \o <<"error">> /\ thread' = thread
           \/ written' = written \o page /\ thread' = "end"
    BY <1>1, <1>8 DEF DataGarbage
  <2>2. written \o page = q
    <3>1. CASE headerSent
      BY <1>2, <3>1
    <3>2. CASE ~headerSent
      BY <1>2, <3>2
    <3> QED
      BY <3>1, <3>2
  <2> HIDE DEF q, page
  <2>3. q \o <<"error">> = Append(q, "error")
    BY <1>4
  <2>4. CASE written' = q
    BY <1>1, <1>3, <1>4, <2>1, <2>4 DEF Due
  <2>5. CASE written' = Append(q, "error")
    <3>1. /\ DOMAIN written' = 1 .. Len(q) + 1
          /\ \A i \in DOMAIN q : written'[i] = q[i]
          /\ written'[Len(q) + 1] = "error"
      BY <1>4, <2>5, MoreItems DEF Items
    <3>2. AnsweredIn(written', n)
      BY <1>1, <1>4, <2>5, NoResponseMore
    <3>3. \A i \in DOMAIN written' : written'[i] = "page" => i = 1
      BY <1>3, <1>4, <3>1
    <3> QED
      BY <1>1, <2>1, <3>2, <3>3 DEF Due
  <2> QED
    BY <2>1, <2>2, <2>3, <2>4, <2>5
<1>9. CASE DataThrows \/ EndOfStream
  <2>1. at' = at /\ headerSent' /\ (closeConn => closeConn') /\ written' = q /\ thread' = "end"
    BY <1>9 DEF DataThrows, EndOfStream
  <2> HIDE DEF q
  <2> QED
    BY <1>1, <1>3, <1>4, <2>1 DEF Due
<1>10. CASE SendResponse
  <2>1. UNCHANGED <<at, headerSent, closeConn>> /\ thread = "respond" /\ n = at - 1
    BY <1>1, <1>10 DEF SendResponse
  <2>2. \/ written' = Append(written, Body[at]) /\ thread' = "data"
        \/ written' = written /\ thread' = "sleep"
    BY <1>10 DEF SendResponse
  <2>3. CASE written' = written /\ thread' = "sleep"
    BY <1>1, <1>3, <2>1, <2>3 DEF Due
  <2>4. CASE written' = Append(written, Body[at]) /\ thread' = "data"
    <3>1. at \in DOMAIN Body /\ at = n + 1 /\ Body[at] \in Requests /\ at # 0
      BY <1>1, <1>2, <2>1, BodyAssumption DEF HttpInv, Serving
    <3>2. AnsweredIn(written', at)
      BY <1>1, <1>2, <2>4, <3>1, ResponseMore
    <3>3. /\ DOMAIN written' = 1 .. Len(written) + 1 /\ DOMAIN written = 1 .. Len(written)
          /\ \A i \in DOMAIN written : written'[i] = written[i]
          /\ written'[Len(written) + 1] = Body[at] /\ Len(written) \in Nat
      BY <1>2, <2>4, <3>1, MoreItems DEF Items
    <3>4. Body[at] # "page" /\ Body[at] # "error"
      BY <3>1, BodyAssumption
    <3>5. \A i \in DOMAIN written' :
             headerSent /\ (written'[i] = "page" => i = 1) /\ (written'[i] = "error" => closeConn)
      BY <1>3, <3>1, <3>3, <3>4
    <3> QED
      BY <1>1, <1>2, <1>3, <2>1, <2>4, <3>1, <3>2, <3>5 DEF Due
  <2> QED
    BY <2>2, <2>3, <2>4
<1> QED
  BY <1>5, <1>6, <1>7, <1>8, <1>9, <1>10 DEF Next, Serves, vars

-----------------------------------------------------------------------------
(* Dispatcher and connection keep their types.                             *)
THEOREM TypeCorrect == Spec => []TypeOK
<1>1. HttpInv => TypeOK
  BY DEF HttpInv
<1> QED
  BY <1>1, HttpStarts, HttpSteps, PTL DEF Spec

(* Each request is answered once, by its own result or an error, and the   *)
(* handlers of exceptions stay what they are while one of them is asked    *)
(* (callMethod, dispatchException).                                        *)
THEOREM ImplementsCalls == Spec => AnsweredOnce
<1>1. Init => Answers!Init
  BY DEF Init, DispatchInit, Answers!Init
<1>2. HttpInv /\ [Next]_vars => [Answers!Next]_outcome
  BY HttpSteps DEF DispatchStep, Answering
<1>3. HttpInv /\ [Next]_vars =>
        [exceptionMap' # exceptionMap => \A r \in Requests : place[r] \notin {"handlers", "nested"}]_dvars
  BY HttpSteps DEF DispatchStep, Holding
<1> QED
  BY <1>1, <1>2, <1>3, HttpStarts, HttpSteps, PTL DEF Spec, AnsweredOnce, Answers!Spec, HandlersHold

(* Each request gets its response, in the order of the body, once; a page  *)
(* comes first, and an error to a connection that closes, whatever does    *)
(* not parse, whoever resolves and whenever the client hangs up            *)
(* (HttpHandler::onData, sendResponse).                                    *)
LEMMA DueSays == HttpInv /\ Due => ResponsesOfRequests
<1> SUFFICES ASSUME HttpInv, Due PROVE ResponsesOfRequests
  OBVIOUS
<1>1. PICK n \in {at - 1, at} : n \in Nat /\ AnsweredIn(written, n)
  BY DEF Due
<1>2. AnsweredUpTo(n) /\ at \in Nat
  BY <1>1 DEF AnsweredIn, AnsweredUpTo, HttpInv, TypeOK
<1>3. AnsweredUpTo(at) \/ (at # 0 /\ AnsweredUpTo(at - 1))
  BY <1>1, <1>2
<1> QED
  BY <1>3 DEF Due, ResponsesOfRequests

THEOREM InOrderAlways == Spec => []ResponsesOfRequests
  BY DueSays, DueStarts, DueSteps, HttpStarts, HttpSteps, PTL DEF Spec

(* Types, responses in order, and no thread wakes up a connection that has *)
(* ended (sendResponse, wakeUpConnection, the destructor of the context).  *)
THEOREM AlwaysConsistent == Spec => []Consistent
<1>1. HttpInv /\ Due => Consistent
  BY DueSays DEF HttpInv, Sleeping, Consistent, NoLateWakeUp, TypeOK
<1> QED
  BY <1>1, DueStarts, DueSteps, HttpStarts, HttpSteps, PTL DEF Spec
=============================================================================
