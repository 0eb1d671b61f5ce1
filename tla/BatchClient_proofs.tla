------------------------- MODULE BatchClient_proofs -------------------------
(***************************************************************************)
(* Theorems about BatchClient, for any number of threads and calls.        *)
(***************************************************************************)
EXTENDS BatchClient, FiniteSetTheorems, TLAPS

LEMMA AddTyped ==
    ASSUME TypeOK, NEW t \in Threads, NEW c \in Calls,
           NEW here \in {"idle", "callback"}, Add(t, c, here)
    PROVE  TypeOK'
<1> USE DEF TypeOK, Add, Goto, Inside
<1>1. Len(preparedList) \in Nat
  OBVIOUS
<1>2. [call |-> c, id |-> Len(preparedList)] \in Requests
  BY <1>1 DEF Requests
<1>3. preparedList' \in Seq(Requests)
  BY <1>2
<1> QED
  BY <1>3

(* Every variable keeps its type; the counter does because of Counting.    *)
LEMMA TypeStep == TypeOK /\ Counting /\ [Next]_vars => TypeOK'
<1> SUFFICES ASSUME TypeOK, Counting, [Next]_vars
             PROVE  TypeOK'
  OBVIOUS
<1> USE DEF TypeOK, Goto, lists, Inside
<1>a. <<>> \in Seq(Requests)
  OBVIOUS
<1>b. Ignored \in Responses
  BY DEF Ignored, Responses
<1>c. \A i \in DOMAIN processing :
        /\ processing[i].call \in Calls /\ processing[i].id \in Nat
        /\ [id |-> processing[i].id, to |-> processing[i].call] \in Responses
  <2> SUFFICES ASSUME NEW i \in DOMAIN processing
               PROVE  /\ processing[i].call \in Calls /\ processing[i].id \in Nat
                      /\ [id |-> processing[i].id, to |-> processing[i].call] \in Responses
    OBVIOUS
  <2>1. processing[i] \in Requests
    OBVIOUS
  <2>2. processing[i].call \in Calls /\ processing[i].id \in Nat
    BY <2>1 DEF Requests
  <2> QED
    BY <2>2 DEF Responses
<1>d. ASSUME NEW o \in Calls \cup {"failed"}, NEW c \in Calls
      PROVE  Settled(c, o) \in [Calls -> {"none", "pending", "failed"} \cup Calls]
  BY DEF Settled
<1>1. ASSUME NEW t \in Threads, CallAsync(t) PROVE TypeOK'
  BY <1>1, AddTyped DEF CallAsync
<1>2. ASSUME NEW t \in Threads, BeginBatch(t) PROVE TypeOK'
  BY <1>2 DEF BeginBatch
<1>3. ASSUME NEW t \in Threads, CloseBatch(t) PROVE TypeOK'
  <2>1. batchCounter' \in Nat
    BY <1>3 DEF CloseBatch
  <2> QED
    BY <1>3, <2>1 DEF CloseBatch
<1>4. ASSUME NEW t \in Threads, LockProcessing(t) PROVE TypeOK'
  BY <1>4 DEF LockProcessing
<1>5. ASSUME NEW t \in Threads, Take(t) PROVE TypeOK'
  <2>1. batchCounter \in Nat \ {0}
    <3>1. t \in Runners /\ IsFiniteSet(Runners) /\ IsFiniteSet(open)
      BY <1>5, FS_Subset, BatchAssumption DEF Take, Runners
    <3>2. Cardinality(Runners) \in Nat /\ Cardinality(Runners) # 0 /\ Cardinality(open) \in Nat
      BY <3>1, FS_CardinalityType, FS_EmptySet
    <3> QED
      BY <3>2 DEF Counting
  <2>2. batchCounter' \in Nat /\ preparedList' \in Seq(Requests)
    BY <1>5, <2>1, <1>a DEF Take
  <2> QED
    BY <1>5, <2>2, <1>a DEF Take, Return
<1>6. ASSUME NEW t \in Threads, Send(t) PROVE TypeOK'
  BY <1>6 DEF Send, Loop
<1>7. ASSUME NEW t \in Threads, LockParse(t) PROVE TypeOK'
  BY <1>7 DEF LockParse, Loop
<1>8. ASSUME NEW t \in Threads, Parsed(t) PROVE TypeOK'
  <2>1. response' \in Responses
    BY <1>8, <1>b, <1>c DEF Parsed
  <2> QED
    BY <1>8, <2>1 DEF Parsed, Loop
<1>9. ASSUME NEW t \in Threads, Settle(t) PROVE TypeOK'
  <2> DEFINE i == response.id + 1
  <2>1. i \in DOMAIN processing => i \in Nat /\ response.to \in Calls
    BY DEF Responses
  <2>2. outcome' \in [Calls -> {"none", "pending", "failed"} \cup Calls]
    <3>1. CASE i \in DOMAIN processing /\ i \notin done
      <4>1. outcome' = Settled(processing[i].call, response.to)
        BY <1>9, <3>1 DEF Settle
      <4> QED
        BY <4>1, <3>1, <2>1, <1>c, <1>d
    <3>2. CASE ~(i \in DOMAIN processing /\ i \notin done)
      BY <1>9, <3>2 DEF Settle
    <3> QED
      BY <3>1, <3>2
  <2>3. done' \subseteq Nat
    BY <1>9, <2>1 DEF Settle
  <2> QED
    BY <1>9, <2>2, <2>3 DEF Settle, Loop
<1>10. ASSUME NEW t \in Threads, Reject(t) PROVE TypeOK'
  <2>1. CASE at \in done /\ pc[t] # "reject"
    BY <1>10, <2>1 DEF Reject, Loop
  <2>2. CASE ~(at \in done /\ pc[t] # "reject")
    <3>1. at \in DOMAIN processing
      BY <1>10 DEF Reject
    <3>2. outcome' = Settled(processing[at].call, "failed")
      BY <1>10, <2>2 DEF Reject
    <3>3. outcome' \in [Calls -> {"none", "pending", "failed"} \cup Calls]
      BY <3>1, <3>2, <1>c, <1>d
    <3> QED
      BY <1>10, <2>2, <3>3 DEF Reject, Loop
  <2> QED
    BY <2>1, <2>2
<1>11. ASSUME NEW t \in Threads, Rejected(t) PROVE TypeOK'
  BY <1>11, <1>a DEF Rejected, Return
<1>12. ASSUME NEW t \in Threads, CallbackCalls(t) PROVE TypeOK'
  BY <1>12, AddTyped DEF CallbackCalls
<1>13. ASSUME NEW t \in Threads, CallbackReturns(t) PROVE TypeOK'
  BY <1>13 DEF CallbackReturns, Loop
<1>14. ASSUME NEW t \in Threads, Relock(t) PROVE TypeOK'
  BY <1>14 DEF Relock
<1>15. CASE UNCHANGED vars
  BY <1>15 DEF vars
<1> QED
  BY <1>1, <1>2, <1>3, <1>4, <1>5, <1>6, <1>7, <1>8, <1>9, <1>10, <1>11, <1>12,
     <1>13, <1>14, <1>15
  DEF Next, Caller, Locking, Processing
(* The sets that the batch counter counts.                                 *)
LEMMA CountedFinite ==
    ASSUME TypeOK
    PROVE  /\ IsFiniteSet(open) /\ Cardinality(open) \in Nat
           /\ IsFiniteSet(Runners) /\ Cardinality(Runners) \in Nat
<1>1. open \subseteq Threads /\ Runners \subseteq Threads
  BY DEF TypeOK, Runners
<1> QED
  BY <1>1, FS_Subset, FS_CardinalityType, BatchAssumption

(* The first call outside any batch makes its thread the only runner.      *)
LEMMA AddCounted ==
    ASSUME TypeOK, Counting, NEW t \in Threads, NEW c,
           NEW here \in {"idle", "callback"}, Add(t, c, here), pc[t] = here
    PROVE  Counting'
<1>1. CASE batchCounter = 0
  <2>1. Cardinality(Runners) = 0 /\ Cardinality(open) = 0
    BY <1>1, CountedFinite DEF Counting
  <2>2. Runners = {}
    BY <2>1, CountedFinite, FS_EmptySet
  <2>3. Runners' = {t}
    BY <1>1, <2>2 DEF Add, Goto, TypeOK, Runners
  <2>4. Cardinality(Runners') = 1
    BY <2>3, FS_Singleton
  <2> QED
    BY <1>1, <2>1, <2>4 DEF Add, Counting
<1>2. CASE batchCounter # 0
  <2>1. Runners' = Runners /\ open' = open /\ batchCounter' = batchCounter
    BY <1>2 DEF Add, Goto, TypeOK, Runners
  <2> QED
    BY <2>1 DEF Counting
<1> QED
  BY <1>1, <1>2

(* The batch counter is right after every step.                            *)
LEMMA CountingStep == TypeOK /\ Counting /\ [Next]_vars => Counting'
<1> SUFFICES ASSUME TypeOK, Counting, [Next]_vars
             PROVE  Counting'
  OBVIOUS
<1> DEFINE Same == Runners' = Runners /\ open' = open /\ batchCounter' = batchCounter
<1>a. Same => Counting'
  BY DEF Counting
<1> USE DEF TypeOK, Goto, lists
<1>1. ASSUME NEW t \in Threads, CallAsync(t) PROVE Counting'
  BY <1>1, AddCounted DEF CallAsync
<1>2. ASSUME NEW t \in Threads, BeginBatch(t) PROVE Counting'
  <2>1. Cardinality(open') = Cardinality(open) + 1
    BY <1>2, CountedFinite, FS_AddElement DEF BeginBatch
  <2>2. Runners' = Runners
    BY <1>2 DEF BeginBatch, Runners
  <2> QED
    BY <1>2, <2>1, <2>2, CountedFinite DEF BeginBatch, Counting
<1>3. ASSUME NEW t \in Threads, CloseBatch(t) PROVE Counting'
  <2>1. Cardinality(open') = Cardinality(open) - 1 /\ Cardinality(open) # 0
    BY <1>3, CountedFinite, FS_RemoveElement, FS_EmptySet DEF CloseBatch
  <2>2. CASE batchCounter = 1
    <3>1. Cardinality(open) = 1 /\ Cardinality(Runners) = 0
      BY <2>1, <2>2, CountedFinite DEF Counting
    <3>2. Runners = {}
      BY <3>1, CountedFinite, FS_EmptySet
    <3>3. Runners' = {t}
      BY <1>3, <2>2, <3>2 DEF CloseBatch, Runners
    <3>4. Cardinality(Runners') = 1
      BY <3>3, FS_Singleton
    <3> QED
      BY <1>3, <2>1, <2>2, <3>1, <3>4 DEF CloseBatch, Counting
  <2>3. CASE batchCounter # 1
    <3>1. Runners' = Runners
      BY <1>3, <2>3 DEF CloseBatch, Runners
    <3>2. batchCounter' = batchCounter - 1
      BY <1>3, <2>1, <2>3, CountedFinite DEF CloseBatch, Counting
    <3> QED
      BY <2>1, <3>1, <3>2, CountedFinite DEF Counting
  <2> QED
    BY <2>2, <2>3
<1>4. ASSUME NEW t \in Threads, LockProcessing(t) PROVE Counting'
  BY <1>4, <1>a DEF LockProcessing, Runners
<1>5. ASSUME NEW t \in Threads, Take(t) PROVE Counting'
  <2>1. t \in Runners
    BY <1>5 DEF Take, Runners
  <2>2. Runners' = Runners \ {t}
    BY <1>5 DEF Take, Return, Runners
  <2>3. Cardinality(Runners') = Cardinality(Runners) - 1
    BY <2>1, <2>2, CountedFinite, FS_RemoveElement
  <2> QED
    BY <1>5, <2>3, CountedFinite DEF Take, Counting
<1>6. ASSUME NEW t \in Threads, Send(t) PROVE Counting'
  BY <1>6, <1>a DEF Send, Loop, Runners
<1>7. ASSUME NEW t \in Threads, LockParse(t) PROVE Counting'
  BY <1>7, <1>a DEF LockParse, Loop, Runners
<1>8. ASSUME NEW t \in Threads, Parsed(t) PROVE Counting'
  BY <1>8, <1>a DEF Parsed, Loop, Runners
<1>9. ASSUME NEW t \in Threads, Settle(t) PROVE Counting'
  BY <1>9, <1>a DEF Settle, Loop, Runners
<1>10. ASSUME NEW t \in Threads, Reject(t) PROVE Counting'
  BY <1>10, <1>a DEF Reject, Loop, Runners
<1>11. ASSUME NEW t \in Threads, Rejected(t) PROVE Counting'
  BY <1>11, <1>a DEF Rejected, Return, Runners
<1>12. ASSUME NEW t \in Threads, CallbackCalls(t) PROVE Counting'
  BY <1>12, AddCounted DEF CallbackCalls
<1>13. ASSUME NEW t \in Threads, CallbackReturns(t) PROVE Counting'
  BY <1>13, <1>a DEF CallbackReturns, Loop, Runners
<1>14. ASSUME NEW t \in Threads, Relock(t) PROVE Counting'
  BY <1>14, <1>a DEF Relock, Runners
<1>15. CASE UNCHANGED vars
  BY <1>15, <1>a DEF vars, Runners
<1> QED
  BY <1>1, <1>2, <1>3, <1>4, <1>5, <1>6, <1>7, <1>8, <1>9, <1>10, <1>11, <1>12,
     <1>13, <1>14, <1>15
  DEF Next, Caller, Locking, Processing

LEMMA InitCounted == Init => TypeOK /\ Counting
<1> SUFFICES ASSUME Init PROVE TypeOK /\ Counting
  OBVIOUS
<1>1. TypeOK
  <2>1. <<>> \in Seq(Requests)
    OBVIOUS
  <2>2. Ignored \in Responses
    BY DEF Ignored, Responses
  <2> QED
    BY <2>1, <2>2 DEF Init, TypeOK, Inside
<1>2. Runners = {} /\ open = {}
  BY DEF Init, Runners
<1> QED
  BY <1>1, <1>2, FS_EmptySet DEF Counting, Init

(* Every variable has its type in every reachable state.                   *)
THEOREM TypeCorrect == Spec => []TypeOK
<1> QED
  BY InitCounted, TypeStep, CountingStep, PTL DEF Spec

(* The batch counter is the number of open batches plus the one thread, if *)
(* any, that is about to run one: it never underflows, and two threads     *)
(* never run the same batch.                                               *)
THEOREM BatchesCounted == Spec => []Counting
<1> QED
  BY InitCounted, TypeStep, CountingStep, PTL DEF Spec

-----------------------------------------------------------------------------
(* Collected requests are counted on: the inductive form of NothingStranded.*)
Collected == preparedList # <<>> => batchCounter > 0

LEMMA CollectedStep == TypeOK /\ Counting /\ Collected /\ [Next]_vars => Collected'
<1> SUFFICES ASSUME TypeOK, Counting, Collected, [Next]_vars
             PROVE  Collected'
  OBVIOUS
<1> USE DEF TypeOK, Goto, lists, Collected
<1>1. ASSUME NEW t \in Threads, CallAsync(t) PROVE Collected'
  BY <1>1 DEF CallAsync, Add
<1>2. ASSUME NEW t \in Threads, BeginBatch(t) PROVE Collected'
  BY <1>2 DEF BeginBatch
<1>3. ASSUME NEW t \in Threads, CloseBatch(t) PROVE Collected'
  <2>1. Cardinality(open) \in Nat \ {0}
    BY <1>3, CountedFinite, FS_EmptySet DEF CloseBatch
  <2> QED
    BY <1>3, <2>1, CountedFinite DEF CloseBatch, Counting
<1>4. ASSUME NEW t \in Threads, LockProcessing(t) PROVE Collected'
  BY <1>4 DEF LockProcessing
<1>5. ASSUME NEW t \in Threads, Take(t) PROVE Collected'
  BY <1>5 DEF Take, Return
<1>6. ASSUME NEW t \in Threads, Send(t) PROVE Collected'
  BY <1>6 DEF Send, Loop
<1>7. ASSUME NEW t \in Threads, LockParse(t) PROVE Collected'
  BY <1>7 DEF LockParse, Loop
<1>8. ASSUME NEW t \in Threads, Parsed(t) PROVE Collected'
  BY <1>8 DEF Parsed, Loop
<1>9. ASSUME NEW t \in Threads, Settle(t) PROVE Collected'
  BY <1>9 DEF Settle, Loop
<1>10. ASSUME NEW t \in Threads, Reject(t) PROVE Collected'
  BY <1>10 DEF Reject, Loop
<1>11. ASSUME NEW t \in Threads, Rejected(t) PROVE Collected'
  BY <1>11 DEF Rejected, Return
<1>12. ASSUME NEW t \in Threads, CallbackCalls(t) PROVE Collected'
  BY <1>12 DEF CallbackCalls, Add
<1>13. ASSUME NEW t \in Threads, CallbackReturns(t) PROVE Collected'
  BY <1>13 DEF CallbackReturns, Loop
<1>14. ASSUME NEW t \in Threads, Relock(t) PROVE Collected'
  BY <1>14 DEF Relock
<1>15. CASE UNCHANGED vars
  BY <1>15 DEF vars
<1> QED
  BY <1>1, <1>2, <1>3, <1>4, <1>5, <1>6, <1>7, <1>8, <1>9, <1>10, <1>11, <1>12,
     <1>13, <1>14, <1>15
  DEF Next, Caller, Locking, Processing

(* Whatever batches are opened and closed while others run, requests that  *)
(* are collected always have an open batch or a runner that will send them.*)
THEOREM RequestsKept == Spec => []NothingStranded
<1>1. Init => Collected
  BY DEF Init, Collected
<1>2. TypeOK /\ Counting /\ Collected => NothingStranded
  <2> SUFFICES ASSUME TypeOK, Counting, Collected, preparedList # <<>>
               PROVE  open # {} \/ Runners # {}
    BY DEF NothingStranded
  <2>1. Cardinality(open) # 0 \/ Cardinality(Runners) # 0
    BY CountedFinite DEF Counting, Collected, TypeOK
  <2> QED
    BY <2>1, FS_EmptySet
<1> QED
  BY InitCounted, TypeStep, CountingStep, CollectedStep, <1>1, <1>2, PTL DEF Spec

-----------------------------------------------------------------------------
(* Only the holder of processingAccess is inside runBatch.                 *)
OneInside == \A t \in Threads : pc[t] \in Inside => processingAccess = {t}

LEMMA OneInsideStep == TypeOK /\ OneInside /\ [Next]_vars => OneInside'
<1> SUFFICES ASSUME TypeOK, OneInside, [Next]_vars
             PROVE  OneInside'
  OBVIOUS
<1> USE DEF TypeOK, Goto, lists, OneInside, Inside
<1>1. ASSUME NEW t \in Threads, CallAsync(t) PROVE OneInside'
  BY <1>1 DEF CallAsync, Add
<1>2. ASSUME NEW t \in Threads, BeginBatch(t) PROVE OneInside'
  BY <1>2 DEF BeginBatch
<1>3. ASSUME NEW t \in Threads, CloseBatch(t) PROVE OneInside'
  BY <1>3 DEF CloseBatch
<1>4. ASSUME NEW t \in Threads, LockProcessing(t) PROVE OneInside'
  BY <1>4 DEF LockProcessing
<1>5. ASSUME NEW t \in Threads, Take(t) PROVE OneInside'
  BY <1>5 DEF Take, Return
<1>6. ASSUME NEW t \in Threads, Send(t) PROVE OneInside'
  BY <1>6 DEF Send, Loop
<1>7. ASSUME NEW t \in Threads, LockParse(t) PROVE OneInside'
  BY <1>7 DEF LockParse, Loop
<1>8. ASSUME NEW t \in Threads, Parsed(t) PROVE OneInside'
  BY <1>8 DEF Parsed, Loop
<1>9. ASSUME NEW t \in Threads, Settle(t) PROVE OneInside'
  BY <1>9 DEF Settle, Loop
<1>10. ASSUME NEW t \in Threads, Reject(t) PROVE OneInside'
  BY <1>10 DEF Reject, Loop
<1>11. ASSUME NEW t \in Threads, Rejected(t) PROVE OneInside'
  BY <1>11 DEF Rejected, Return
<1>12. ASSUME NEW t \in Threads, CallbackCalls(t) PROVE OneInside'
  BY <1>12 DEF CallbackCalls, Add
<1>13. ASSUME NEW t \in Threads, CallbackReturns(t) PROVE OneInside'
  BY <1>13 DEF CallbackReturns, Loop
<1>14. ASSUME NEW t \in Threads, Relock(t) PROVE OneInside'
  BY <1>14 DEF Relock
<1>15. CASE UNCHANGED vars
  BY <1>15 DEF vars
<1> QED
  BY <1>1, <1>2, <1>3, <1>4, <1>5, <1>6, <1>7, <1>8, <1>9, <1>10, <1>11, <1>12,
     <1>13, <1>14, <1>15
  DEF Next, Caller, Locking, Processing

(* The id of a request is its position, and a response that is about to    *)
(* settle the request at its position is the response to that request.     *)
IdsMatch ==
    /\ \A i \in DOMAIN preparedList : preparedList[i].id = i - 1
    /\ \A i \in DOMAIN processing : processing[i].id = i - 1

ResponseMatches ==
    \A t \in Threads : pc[t] = "settle" =>
      (response.id + 1 \in DOMAIN processing =>
         processing[response.id + 1].call = response.to)

LEMMA IdsMatchStep == TypeOK /\ IdsMatch /\ [Next]_vars => IdsMatch'
<1> SUFFICES ASSUME TypeOK, IdsMatch, [Next]_vars
             PROVE  IdsMatch'
  OBVIOUS
<1> USE DEF TypeOK, Goto, lists, IdsMatch
<1>1. ASSUME NEW t \in Threads, CallAsync(t) PROVE IdsMatch'
  BY <1>1 DEF CallAsync, Add
<1>2. ASSUME NEW t \in Threads, BeginBatch(t) PROVE IdsMatch'
  BY <1>2 DEF BeginBatch
<1>3. ASSUME NEW t \in Threads, CloseBatch(t) PROVE IdsMatch'
  BY <1>3 DEF CloseBatch
<1>4. ASSUME NEW t \in Threads, LockProcessing(t) PROVE IdsMatch'
  BY <1>4 DEF LockProcessing
<1>5. ASSUME NEW t \in Threads, Take(t) PROVE IdsMatch'
  BY <1>5 DEF Take, Return
<1>6. ASSUME NEW t \in Threads, Send(t) PROVE IdsMatch'
  BY <1>6 DEF Send, Loop
<1>7. ASSUME NEW t \in Threads, LockParse(t) PROVE IdsMatch'
  BY <1>7 DEF LockParse, Loop
<1>8. ASSUME NEW t \in Threads, Parsed(t) PROVE IdsMatch'
  BY <1>8 DEF Parsed, Loop
<1>9. ASSUME NEW t \in Threads, Settle(t) PROVE IdsMatch'
  BY <1>9 DEF Settle, Loop
<1>10. ASSUME NEW t \in Threads, Reject(t) PROVE IdsMatch'
  BY <1>10 DEF Reject, Loop
<1>11. ASSUME NEW t \in Threads, Rejected(t) PROVE IdsMatch'
  BY <1>11 DEF Rejected, Return
<1>12. ASSUME NEW t \in Threads, CallbackCalls(t) PROVE IdsMatch'
  BY <1>12 DEF CallbackCalls, Add
<1>13. ASSUME NEW t \in Threads, CallbackReturns(t) PROVE IdsMatch'
  BY <1>13 DEF CallbackReturns, Loop
<1>14. ASSUME NEW t \in Threads, Relock(t) PROVE IdsMatch'
  BY <1>14 DEF Relock
<1>15. CASE UNCHANGED vars
  BY <1>15 DEF vars
<1> QED
  BY <1>1, <1>2, <1>3, <1>4, <1>5, <1>6, <1>7, <1>8, <1>9, <1>10, <1>11, <1>12,
     <1>13, <1>14, <1>15
  DEF Next, Caller, Locking, Processing

LEMMA ResponseMatchesStep ==
    TypeOK /\ OneInside /\ IdsMatch /\ ResponseMatches /\ [Next]_vars => ResponseMatches'
<1> SUFFICES ASSUME TypeOK, OneInside, IdsMatch, ResponseMatches, [Next]_vars
             PROVE  ResponseMatches'
  OBVIOUS
<1> USE DEF TypeOK, Goto, lists, OneInside, Inside, ResponseMatches
<1>1. ASSUME NEW t \in Threads, CallAsync(t) PROVE ResponseMatches'
  BY <1>1 DEF CallAsync, Add
<1>2. ASSUME NEW t \in Threads, BeginBatch(t) PROVE ResponseMatches'
  BY <1>2 DEF BeginBatch
<1>3. ASSUME NEW t \in Threads, CloseBatch(t) PROVE ResponseMatches'
  BY <1>3 DEF CloseBatch
<1>4. ASSUME NEW t \in Threads, LockProcessing(t) PROVE ResponseMatches'
  BY <1>4 DEF LockProcessing
<1>5. ASSUME NEW t \in Threads, Take(t) PROVE ResponseMatches'
  BY <1>5 DEF Take, Return
<1>6. ASSUME NEW t \in Threads, Send(t) PROVE ResponseMatches'
  BY <1>6 DEF Send, Loop
<1>7. ASSUME NEW t \in Threads, LockParse(t) PROVE ResponseMatches'
  BY <1>7 DEF LockParse, Loop
<1>8. ASSUME NEW t \in Threads, Parsed(t) PROVE ResponseMatches'
  <2>1. processing' = processing /\ DOMAIN processing = 1..Len(processing)
    BY <1>8 DEF Parsed, Loop
  <2>2. \A u \in Threads : pc'[u] = "settle" => u = t
    BY <1>8 DEF Parsed
  <2>3. CASE response' = Ignored
    BY <2>1, <2>3 DEF Ignored
  <2>4. ASSUME NEW i \in DOMAIN processing,
               response' = [id |-> processing[i].id, to |-> processing[i].call]
        PROVE  ResponseMatches'
    <3>1. response'.id + 1 = i /\ response'.to = processing[i].call
      BY <2>4 DEF IdsMatch
    <3> QED
      BY <2>1, <3>1
  <2>5. CASE Goto(t, "fail")
    BY <1>8, <2>2, <2>5 DEF Parsed
  <2> QED
    BY <1>8, <2>3, <2>4, <2>5 DEF Parsed
<1>9. ASSUME NEW t \in Threads, Settle(t) PROVE ResponseMatches'
  BY <1>9 DEF Settle, Loop
<1>10. ASSUME NEW t \in Threads, Reject(t) PROVE ResponseMatches'
  BY <1>10 DEF Reject, Loop
<1>11. ASSUME NEW t \in Threads, Rejected(t) PROVE ResponseMatches'
  BY <1>11 DEF Rejected, Return
<1>12. ASSUME NEW t \in Threads, CallbackCalls(t) PROVE ResponseMatches'
  BY <1>12 DEF CallbackCalls, Add
<1>13. ASSUME NEW t \in Threads, CallbackReturns(t) PROVE ResponseMatches'
  BY <1>13 DEF CallbackReturns, Loop
<1>14. ASSUME NEW t \in Threads, Relock(t) PROVE ResponseMatches'
  BY <1>14 DEF Relock
<1>15. CASE UNCHANGED vars
  BY <1>15 DEF vars
<1> QED
  BY <1>1, <1>2, <1>3, <1>4, <1>5, <1>6, <1>7, <1>8, <1>9, <1>10, <1>11, <1>12,
     <1>13, <1>14, <1>15
  DEF Next, Caller, Locking, Processing

LEMMA AddMakes ==
    ASSUME NEW t \in Threads, NEW c \in Calls, NEW here, Add(t, c, here)
    PROVE  Abstract!Next
BY DEF Add, Abstract!Next, Abstract!Make

LEMMA SettledSettles ==
    ASSUME NEW c \in Calls, NEW o \in {c, "failed"}, outcome' = Settled(c, o)
    PROVE  Abstract!Next \/ outcome' = outcome
BY DEF Settled, Abstract!Next, Abstract!Settle

(* Every step of the client makes one call, settles one call by its own    *)
(* response or by a failure, or changes no future.                         *)
LEMMA StepSettlesOne ==
    TypeOK /\ ResponseMatches /\ [Next]_vars => [Abstract!Next]_outcome
<1> SUFFICES ASSUME TypeOK, ResponseMatches, [Next]_vars
             PROVE  Abstract!Next \/ outcome' = outcome
  OBVIOUS
<1>1. ASSUME NEW t \in Threads, CallAsync(t) PROVE Abstract!Next \/ outcome' = outcome
  BY <1>1, AddMakes DEF CallAsync
<1>2. ASSUME NEW t \in Threads, BeginBatch(t) PROVE Abstract!Next \/ outcome' = outcome
  BY <1>2 DEF BeginBatch, Loop
<1>3. ASSUME NEW t \in Threads, CloseBatch(t) PROVE Abstract!Next \/ outcome' = outcome
  BY <1>3 DEF CloseBatch, Loop
<1>4. ASSUME NEW t \in Threads, LockProcessing(t) PROVE Abstract!Next \/ outcome' = outcome
  BY <1>4 DEF LockProcessing, Loop
<1>5. ASSUME NEW t \in Threads, Take(t) PROVE Abstract!Next \/ outcome' = outcome
  BY <1>5 DEF Take, Loop
<1>6. ASSUME NEW t \in Threads, Send(t) PROVE Abstract!Next \/ outcome' = outcome
  BY <1>6 DEF Send, Loop
<1>7. ASSUME NEW t \in Threads, LockParse(t) PROVE Abstract!Next \/ outcome' = outcome
  BY <1>7 DEF LockParse, Loop
<1>8. ASSUME NEW t \in Threads, Parsed(t) PROVE Abstract!Next \/ outcome' = outcome
  BY <1>8 DEF Parsed, Loop
<1>9. ASSUME NEW t \in Threads, Settle(t) PROVE Abstract!Next \/ outcome' = outcome
  <2> DEFINE i == response.id + 1
  <2>1. CASE i \in DOMAIN processing /\ i \notin done
    <3>1. processing[i] \in Requests
      BY <2>1 DEF TypeOK
    <3>2. processing[i].call \in Calls /\ response.to = processing[i].call
      BY <1>9, <2>1, <3>1 DEF Settle, ResponseMatches, Requests
    <3>3. outcome' = Settled(processing[i].call, processing[i].call)
      BY <1>9, <2>1, <3>2 DEF Settle
    <3> QED
      BY <3>2, <3>3, SettledSettles
  <2>2. CASE ~(i \in DOMAIN processing /\ i \notin done)
    BY <1>9, <2>2 DEF Settle
  <2> QED
    BY <2>1, <2>2
<1>10. ASSUME NEW t \in Threads, Reject(t) PROVE Abstract!Next \/ outcome' = outcome
  <2>1. CASE at \in done /\ pc[t] # "reject"
    BY <1>10, <2>1 DEF Reject
  <2>2. CASE ~(at \in done /\ pc[t] # "reject")
    <3>1. processing[at] \in Requests
      BY <1>10 DEF Reject, TypeOK
    <3>2. outcome' = Settled(processing[at].call, "failed")
      BY <1>10, <2>2 DEF Reject
    <3> QED
      BY <3>1, <3>2, SettledSettles DEF Requests
  <2> QED
    BY <2>1, <2>2
<1>11. ASSUME NEW t \in Threads, Rejected(t) PROVE Abstract!Next \/ outcome' = outcome
  BY <1>11 DEF Rejected, Loop
<1>12. ASSUME NEW t \in Threads, CallbackCalls(t) PROVE Abstract!Next \/ outcome' = outcome
  BY <1>12, AddMakes DEF CallbackCalls
<1>13. ASSUME NEW t \in Threads, CallbackReturns(t) PROVE Abstract!Next \/ outcome' = outcome
  BY <1>13 DEF CallbackReturns, Loop
<1>14. ASSUME NEW t \in Threads, Relock(t) PROVE Abstract!Next \/ outcome' = outcome
  BY <1>14 DEF Relock, Loop
<1>15. CASE UNCHANGED vars
  BY <1>15 DEF vars
<1> QED
  BY <1>1, <1>2, <1>3, <1>4, <1>5, <1>6, <1>7, <1>8, <1>9, <1>10, <1>11, <1>12,
     <1>13, <1>14, <1>15
  DEF Next, Caller, Locking, Processing

LEMMA InitMatches == Init => OneInside /\ IdsMatch /\ ResponseMatches
BY DEF Init, OneInside, IdsMatch, ResponseMatches, Inside

(* The client implements RpcCalls: whatever the server answers and in      *)
(* whatever order, and whatever fails, a call is settled at most once, and *)
(* by the response to this very call or by a failure.                      *)
THEOREM ImplementsCalls == Spec => EachCallOnce
<1>1. Init => Abstract!Init
  BY DEF Init, Abstract!Init
<1> QED
  BY <1>1, InitCounted, InitMatches, TypeStep, CountingStep, OneInsideStep,
     IdsMatchStep, ResponseMatchesStep, StepSettlesOne, PTL
  DEF Spec, EachCallOnce, Abstract!Spec

-----------------------------------------------------------------------------
(* What runBatch has still to do, for NoCallLost: the calls in the lists   *)
(* are made, nobody but the sender has a batch, and a future of the batch  *)
(* that is not settled is still ahead of the loop that settles or rejects. *)
Made ==
    /\ \A i \in DOMAIN preparedList : outcome[preparedList[i].call] # "none"
    /\ \A i \in DOMAIN processing : outcome[processing[i].call] # "none"

NoBatchOutside ==
    /\ processingAccess = {} => processing = <<>>
    /\ \A t \in Threads : pc[t] = "take" => processing = <<>>

Place(t) == IF pc[t] = "callback" THEN next ELSE pc[t]

Ahead(t, i) ==
    \/ Place(t) \in {"send", "parse", "parsing", "settle"} /\ i \notin done
    \/ Place(t) \in {"sweep", "fail"} /\ i \notin done /\ at <= i
    \/ Place(t) = "reject" /\ at <= i

UnsettledAhead ==
    \A t \in Threads : pc[t] \in Inside =>
      \A i \in DOMAIN processing :
        outcome[processing[i].call] = "pending" => Ahead(t, i)

LEMMA InListIsCall ==
    ASSUME TypeOK
    PROVE  /\ \A i \in DOMAIN preparedList : preparedList[i].call \in Calls
           /\ \A i \in DOMAIN processing : processing[i].call \in Calls
<1>1. /\ \A i \in DOMAIN preparedList : preparedList[i] \in Requests
      /\ \A i \in DOMAIN processing : processing[i] \in Requests
  BY DEF TypeOK
<1> QED
  BY <1>1 DEF Requests

(* A settlement settles the call it is for, and makes or unmakes none.     *)
LEMMA SettledFacts ==
    ASSUME TypeOK, NEW c \in Calls, NEW o \in Calls \cup {"failed"},
           outcome' = Settled(c, o)
    PROVE  \A d \in Calls :
             /\ outcome[d] # "none" => outcome'[d] # "none"
             /\ outcome'[d] = "pending" => outcome[d] = "pending" /\ d # c
BY BatchAssumption DEF TypeOK, Settled

(* What one step of the loops over responses and rejections does.          *)
LEMMA SettleFacts ==
    ASSUME TypeOK, NEW t \in Threads, Settle(t)
    PROVE  LET i == response.id + 1
           IN  \/ /\ i \in DOMAIN processing /\ done' = done \cup {i}
                  /\ outcome' = Settled(processing[i].call, response.to)
                  /\ response.to \in Calls
               \/ outcome' = outcome /\ done' = done
<1> DEFINE i == response.id + 1
<1>1. i \in DOMAIN processing => response.to \in Calls
  BY DEF TypeOK, Responses
<1> QED
  BY <1>1 DEF Settle

LEMMA RejectFacts ==
    ASSUME TypeOK, NEW t \in Threads, Reject(t)
    PROVE  /\ at \in DOMAIN processing
           /\ \/ at \in done /\ pc[t] # "reject" /\ outcome' = outcome /\ pc' = pc
              \/ /\ outcome' = Settled(processing[at].call, "failed")
                 /\ pc' = [pc EXCEPT ![t] = "callback"] /\ next' = pc[t]
BY DEF Reject, TypeOK, Goto

LEMMA MadeStep == TypeOK /\ Made /\ [Next]_vars => Made'
<1> SUFFICES ASSUME TypeOK, Made, [Next]_vars
             PROVE  Made'
  OBVIOUS
<1> USE DEF TypeOK, Goto, lists, Made, Requests
<1>1. ASSUME NEW t \in Threads, CallAsync(t) PROVE Made'
  BY <1>1 DEF CallAsync, Add
<1>2. ASSUME NEW t \in Threads, BeginBatch(t) PROVE Made'
  BY <1>2 DEF BeginBatch
<1>3. ASSUME NEW t \in Threads, CloseBatch(t) PROVE Made'
  BY <1>3 DEF CloseBatch
<1>4. ASSUME NEW t \in Threads, LockProcessing(t) PROVE Made'
  BY <1>4 DEF LockProcessing
<1>5. ASSUME NEW t \in Threads, Take(t) PROVE Made'
  BY <1>5 DEF Take, Return
<1>6. ASSUME NEW t \in Threads, Send(t) PROVE Made'
  BY <1>6 DEF Send, Loop
<1>7. ASSUME NEW t \in Threads, LockParse(t) PROVE Made'
  BY <1>7 DEF LockParse, Loop
<1>8. ASSUME NEW t \in Threads, Parsed(t) PROVE Made'
  BY <1>8 DEF Parsed, Loop
<1>9. ASSUME NEW t \in Threads, Settle(t) PROVE Made'
  <2>1. \A d \in Calls : outcome[d] # "none" => outcome'[d] # "none"
    BY <1>9, SettleFacts, SettledFacts, InListIsCall
  <2> QED
    BY <1>9, <2>1, InListIsCall DEF Settle, Loop
<1>10. ASSUME NEW t \in Threads, Reject(t) PROVE Made'
  <2>1. \A d \in Calls : outcome[d] # "none" => outcome'[d] # "none"
    BY <1>10, RejectFacts, SettledFacts, InListIsCall
  <2> QED
    BY <1>10, <2>1, InListIsCall DEF Reject, Loop
<1>11. ASSUME NEW t \in Threads, Rejected(t) PROVE Made'
  BY <1>11 DEF Rejected, Return
<1>12. ASSUME NEW t \in Threads, CallbackCalls(t) PROVE Made'
  BY <1>12 DEF CallbackCalls, Add
<1>13. ASSUME NEW t \in Threads, CallbackReturns(t) PROVE Made'
  BY <1>13 DEF CallbackReturns, Loop
<1>14. ASSUME NEW t \in Threads, Relock(t) PROVE Made'
  BY <1>14 DEF Relock
<1>15. CASE UNCHANGED vars
  BY <1>15 DEF vars
<1> QED
  BY <1>1, <1>2, <1>3, <1>4, <1>5, <1>6, <1>7, <1>8, <1>9, <1>10, <1>11, <1>12,
     <1>13, <1>14, <1>15
  DEF Next, Caller, Locking, Processing

LEMMA NoBatchOutsideStep ==
    TypeOK /\ OneInside /\ NoBatchOutside /\ [Next]_vars => NoBatchOutside'
<1> SUFFICES ASSUME TypeOK, OneInside, NoBatchOutside, [Next]_vars
             PROVE  NoBatchOutside'
  OBVIOUS
<1> USE DEF TypeOK, Goto, lists, OneInside, Inside, NoBatchOutside
<1>1. ASSUME NEW t \in Threads, CallAsync(t) PROVE NoBatchOutside'
  BY <1>1 DEF CallAsync, Add
<1>2. ASSUME NEW t \in Threads, BeginBatch(t) PROVE NoBatchOutside'
  BY <1>2 DEF BeginBatch
<1>3. ASSUME NEW t \in Threads, CloseBatch(t) PROVE NoBatchOutside'
  BY <1>3 DEF CloseBatch
<1>4. ASSUME NEW t \in Threads, LockProcessing(t) PROVE NoBatchOutside'
  BY <1>4 DEF LockProcessing
<1>5. ASSUME NEW t \in Threads, Take(t) PROVE NoBatchOutside'
  BY <1>5 DEF Take, Return
<1>6. ASSUME NEW t \in Threads, Send(t) PROVE NoBatchOutside'
  BY <1>6 DEF Send, Loop
<1>7. ASSUME NEW t \in Threads, LockParse(t) PROVE NoBatchOutside'
  BY <1>7 DEF LockParse, Loop
<1>8. ASSUME NEW t \in Threads, Parsed(t) PROVE NoBatchOutside'
  BY <1>8 DEF Parsed, Loop
<1>9. ASSUME NEW t \in Threads, Settle(t) PROVE NoBatchOutside'
  BY <1>9 DEF Settle, Loop
<1>10. ASSUME NEW t \in Threads, Reject(t) PROVE NoBatchOutside'
  BY <1>10 DEF Reject, Loop
<1>11. ASSUME NEW t \in Threads, Rejected(t) PROVE NoBatchOutside'
  BY <1>11 DEF Rejected, Return
<1>12. ASSUME NEW t \in Threads, CallbackCalls(t) PROVE NoBatchOutside'
  BY <1>12 DEF CallbackCalls, Add
<1>13. ASSUME NEW t \in Threads, CallbackReturns(t) PROVE NoBatchOutside'
  BY <1>13 DEF CallbackReturns, Loop
<1>14. ASSUME NEW t \in Threads, Relock(t) PROVE NoBatchOutside'
  BY <1>14 DEF Relock
<1>15. CASE UNCHANGED vars
  BY <1>15 DEF vars
<1> QED
  BY <1>1, <1>2, <1>3, <1>4, <1>5, <1>6, <1>7, <1>8, <1>9, <1>10, <1>11, <1>12,
     <1>13, <1>14, <1>15
  DEF Next, Caller, Locking, Processing

LEMMA UnsettledAheadStep ==
    TypeOK /\ OneInside /\ Made /\ NoBatchOutside /\ UnsettledAhead /\ [Next]_vars
      => UnsettledAhead'
<1> SUFFICES ASSUME TypeOK, OneInside, Made, NoBatchOutside, UnsettledAhead, [Next]_vars
             PROVE  UnsettledAhead'
  OBVIOUS
<1> USE DEF TypeOK, Goto, lists, OneInside, Inside, Made, NoBatchOutside,
            UnsettledAhead, Ahead, Place, Requests
<1>1. ASSUME NEW t \in Threads, CallAsync(t) PROVE UnsettledAhead'
  <2>1. \A i \in DOMAIN processing :
          outcome'[processing[i].call] = "pending" => outcome[processing[i].call] = "pending"
    BY <1>1, InListIsCall DEF CallAsync, Add
  <2>2. \A u \in Threads : pc'[u] \in Inside => u # t /\ pc'[u] = pc[u]
    BY <1>1 DEF CallAsync, Add
  <2> QED
    BY <1>1, <2>1, <2>2 DEF CallAsync, Add
<1>2. ASSUME NEW t \in Threads, BeginBatch(t) PROVE UnsettledAhead'
  BY <1>2 DEF BeginBatch
<1>3. ASSUME NEW t \in Threads, CloseBatch(t) PROVE UnsettledAhead'
  BY <1>3 DEF CloseBatch
<1>4. ASSUME NEW t \in Threads, LockProcessing(t) PROVE UnsettledAhead'
  BY <1>4 DEF LockProcessing
<1>5. ASSUME NEW t \in Threads, Take(t) PROVE UnsettledAhead'
  BY <1>5 DEF Take, Return
<1>6. ASSUME NEW t \in Threads, Send(t) PROVE UnsettledAhead'
  BY <1>6 DEF Send, Loop
<1>7. ASSUME NEW t \in Threads, LockParse(t) PROVE UnsettledAhead'
  BY <1>7 DEF LockParse, Loop
<1>8. ASSUME NEW t \in Threads, Parsed(t) PROVE UnsettledAhead'
  BY <1>8 DEF Parsed, Loop
<1>9. ASSUME NEW t \in Threads, Settle(t) PROVE UnsettledAhead'
  <2> DEFINE i == response.id + 1
  <2>1. /\ processing' = processing /\ Place(t)' = "parse"
        /\ \A u \in Threads : pc'[u] \in Inside => u = t
    BY <1>9 DEF Settle, Loop
  <2>2. \A j \in DOMAIN processing :
          outcome'[processing[j].call] = "pending" =>
            outcome[processing[j].call] = "pending" /\ j \notin done'
    <3>1. \A j \in DOMAIN processing :
            outcome[processing[j].call] = "pending" => j \notin done
      BY <1>9 DEF Settle
    <3>2. CASE /\ i \in DOMAIN processing /\ done' = done \cup {i}
               /\ outcome' = Settled(processing[i].call, response.to)
               /\ response.to \in Calls
      BY <3>1, <3>2, SettledFacts, InListIsCall
    <3>3. CASE outcome' = outcome /\ done' = done
      BY <3>1, <3>3
    <3> QED
      BY <1>9, <3>2, <3>3, SettleFacts
  <2> QED
    BY <2>1, <2>2
<1>10. ASSUME NEW t \in Threads, Reject(t) PROVE UnsettledAhead'
  <2>1. /\ processing' = processing /\ done' = done /\ at' = at + 1
        /\ pc[t] \in {"sweep", "reject", "fail"} /\ Place(t)' = pc[t]
        /\ \A u \in Threads : pc'[u] \in Inside => u = t
    BY <1>10 DEF Reject, Loop
  <2>2. \A j \in DOMAIN processing :
          outcome'[processing[j].call] = "pending" =>
            outcome[processing[j].call] = "pending" /\ Ahead(t, j) /\ j # at
    <3>1. \A j \in DOMAIN processing :
            outcome[processing[j].call] = "pending" => Ahead(t, j)
      BY <2>1
    <3>2. CASE at \in done /\ pc[t] # "reject" /\ outcome' = outcome
      BY <2>1, <3>1, <3>2
    <3>3. CASE outcome' = Settled(processing[at].call, "failed")
      BY <1>10, <3>1, <3>3, SettledFacts, InListIsCall, RejectFacts
    <3> QED
      BY <1>10, <3>2, <3>3, RejectFacts
  <2> QED
    BY <2>1, <2>2
<1>11. ASSUME NEW t \in Threads, Rejected(t) PROVE UnsettledAhead'
  BY <1>11 DEF Rejected, Return
<1>12. ASSUME NEW t \in Threads, CallbackCalls(t) PROVE UnsettledAhead'
  BY <1>12 DEF CallbackCalls, Add
<1>13. ASSUME NEW t \in Threads, CallbackReturns(t) PROVE UnsettledAhead'
  BY <1>13 DEF CallbackReturns, Loop
<1>14. ASSUME NEW t \in Threads, Relock(t) PROVE UnsettledAhead'
  BY <1>14 DEF Relock
<1>15. CASE UNCHANGED vars
  BY <1>15 DEF vars
<1> QED
  BY <1>1, <1>2, <1>3, <1>4, <1>5, <1>6, <1>7, <1>8, <1>9, <1>10, <1>11, <1>12,
     <1>13, <1>14, <1>15
  DEF Next, Caller, Locking, Processing

LEMMA AddListed ==
    ASSUME TypeOK, NoCallLost, NEW t \in Threads, NEW c \in Calls, NEW here, Add(t, c, here)
    PROVE  NoCallLost'
<1> USE DEF TypeOK, Add, InList, NoCallLost
<1>1. /\ \A i \in DOMAIN preparedList :
           i \in DOMAIN preparedList' /\ preparedList'[i] = preparedList[i]
      /\ Len(preparedList) + 1 \in DOMAIN preparedList'
      /\ preparedList'[Len(preparedList) + 1].call = c
  OBVIOUS
<1>2. \A d \in Calls : outcome'[d] = "pending" => d = c \/ outcome[d] = "pending"
  OBVIOUS
<1> QED
  BY <1>1, <1>2

LEMMA NoCallLostStep ==
    TypeOK /\ NoBatchOutside /\ UnsettledAhead /\ NoCallLost /\ [Next]_vars
      => NoCallLost'
<1> SUFFICES ASSUME TypeOK, NoBatchOutside, UnsettledAhead, NoCallLost, [Next]_vars
             PROVE  NoCallLost'
  OBVIOUS
<1> USE DEF TypeOK, Goto, lists, InList, NoCallLost
<1>1. ASSUME NEW t \in Threads, CallAsync(t) PROVE NoCallLost'
  BY <1>1, AddListed DEF CallAsync
<1>2. ASSUME NEW t \in Threads, BeginBatch(t) PROVE NoCallLost'
  BY <1>2 DEF BeginBatch
<1>3. ASSUME NEW t \in Threads, CloseBatch(t) PROVE NoCallLost'
  BY <1>3 DEF CloseBatch
<1>4. ASSUME NEW t \in Threads, LockProcessing(t) PROVE NoCallLost'
  BY <1>4 DEF LockProcessing
<1>5. ASSUME NEW t \in Threads, Take(t) PROVE NoCallLost'
  BY <1>5 DEF Take, Return, NoBatchOutside
<1>6. ASSUME NEW t \in Threads, Send(t) PROVE NoCallLost'
  BY <1>6 DEF Send, Loop
<1>7. ASSUME NEW t \in Threads, LockParse(t) PROVE NoCallLost'
  BY <1>7 DEF LockParse, Loop
<1>8. ASSUME NEW t \in Threads, Parsed(t) PROVE NoCallLost'
  BY <1>8 DEF Parsed, Loop
<1>9. ASSUME NEW t \in Threads, Settle(t) PROVE NoCallLost'
  <2>1. \A c \in Calls : outcome'[c] = "pending" => outcome[c] = "pending"
    BY <1>9, SettleFacts, SettledFacts, InListIsCall
  <2> QED
    BY <1>9, <2>1 DEF Settle, Loop
<1>10. ASSUME NEW t \in Threads, Reject(t) PROVE NoCallLost'
  <2>1. \A c \in Calls : outcome'[c] = "pending" => outcome[c] = "pending"
    BY <1>10, RejectFacts, SettledFacts, InListIsCall
  <2> QED
    BY <1>10, <2>1 DEF Reject, Loop
<1>11. ASSUME NEW t \in Threads, Rejected(t) PROVE NoCallLost'
  <2>1. \A i \in DOMAIN processing : outcome[processing[i].call] # "pending"
    BY <1>11 DEF Rejected, UnsettledAhead, Ahead, Place, Inside
  <2> QED
    BY <1>11, <2>1 DEF Rejected, Return
<1>12. ASSUME NEW t \in Threads, CallbackCalls(t) PROVE NoCallLost'
  BY <1>12, AddListed DEF CallbackCalls
<1>13. ASSUME NEW t \in Threads, CallbackReturns(t) PROVE NoCallLost'
  BY <1>13 DEF CallbackReturns, Loop
<1>14. ASSUME NEW t \in Threads, Relock(t) PROVE NoCallLost'
  BY <1>14 DEF Relock
<1>15. CASE UNCHANGED vars
  BY <1>15 DEF vars
<1> QED
  BY <1>1, <1>2, <1>3, <1>4, <1>5, <1>6, <1>7, <1>8, <1>9, <1>10, <1>11, <1>12,
     <1>13, <1>14, <1>15
  DEF Next, Caller, Locking, Processing

LEMMA InitListed == Init => Made /\ NoBatchOutside /\ UnsettledAhead /\ NoCallLost
BY DEF Init, Made, NoBatchOutside, UnsettledAhead, NoCallLost, Inside

(* Whatever fails while a batch is sent and its responses are read, a call *)
(* whose future is not settled is still in one of the two lists.           *)
THEOREM CallsKept == Spec => []NoCallLost
<1> QED
  BY InitCounted, InitMatches, InitListed, TypeStep, CountingStep, OneInsideStep,
     MadeStep, NoBatchOutsideStep, UnsettledAheadStep, NoCallLostStep, PTL
  DEF Spec

(* What the run checks as one invariant: the types, the counter of batches *)
(* and the list that it guards.                                            *)
THEOREM AlwaysConsistent == Spec => []Consistent
<1>1. TypeOK /\ Counting /\ NothingStranded => Consistent
  BY DEF Consistent
<1> QED
  BY <1>1, TypeCorrect, BatchesCounted, RequestsKept, PTL
=============================================================================
