---------------------------- MODULE WsRpc_proofs ----------------------------
(***************************************************************************)
(* Theorems about WsRpc, for any connections, threads and number of        *)
(* permits; and about RpcPage, for any script, bodies and methods.         *)
(***************************************************************************)
EXTENDS WsRpc, RpcPage, FiniteSetTheorems, SequenceTheorems, TLAPS

Writing == {"member", "write", "poll", "rewait"}

(* A thread that writes knows what for, and only a connection's own thread *)
(* calls, responds or destroys.                                            *)
Tasks ==
    \A a \in Actors :
       /\ pc[a] \in Writing => task[a] \in {"each", "call", "response"}
       /\ task[a] \in {"call", "response"} => target[a] = a
       /\ a \in Jobs => task[a] \in {"none", "each"}

TInv == TypeOK /\ Tasks

LEMMA TypeInit == Init => TInv
<1> SUFFICES ASSUME Init PROVE TInv
  OBVIOUS
<1>1. \A a \in Actors : target[a] \in Conns
  BY WsRpcAssumption DEF Init
<1>2. permits \in Nat
  BY WsRpcAssumption DEF Init
<1> QED
  BY <1>1, <1>2 DEF Init, TInv, TypeOK, Tasks, Places, Writing, Actors

(* A thread goes on, and what it aims at is something to aim at. *)
LEMMA Moved ==
    ASSUME TInv, NEW a \in Actors, NEW p \in Places, Goto(a, p), UNCHANGED <<target, task>>,
           p \in Writing => task[a] \in {"each", "call", "response"}
    PROVE  Tasks' /\ pc' \in [Actors -> Places]
BY DEF TInv, TypeOK, Tasks, Goto

LEMMA Aimed ==
    ASSUME TInv, NEW a \in Actors, NEW p \in Places, Goto(a, p), NEW x \in Conns, NEW why, Aim(a, x, why),
           why \in {"each", "call", "response", "destroy"}, a \in Jobs => why = "each",
           why \in {"call", "response"} => x = a, p \in Writing => why # "destroy"
    PROVE  /\ Tasks' /\ pc' \in [Actors -> Places]
           /\ task' \in [Actors -> {"none", "each", "call", "response", "destroy"}]
           /\ target' \in [Actors -> Conns]
BY DEF TInv, TypeOK, Tasks, Goto, Aim

LEMMA ResolveTyped ==
    ASSUME TInv, NEW a \in Actors, NEW x \in Conns, NEW why \in {"each", "destroy"},
           a \in Jobs => why = "each", Resolve(a, x, why),
           toRemove' \in [Actors -> SUBSET Conns], UNCHANGED collector,
           lock' \in [Conns -> SUBSET Actors], permits' \in Nat
    PROVE  TInv'
<1>1. PICK p \in {"remove", "closing"} : Goto(a, p)
  BY DEF Resolve
<1>2. Aim(a, x, why) /\ p \in Places /\ p \notin Writing
  BY <1>1 DEF Resolve, Places, Writing
<1>3. /\ Tasks' /\ pc' \in [Actors -> Places]
      /\ task' \in [Actors -> {"none", "each", "call", "response", "destroy"}]
      /\ target' \in [Actors -> Conns]
  BY <1>1, <1>2, Aimed
<1> QED
  BY <1>3 DEF TInv, TypeOK, Resolve

LEMMA ReadTyped ==
    ASSUME TInv, NEW x \in Conns, Reads(x)
    PROVE  TInv'
<1>0. x \in Actors /\ x \notin Jobs /\ TypeOK
  BY WsRpcAssumption DEF Actors, TInv
<1>1. CASE Event(x)
  <2>1. Tasks' /\ pc' \in [Actors -> Places]
    BY <1>0, <1>1, Moved DEF Event, locals, Places, Writing
  <2> QED
    BY <1>0, <1>1, <2>1 DEF Event, TInv, TypeOK, locals, conns
<1>2. CASE Enter(x)
  <2>1. permits' \in Nat
    BY <1>0, <1>2 DEF Enter, TypeOK
  <2>2. CASE Goto(x, "own") /\ UNCHANGED <<locals, conns>>
    <3>1. Tasks' /\ pc' \in [Actors -> Places]
      BY <1>0, <2>2, Moved DEF locals, Places, Writing
    <3> QED
      BY <1>0, <1>2, <2>1, <2>2, <3>1 DEF Enter, TInv, TypeOK, locals, conns
  <2>3. CASE Resolve(x, x, "destroy") /\ UNCHANGED toRemove
    BY <1>0, <1>2, <2>1, <2>3, ResolveTyped DEF Enter, TypeOK
  <2> QED
    BY <1>2, <2>2, <2>3 DEF Enter
<1>3. CASE OwnLock(x)
  <2>1. lock' \in [Conns -> SUBSET Actors]
    BY <1>0, <1>3 DEF OwnLock, Take, TypeOK
  <2>2. Tasks' /\ pc' \in [Actors -> Places]
    BY <1>0, <1>3, Moved DEF OwnLock, locals, Places, Writing
  <2> QED
    BY <1>0, <1>3, <2>1, <2>2 DEF OwnLock, TInv, TypeOK, locals, conns
<1>10. CASE Relock(x)
  <2>1. lock' \in [Conns -> SUBSET Actors]
    BY <1>0, <1>10 DEF Relock, Take, TypeOK
  <2>2. CASE Goto(x, "leave") /\ UNCHANGED <<target, task>>
    <3>1. Tasks' /\ pc' \in [Actors -> Places]
      BY <1>0, <2>2, Moved DEF Places, Writing
    <3> QED
      BY <1>0, <1>10, <2>1, <2>2, <3>1 DEF Relock, TInv, TypeOK, conns
  <2>3. CASE Goto(x, "write") /\ Aim(x, x, "response")
    <3>1. /\ Tasks' /\ pc' \in [Actors -> Places]
          /\ task' \in [Actors -> {"none", "each", "call", "response", "destroy"}]
          /\ target' \in [Actors -> Conns]
      BY <1>0, <2>3, Aimed DEF Places
    <3> QED
      BY <1>0, <1>10, <2>1, <3>1 DEF Relock, TInv, TypeOK, conns
  <2> QED
    BY <1>10, <2>2, <2>3 DEF Relock
<1>4. CASE Request(x)
  <2>1. lock' \in [Conns -> SUBSET Actors]
    BY <1>0, <1>4 DEF Request, Release, TypeOK
  <2>2. Tasks' /\ pc' \in [Actors -> Places]
    BY <1>0, <1>4, Moved DEF Request, locals, Places, Writing
  <2> QED
    BY <1>0, <1>4, <2>1, <2>2 DEF Request, TInv, TypeOK, locals, conns
<1>5. CASE Response(x)
  <2>1. lock' \in [Conns -> SUBSET Actors] /\ inText' \subseteq Conns
    BY <1>0, <1>5 DEF Response, Release, TypeOK
  <2>2. Tasks' /\ pc' \in [Actors -> Places]
    BY <1>0, <1>5, Moved DEF Response, Places, Writing
  <2> QED
    BY <1>0, <1>5, <2>1, <2>2 DEF Response, TInv, TypeOK
<1>6. CASE Handler(x)
  <2>1. CASE \E place \in {"signin", "signoff", "collect", "relock"} :
                Goto(x, place) /\ UNCHANGED locals
    <3>1. Tasks' /\ pc' \in [Actors -> Places]
      BY <1>0, <2>1, Moved DEF locals, Places, Writing
    <3> QED
      BY <1>0, <1>6, <2>1, <3>1 DEF Handler, TInv, TypeOK, locals, conns
  <2>2. CASE Goto(x, "member") /\ Aim(x, x, "call") /\ UNCHANGED <<todo, toRemove, inText>>
    <3>1. /\ Tasks' /\ pc' \in [Actors -> Places]
          /\ task' \in [Actors -> {"none", "each", "call", "response", "destroy"}]
          /\ target' \in [Actors -> Conns]
      BY <1>0, <2>2, Aimed DEF Places
    <3> QED
      BY <1>0, <1>6, <2>2, <3>1 DEF Handler, TInv, TypeOK, conns
  <2> QED
    BY <1>6, <2>1, <2>2 DEF Handler
<1>7. CASE Leave(x)
  <2>1. Tasks' /\ pc' \in [Actors -> Places]
    BY <1>0, <1>7, Moved DEF Leave, locals, Places, Writing
  <2> QED
    BY <1>0, <1>7, <2>1 DEF Leave, TInv, TypeOK, locals, conns
<1>8. CASE SignIn(x)
  <2>1. Tasks' /\ pc' \in [Actors -> Places]
    BY <1>0, <1>8, Moved DEF SignIn, locals, Places, Writing
  <2> QED
    BY <1>0, <1>8, <2>1 DEF SignIn, TInv, TypeOK, locals
<1>9. CASE SignOff(x)
  <2>1. Tasks' /\ pc' \in [Actors -> Places]
    BY <1>0, <1>9, Moved DEF SignOff, locals, Places, Writing
  <2> QED
    BY <1>0, <1>9, <2>1 DEF SignOff, TInv, TypeOK, locals
<1> QED
  BY <1>1, <1>2, <1>3, <1>4, <1>5, <1>6, <1>7, <1>8, <1>9, <1>10 DEF Reads

LEMMA WriteTyped ==
    ASSUME TInv, NEW a \in Actors, Writes(a)
    PROVE  TInv'
<1>0. TypeOK /\ target[a] \in Conns /\ (a \in Conns <=> a \notin Jobs)
  BY WsRpcAssumption DEF Actors, TInv, TypeOK
<1>1. CASE LockTarget(a)
  <2>1. lock' \in [Conns -> SUBSET Actors]
    BY <1>0, <1>1 DEF LockTarget, Take, TypeOK
  <2>2. Tasks' /\ pc' \in [Actors -> Places]
    BY <1>0, <1>1, Moved DEF LockTarget, locals, Places, Writing, TInv, Tasks
  <2> QED
    BY <1>0, <1>1, <2>1, <2>2 DEF LockTarget, TInv, TypeOK, locals, conns
<1>2. CASE Written(a)
  <2>1. lock' \in [Conns -> SUBSET Actors]
    BY <1>0, <1>2 DEF Written, Release, TypeOK
  <2>2. task[a] \in {"each", "call", "response"} /\ (task[a] = "call" => a \in Conns)
    BY <1>0, <1>2 DEF Written, TInv, Tasks, Writing
  <2>3. PICK p \in {"each", "handler", "leave"} : Goto(a, p)
    BY <1>2, <2>2 DEF Written
  <2>4. Tasks' /\ pc' \in [Actors -> Places]
    BY <1>2, <2>3, Moved DEF Written, locals, Places, Writing
  <2>5. asked' \subseteq Conns
    BY <1>0, <1>2, <2>2 DEF Written, TypeOK
  <2> QED
    BY <1>0, <1>2, <2>1, <2>4, <2>5 DEF Written, TInv, TypeOK, locals
<1>3. CASE WriteFails(a)
  <2>1. lock' \in [Conns -> SUBSET Actors]
    BY <1>0, <1>3 DEF WriteFails, Release, TypeOK
  <2>2. CASE task[a] = "response"
    <3>1. a \in Conns
      BY <1>0, <2>2 DEF TInv, Tasks
    <3> QED
      BY <1>0, <1>3, <2>1, <2>2, <3>1, ResolveTyped DEF WriteFails, TypeOK
  <2>3. CASE task[a] # "response"
    <3>1. PICK p \in {"each", "handler"} : Goto(a, p)
      BY <1>3, <2>3 DEF WriteFails
    <3>2. Tasks' /\ pc' \in [Actors -> Places]
      BY <1>3, <2>3, <3>1, Moved DEF WriteFails, Places, Writing
    <3>3. toRemove' \in [Actors -> SUBSET Conns]
      BY <1>0, <1>3, <2>3 DEF WriteFails, TypeOK
    <3> QED
      BY <1>0, <1>3, <2>1, <2>3, <3>2, <3>3 DEF WriteFails, TInv, TypeOK, conns
  <2> QED
    BY <2>2, <2>3
<1>4. CASE WriteWaits(a) \/ EndPoll(a) \/ EndWait(a)
  <2>1. permits' \in Nat
    BY <1>0, <1>4 DEF WriteWaits, EndPoll, EndWait, TypeOK
  <2>2. PICK p \in Writing : Goto(a, p)
    BY <1>4 DEF WriteWaits, EndPoll, EndWait, Writing
  <2>3. task[a] \in {"each", "call", "response"}
    BY <1>4 DEF WriteWaits, EndPoll, EndWait, TInv, Tasks, Writing
  <2>4. Tasks' /\ pc' \in [Actors -> Places]
    BY <1>4, <2>2, <2>3, Moved DEF WriteWaits, EndPoll, EndWait, locals, Places, Writing
  <2> QED
    BY <1>0, <1>4, <2>1, <2>4 DEF WriteWaits, EndPoll, EndWait, TInv, TypeOK, locals, conns
<1> QED
  BY <1>1, <1>2, <1>3, <1>4 DEF Writes

LEMMA CollectTyped ==
    ASSUME TInv, NEW a \in Actors, Collects(a)
    PROVE  TInv'
<1>0. TypeOK /\ target[a] \in Conns /\ (a \in Conns <=> a \notin Jobs)
  BY WsRpcAssumption DEF Actors, TInv, TypeOK
<1>1. CASE ForEach(a)
  <2>1. Tasks' /\ pc' \in [Actors -> Places]
    BY <1>1, Moved DEF ForEach, Places, Writing
  <2> QED
    BY <1>0, <1>1, <2>1 DEF ForEach, TInv, TypeOK, conns
<1>2. CASE Visit(a)
  <2>1. CASE todo[a] = {}
    <3>1. Tasks' /\ pc' \in [Actors -> Places]
      BY <1>2, <2>1, Moved DEF Visit, Places, Writing
    <3> QED
      BY <1>0, <1>2, <2>1, <3>1 DEF Visit, TInv, TypeOK, conns
  <2>2. CASE todo[a] # {}
    <3>1. PICK x \in todo[a] : todo' = [todo EXCEPT ![a] = @ \ {x}] /\ Aim(a, x, "each") /\ Goto(a, "member")
      BY <1>2, <2>2 DEF Visit
    <3>2. x \in Conns /\ todo' \in [Actors -> SUBSET Conns]
      BY <1>0, <3>1 DEF TypeOK
    <3>3. /\ Tasks' /\ pc' \in [Actors -> Places]
          /\ task' \in [Actors -> {"none", "each", "call", "response", "destroy"}]
          /\ target' \in [Actors -> Conns]
      BY <3>1, <3>2, Aimed DEF Places
    <3> QED
      BY <1>0, <1>2, <2>2, <3>2, <3>3 DEF Visit, TInv, TypeOK, conns
  <2> QED
    BY <2>1, <2>2
<1>3. CASE Drop(a)
  <2>1. PICK x \in toRemove[a] : toRemove' = [toRemove EXCEPT ![a] = @ \ {x}] /\ Resolve(a, x, "each")
    BY <1>3 DEF Drop
  <2>2. x \in Conns /\ toRemove' \in [Actors -> SUBSET Conns]
    BY <1>0, <2>1 DEF TypeOK
  <2> QED
    BY <1>0, <1>3, <2>1, <2>2, ResolveTyped DEF Drop, TypeOK
<1>4. CASE ForEachReturns(a)
  <2>1. PICK p \in {"leave", "idle", "handler"} : Goto(a, p)
    BY <1>4 DEF ForEachReturns
  <2>2. Tasks' /\ pc' \in [Actors -> Places]
    BY <1>4, <2>1, Moved DEF ForEachReturns, Places, Writing
  <2>3. inText' \subseteq Conns /\ lock' \in [Conns -> SUBSET Actors]
    BY <1>0, <1>4 DEF ForEachReturns, TypeOK
  <2> QED
    BY <1>0, <1>4, <2>2, <2>3 DEF ForEachReturns, TInv, TypeOK, conns
<1>5. CASE RemoveConnection(a)
  <2>1. Tasks' /\ pc' \in [Actors -> Places]
    BY <1>5, Moved DEF RemoveConnection, locals, Places, Writing
  <2> QED
    BY <1>0, <1>5, <2>1 DEF RemoveConnection, TInv, TypeOK, locals
<1>6. CASE Close(a)
  <2>1. PICK p \in {"leave", "drop"} : Goto(a, p)
    BY <1>6 DEF Close
  <2>2. Tasks' /\ pc' \in [Actors -> Places]
    BY <1>6, <2>1, Moved DEF Close, locals, Places, Writing
  <2>3. freed' \subseteq Conns /\ asked' \subseteq Conns
    BY <1>0, <1>6 DEF Close, TInv, TypeOK, Tasks
  <2> QED
    BY <1>0, <1>6, <2>2, <2>3 DEF Close, TInv, TypeOK, locals
<1> QED
  BY <1>1, <1>2, <1>3, <1>4, <1>5, <1>6 DEF Collects

LEMMA TNext == TInv /\ [Next]_vars => TInv'
<1> SUFFICES ASSUME TInv, [Next]_vars PROVE TInv'
  OBVIOUS
<1>1. CASE \E j \in Jobs : Broadcast(j)
  <2>1. PICK j \in Jobs : Broadcast(j)
    BY <1>1
  <2>2. Tasks' /\ pc' \in [Actors -> Places]
    BY <2>1, Moved DEF Broadcast, locals, Places, Writing, Actors
  <2> QED
    BY <2>1, <2>2 DEF Broadcast, TInv, TypeOK, locals, conns
<1>2. CASE UNCHANGED vars
  BY <1>2 DEF TInv, TypeOK, Tasks, vars, locals, conns
<1> QED
  BY <1>1, <1>2, ReadTyped, WriteTyped, CollectTyped DEF Next

(* Type invariant of the peer, the collector and the permits.              *)
THEOREM TypeCorrect == Spec => []TypeOK
<1>1. TInv => TypeOK
  BY DEF TInv
<1> QED
  BY <1>1, TypeInit, TNext, PTL DEF Spec

-----------------------------------------------------------------------------
(* The permits *)

busyPc == [a \in Actors |-> BusyPc(a)]

LEMMA BusyMoved ==
    ASSUME TInv, NEW a \in Actors, NEW p, Goto(a, p)
    PROVE  busyPc' = [busyPc EXCEPT ![a] = IF p \in {"enter", "poll", "rewait"} THEN p
                                          ELSE IF p = "idle" /\ a \in Conns THEN "idle" ELSE "run"]
BY DEF TInv, TypeOK, Goto, busyPc, BusyPc

(* A thread that goes on without a permit given or taken stays busy.       *)
LEMMA StaysBusy ==
    ASSUME TInv, NEW a \in Actors, NEW p, Goto(a, p), BusyPc(a) = "run",
           p \notin {"enter", "poll", "rewait"}, p = "idle" => a \notin Conns
    PROVE  busyPc' = busyPc
<1>1. busyPc[a] = "run" /\ busyPc \in [Actors -> {"enter", "poll", "rewait", "idle", "run"}]
  BY DEF busyPc, BusyPc
<1> QED
  BY <1>1, BusyMoved

noDepth == [x \in Conns |-> 0]

LEMMA ReadBusy ==
    ASSUME TInv, NEW x \in Conns, Reads(x)
    PROVE  Busy!BusyNext \/ UNCHANGED Busy!busyVars
<1>0. x \in Actors /\ x \notin Jobs /\ busyPc[x] = BusyPc(x)
  BY WsRpcAssumption DEF Actors, busyPc
<1>1. CASE Event(x)
  <2>1. busyPc[x] = "idle" /\ busyPc' = [busyPc EXCEPT ![x] = "enter"] /\ permits' = permits
    BY <1>0, <1>1, BusyMoved DEF Event, BusyPc
  <2>2. Busy!EventArrives(x)
    BY <2>1 DEF Busy!EventArrives, Busy!Become, busyPc
  <2> QED
    BY <2>2 DEF Busy!BusyNext, Busy!Handle
<1>2. CASE Enter(x)
  <2>1. PICK p \in {"own", "remove", "closing"} : Goto(x, p)
    BY <1>2 DEF Enter, Resolve
  <2>2. busyPc[x] = "enter" /\ busyPc' = [busyPc EXCEPT ![x] = "run"]
    BY <1>0, <1>2, <2>1, BusyMoved DEF Enter, BusyPc
  <2>3. Busy!EnterBusy(x)
    BY <1>2, <2>2 DEF Enter, Busy!EnterBusy, Busy!Lock, Busy!Become, busyPc
  <2> QED
    BY <2>3 DEF Busy!BusyNext, Busy!Handle
<1>3. CASE Leave(x)
  <2>1. busyPc[x] = "run" /\ busyPc' = [busyPc EXCEPT ![x] = "idle"]
    BY <1>0, <1>3, BusyMoved DEF Leave, BusyPc
  <2>2. Busy!Leave(x)
    BY <1>3, <2>1 DEF Leave, Busy!Leave, Busy!Unlock, Busy!Become, busyPc
  <2> QED
    BY <2>2 DEF Busy!BusyNext, Busy!Handle
<1>4. CASE OwnLock(x) \/ Relock(x) \/ Request(x) \/ Response(x) \/ Handler(x) \/ SignIn(x) \/ SignOff(x)
  <2>1. PICK p \in {"text", "write", "handler", "collect", "leave", "signin", "signoff", "relock",
                    "member", "stuck"} : Goto(x, p)
    BY <1>4 DEF OwnLock, Relock, Request, Response, Handler, SignIn, SignOff
  <2>2. BusyPc(x) = "run" /\ permits' = permits
    BY <1>4 DEF OwnLock, Relock, Request, Response, Handler, SignIn, SignOff, BusyPc
  <2>3. busyPc' = busyPc
    BY <1>0, <2>1, <2>2, StaysBusy
  <2> QED
    BY <2>2, <2>3 DEF Busy!busyVars, busyPc
<1> QED
  BY <1>1, <1>2, <1>3, <1>4 DEF Reads

LEMMA WriteBusy ==
    ASSUME TInv, NEW a \in Actors, Writes(a)
    PROVE  Busy!BusyNext \/ UNCHANGED Busy!busyVars
<1>0. busyPc[a] = BusyPc(a) /\ a \in Busy!Users
  BY DEF busyPc, Actors, Busy!Users
<1>1. CASE WriteWaits(a)
  <2>1. busyPc[a] = "run" /\ busyPc' = [busyPc EXCEPT ![a] = "poll"]
    BY <1>0, <1>1, BusyMoved DEF WriteWaits, BusyPc
  <2>2. Busy!BeginWait(a)
    BY <1>1, <2>1 DEF WriteWaits, Busy!BeginWait, Busy!Unlock, Busy!Become, busyPc
  <2> QED
    BY <1>0, <2>2 DEF Busy!BusyNext, Busy!WaitForNetwork
<1>2. CASE EndPoll(a)
  <2>1. busyPc[a] = "poll" /\ busyPc' = [busyPc EXCEPT ![a] = "rewait"]
    BY <1>0, <1>2, BusyMoved DEF EndPoll, BusyPc
  <2>2. Busy!EndPoll(a)
    BY <1>2, <2>1 DEF EndPoll, Busy!EndPoll, Busy!Become, busyPc
  <2> QED
    BY <1>0, <2>2 DEF Busy!BusyNext, Busy!WaitForNetwork
<1>3. CASE EndWait(a)
  <2>1. busyPc[a] = "rewait" /\ busyPc' = [busyPc EXCEPT ![a] = "run"]
    BY <1>0, <1>3, BusyMoved DEF EndWait, BusyPc
  <2>2. Busy!EndWait(a)
    BY <1>3, <2>1 DEF EndWait, Busy!EndWait, Busy!Lock, Busy!Become, busyPc
  <2> QED
    BY <1>0, <2>2 DEF Busy!BusyNext, Busy!WaitForNetwork
<1>4. CASE LockTarget(a) \/ Written(a) \/ WriteFails(a)
  <2>1. PICK p \in {"write", "each", "handler", "leave", "remove", "closing"} : Goto(a, p)
    BY <1>4 DEF LockTarget, Written, WriteFails, Resolve, TInv, Tasks, Writing
  <2>2. BusyPc(a) = "run" /\ permits' = permits
    BY <1>4 DEF LockTarget, Written, WriteFails, BusyPc
  <2>3. busyPc' = busyPc
    BY <2>1, <2>2, StaysBusy
  <2> QED
    BY <2>2, <2>3 DEF Busy!busyVars, busyPc
<1> QED
  BY <1>1, <1>2, <1>3, <1>4 DEF Writes

LEMMA CollectBusy ==
    ASSUME TInv, NEW a \in Actors, Collects(a)
    PROVE  UNCHANGED Busy!busyVars
<1>1. PICK p : Goto(a, p) /\ p \in {"each", "drop", "member", "remove", "closing", "leave", "idle", "handler"}
               /\ (p = "idle" => a \in Jobs)
  BY DEF Collects, ForEach, Visit, Drop, ForEachReturns, RemoveConnection, Close, Resolve
<1>2. BusyPc(a) = "run" /\ permits' = permits
  BY DEF Collects, ForEach, Visit, Drop, ForEachReturns, RemoveConnection, Close, BusyPc
<1>3. busyPc' = busyPc
  BY <1>1, <1>2, StaysBusy, WsRpcAssumption
<1> QED
  BY <1>2, <1>3 DEF Busy!busyVars, busyPc

LEMMA BusyStep == TInv /\ [Next]_vars => [Busy!BusyNext]_(Busy!busyVars)
<1> SUFFICES ASSUME TInv, [Next]_vars PROVE Busy!BusyNext \/ UNCHANGED Busy!busyVars
  OBVIOUS
<1>1. CASE \E j \in Jobs : Broadcast(j)
  <2>1. PICK j \in Jobs : Goto(j, "collect") /\ pc[j] = "idle" /\ permits' = permits /\ j \in Actors /\ j \notin Conns
    BY <1>1, WsRpcAssumption DEF Broadcast, Actors
  <2>2. busyPc' = busyPc
    BY <2>1, StaysBusy DEF BusyPc
  <2> QED
    BY <2>1, <2>2 DEF Busy!busyVars, busyPc
<1>2. CASE UNCHANGED vars
  BY <1>2 DEF vars, Busy!busyVars, BusyPc
<1> QED
  BY <1>1, <1>2, ReadBusy, WriteBusy, CollectBusy DEF Next

(* Whatever connections and broadcasts do, permits are taken and given     *)
(* back as BusyThreads has it: what is proved of BusyThreads holds here.   *)
THEOREM ImplementsBusy == Spec => PermitsUsedRightly
<1>1. Init => Busy!BusyInit
  BY WsRpcAssumption DEF Init, Busy!BusyInit, Busy!Users, BusyPc, Actors
<1> QED
  BY <1>1, TypeInit, TNext, BusyStep, PTL DEF Spec, PermitsUsedRightly, Busy!BusySpec

-----------------------------------------------------------------------------
(* Who uses a connection that is gone *)

(* forEach holds the collector's lock, so what it has yet to visit, and    *)
(* what it writes to, are members.                                         *)
InForEach(a) == pc[a] = "each" \/ (pc[a] \in Writing /\ task[a] = "each")
VisitsMembers ==
    \A a \in Actors : InForEach(a) =>
        collector = {a} /\ todo[a] \subseteq members /\ (pc[a] \in Writing => target[a] \in members)

(* A member whose onClose() is resolved is about to be removed.            *)
Removing(x) == \E a \in Actors : pc[a] = "remove" /\ target[a] = x
RemovedWhenResolved == \A x \in resolved \cap members : Removing(x)

(* Who closes a connection has resolved its onClose(); a connection is     *)
(* destroyed by its own thread, which does nothing after that.             *)
ClosesResolved ==
    \A a \in Actors : pc[a] \in {"remove", "closing"} =>
        /\ task[a] \in {"each", "destroy"} /\ target[a] \in resolved
        /\ task[a] = "destroy" => target[a] = a
FreedIdle == \A x \in freed : x \in resolved /\ pc[x] \in {"leave", "idle"}

DInv == TInv /\ VisitsMembers /\ RemovedWhenResolved /\ ClosesResolved /\ FreedIdle

LEMMA DInit == Init => DInv
<1> SUFFICES ASSUME Init PROVE DInv
  OBVIOUS
<1> QED
  BY TypeInit DEF Init, DInv, VisitsMembers, InForEach, Writing, RemovedWhenResolved, ClosesResolved, FreedIdle

LEMMA DInvConsistent == DInv => Consistent
<1> SUFFICES ASSUME DInv PROVE Consistent
  OBVIOUS
<1>1. ASSUME NEW x \in freed, x \in members \/ \E a \in Actors : Uses(a, x)
      PROVE  OvertakenDrop(x)
  <2>1. x \in members
    <3> SUFFICES ASSUME NEW a \in Actors, Uses(a, x) PROVE x \in members
      BY <1>1
    <3>1. pc[a] \in Writing /\ target[a] = x /\ a # x
      BY DEF Uses, Writing, DInv, FreedIdle
    <3>2. task[a] = "each"
      BY <3>1 DEF DInv, TInv, Tasks
    <3> QED
      BY <3>1, <3>2 DEF DInv, VisitsMembers, InForEach
  <2>2. PICK a \in Actors : pc[a] = "remove" /\ target[a] = x
    BY <2>1 DEF DInv, FreedIdle, RemovedWhenResolved, Removing
  <2>3. a # x
    BY <2>2 DEF DInv, FreedIdle
  <2>4. task[a] = "each"
    BY <2>2, <2>3 DEF DInv, ClosesResolved
  <2> QED
    BY <2>2, <2>4 DEF OvertakenDrop
<1>2. ClosedLeaves
  BY DEF DInv, RemovedWhenResolved, Removing, ClosedLeaves
<1> QED
  BY <1>1, <1>2 DEF DInv, TInv, NoDeadUse, Consistent

(* A thread moves, and neither closes nor visits; members stay.            *)
LEMMA DMove ==
    ASSUME DInv, TInv', NEW a \in Actors, NEW p, Goto(a, p),
           UNCHANGED <<collector, members, resolved, freed, todo>>,
           \A b \in Actors \ {a} : target'[b] = target[b] /\ task'[b] = task[b],
           pc[a] # "remove", p \notin {"remove", "closing"}, a \in freed => p = "idle",
           InForEach(a)' => InForEach(a) /\ (p \in Writing => target'[a] \in members)
    PROVE  DInv'
<1>0. TypeOK
  BY DEF DInv, TInv
<1>1. pc' = [pc EXCEPT ![a] = p] /\ pc'[a] = p /\ \A b \in Actors \ {a} : pc'[b] = pc[b]
  BY <1>0 DEF Goto, TypeOK
<1>2. VisitsMembers'
  BY <1>1 DEF DInv, VisitsMembers, InForEach
<1>3. RemovedWhenResolved'
  BY <1>1 DEF DInv, RemovedWhenResolved, Removing
<1>4. ClosesResolved'
  BY <1>1 DEF DInv, ClosesResolved
<1>5. FreedIdle'
  BY <1>0, <1>1 DEF DInv, FreedIdle, TypeOK, Actors
<1> QED
  BY <1>2, <1>3, <1>4, <1>5 DEF DInv

LEMMA DResolve ==
    ASSUME DInv, TInv', NEW a \in Actors, NEW x \in Conns, NEW why \in {"each", "destroy"},
           Resolve(a, x, why), collector' = collector, a \notin freed, pc[a] # "remove",
           why = "destroy" => x = a
    PROVE  DInv'
<1>0. TypeOK
  BY DEF DInv, TInv
<1>1. /\ resolved' = resolved \cup {x} /\ UNCHANGED <<todo, members, freed, asked>>
      /\ target' = [target EXCEPT ![a] = x] /\ task' = [task EXCEPT ![a] = why]
      /\ pc' = [pc EXCEPT ![a] = IF x \in members \ resolved THEN "remove" ELSE "closing"]
  BY DEF Resolve, Aim, Goto
<1>2. /\ target'[a] = x /\ task'[a] = why /\ pc'[a] = IF x \in members \ resolved THEN "remove" ELSE "closing"
      /\ \A b \in Actors \ {a} : pc'[b] = pc[b] /\ target'[b] = target[b] /\ task'[b] = task[b]
  BY <1>0, <1>1 DEF TypeOK
<1>3. VisitsMembers'
  BY <1>1, <1>2 DEF DInv, VisitsMembers, InForEach, Writing
<1>4. RemovedWhenResolved'
  BY <1>1, <1>2 DEF DInv, RemovedWhenResolved, Removing
<1>5. ClosesResolved'
  BY <1>1, <1>2 DEF DInv, ClosesResolved
<1>6. FreedIdle'
  BY <1>0, <1>1, <1>2 DEF DInv, FreedIdle, TypeOK, Actors
<1> QED
  BY <1>1, <1>3, <1>4, <1>5, <1>6 DEF DInv

LEMMA DRead ==
    ASSUME DInv, NEW x \in Conns, Reads(x)
    PROVE  DInv'
<1>0. x \in Actors /\ TInv /\ TypeOK /\ TInv'
  BY ReadTyped DEF Actors, DInv, TInv
<1>1. CASE Event(x)
  <2>1. ~InForEach(x)'
    BY <1>0, <1>1 DEF Event, InForEach, Writing, Goto, TypeOK
  <2> QED
    BY <1>0, <1>1, <2>1, DMove DEF Event, locals, conns, DInv
<1>2. CASE Enter(x)
  <2>1. pc[x] = "enter" /\ x \notin freed
    BY <1>2 DEF Enter, DInv, FreedIdle
  <2>2. CASE Goto(x, "own") /\ UNCHANGED <<locals, conns>>
    <3>1. ~InForEach(x)'
      BY <1>0, <2>2 DEF InForEach, Writing, Goto, TypeOK
    <3> QED
      BY <1>0, <1>2, <2>1, <2>2, <3>1, DMove DEF Enter, locals, conns, DInv
  <2>3. CASE Resolve(x, x, "destroy")
    BY <1>0, <1>2, <2>1, <2>3, DResolve DEF Enter
  <2> QED
    BY <1>2, <2>2, <2>3 DEF Enter
<1>3. CASE OwnLock(x) \/ Relock(x) \/ Request(x) \/ Response(x) \/ Handler(x)
  <2>1. PICK p \in {"text", "write", "handler", "collect", "leave", "signin", "signoff", "relock", "member"} :
           Goto(x, p)
    BY <1>3 DEF OwnLock, Relock, Request, Response, Handler
  <2>2. /\ pc[x] \notin {"remove", "leave", "idle"} /\ UNCHANGED <<collector, members, resolved, freed, todo>>
    BY <1>3 DEF OwnLock, Relock, Request, Response, Handler, locals, conns, DInv
  <2>3. /\ \A b \in Actors \ {x} : target'[b] = target[b] /\ task'[b] = task[b]
        /\ p \in Writing => task'[x] # "each"
    BY <1>0, <1>3, <2>1 DEF OwnLock, Relock, Request, Response, Handler, Aim, locals, Goto, Writing, TypeOK
  <2>4. x \notin freed
    BY <2>2 DEF DInv, FreedIdle
  <2>5. pc'[x] = p
    BY <1>0, <2>1 DEF Goto, TypeOK
  <2>6. ~InForEach(x)'
    BY <2>3, <2>5 DEF InForEach
  <2> QED
    BY <1>0, <2>1, <2>2, <2>3, <2>4, <2>6, DMove
<1>4. CASE Leave(x)
  <2>1. ~InForEach(x)'
    BY <1>0, <1>4 DEF Leave, InForEach, Writing, Goto, TypeOK
  <2> QED
    BY <1>0, <1>4, <2>1, DMove DEF Leave, locals, conns, DInv
<1>5. CASE SignIn(x)
  <2>1. pc[x] = "signin" /\ collector = {} /\ x \notin freed
    BY <1>5 DEF SignIn, DInv, FreedIdle
  <2>2. \A a \in Actors : ~InForEach(a)
    BY <2>1 DEF DInv, VisitsMembers
  <2>3. PICK p \in {"stuck", "handler"} : pc' = [pc EXCEPT ![x] = p]
    BY <1>5 DEF SignIn, Goto
  <2>4. pc'[x] = p /\ \A b \in Actors \ {x} : pc'[b] = pc[b]
    BY <1>0, <2>3 DEF TypeOK
  <2>5. /\ UNCHANGED <<task, target, resolved, freed, asked>>
        /\ members' \subseteq members \cup {x} /\ (x \in members' => x \in members \/ x \notin resolved)
    BY <1>5 DEF SignIn, locals
  <2>6. VisitsMembers'
    BY <2>2, <2>4, <2>5 DEF VisitsMembers, InForEach, Writing
  <2>7. RemovedWhenResolved'
    BY <2>1, <2>4, <2>5 DEF DInv, RemovedWhenResolved, Removing
  <2>8. ClosesResolved' /\ FreedIdle'
    BY <1>0, <2>1, <2>4, <2>5 DEF DInv, ClosesResolved, FreedIdle, TypeOK, Actors
  <2> QED
    BY <1>0, <2>5, <2>6, <2>7, <2>8 DEF DInv
<1>6. CASE SignOff(x)
  <2>1. pc[x] = "signoff" /\ collector = {} /\ x \notin freed
    BY <1>6 DEF SignOff, DInv, FreedIdle
  <2>2. \A a \in Actors : ~InForEach(a)
    BY <2>1 DEF DInv, VisitsMembers
  <2>3. pc'[x] = "handler" /\ \A b \in Actors \ {x} : pc'[b] = pc[b]
    BY <1>0, <1>6 DEF SignOff, Goto, TypeOK
  <2>4. UNCHANGED <<task, target, resolved, freed, asked>> /\ members' = members \ {x}
    BY <1>6 DEF SignOff, locals
  <2>5. VisitsMembers'
    BY <2>2, <2>3, <2>4 DEF VisitsMembers, InForEach, Writing
  <2>6. RemovedWhenResolved'
    BY <2>1, <2>3, <2>4 DEF DInv, RemovedWhenResolved, Removing
  <2>7. ClosesResolved' /\ FreedIdle'
    BY <1>0, <2>1, <2>3, <2>4 DEF DInv, ClosesResolved, FreedIdle, TypeOK, Actors
  <2> QED
    BY <1>0, <2>4, <2>5, <2>6, <2>7 DEF DInv
<1> QED
  BY <1>1, <1>2, <1>3, <1>4, <1>5, <1>6 DEF Reads

LEMMA DWrite ==
    ASSUME DInv, NEW a \in Actors, Writes(a)
    PROVE  DInv'
<1>0. TInv /\ TypeOK /\ TInv' /\ pc[a] \in Writing
  BY WriteTyped DEF DInv, TInv, Writes, LockTarget, Written, WriteFails, WriteWaits, EndPoll, EndWait, Writing
<1>1. a \notin freed /\ pc[a] # "remove"
  BY <1>0 DEF DInv, FreedIdle, Writing
<1>2. CASE LockTarget(a) \/ WriteWaits(a) \/ EndPoll(a) \/ EndWait(a)
  <2>1. PICK p \in Writing : Goto(a, p)
    BY <1>2 DEF LockTarget, WriteWaits, EndPoll, EndWait, Writing
  <2>2. UNCHANGED <<collector, members, resolved, freed, todo, target, task, asked>>
    BY <1>2 DEF LockTarget, WriteWaits, EndPoll, EndWait, locals, conns
  <2>3. InForEach(a)' => InForEach(a) /\ target'[a] \in members
    BY <1>0, <2>1, <2>2 DEF InForEach, DInv, VisitsMembers, Goto, TypeOK, Writing
  <2> QED
    BY <1>0, <1>1, <2>1, <2>2, <2>3, DMove DEF Writing, DInv
<1>3. CASE Written(a)
  <2>1. task[a] \in {"each", "call", "response"}
    BY <1>0 DEF TInv, Tasks
  <2>2. PICK p \in {"each", "handler", "leave"} : Goto(a, p) /\ (p = "each" => task[a] = "each")
    BY <1>3, <2>1 DEF Written
  <2>3. UNCHANGED <<collector, members, resolved, freed, todo, target, task>>
    BY <1>3 DEF Written, locals
  <2>4. InForEach(a)' => InForEach(a) /\ p \notin Writing
    BY <1>0, <2>2, <2>3 DEF InForEach, Goto, TypeOK, Writing
  <2> QED
    BY <1>0, <1>1, <2>2, <2>3, <2>4, DMove
<1>4. CASE WriteFails(a) /\ task[a] = "response"
  <2>1. a \in Conns
    BY <1>0, <1>4 DEF TInv, Tasks, Actors
  <2> QED
    BY <1>0, <1>1, <1>4, <2>1, DResolve DEF WriteFails
<1>5. CASE WriteFails(a) /\ task[a] # "response"
  <2>1. PICK p \in {"each", "handler"} : Goto(a, p) /\ (p = "each" => task[a] = "each")
    BY <1>5 DEF WriteFails
  <2>2. UNCHANGED <<collector, members, resolved, freed, todo, target, task, asked>>
    BY <1>5 DEF WriteFails, conns
  <2>3. InForEach(a)' => InForEach(a) /\ p \notin Writing
    BY <1>0, <2>1, <2>2 DEF InForEach, Goto, TypeOK, Writing
  <2> QED
    BY <1>0, <1>1, <2>1, <2>2, <2>3, DMove DEF DInv
<1> QED
  BY <1>2, <1>3, <1>4, <1>5 DEF Writes

LEMMA DCollect ==
    ASSUME DInv, NEW a \in Actors, Collects(a)
    PROVE  DInv'
<1>0. TInv /\ TypeOK /\ TInv'
  BY CollectTyped DEF DInv, TInv
<1>1. a \notin freed
  BY DEF Collects, ForEach, Visit, Drop, ForEachReturns, RemoveConnection, Close, DInv, FreedIdle
<1>2. CASE ForEach(a)
  <2>1. pc'[a] = "each" /\ \A b \in Actors \ {a} : pc'[b] = pc[b]
    BY <1>0, <1>2 DEF ForEach, Goto, TypeOK
  <2>2. UNCHANGED <<task, target, members, resolved, freed, asked>> /\ pc[a] = "collect"
        /\ collector = {} /\ collector' = {a} /\ todo'[a] = members
    BY <1>0, <1>2 DEF ForEach, conns, TypeOK
  <2>3. VisitsMembers'
    BY <2>1, <2>2 DEF DInv, VisitsMembers, InForEach, Writing
  <2>4. RemovedWhenResolved' /\ ClosesResolved' /\ FreedIdle'
    BY <1>0, <1>1, <2>1, <2>2 DEF DInv, RemovedWhenResolved, Removing, ClosesResolved, FreedIdle, TypeOK, Actors
  <2> QED
    BY <1>0, <2>2, <2>3, <2>4 DEF DInv
<1>3. CASE Visit(a)
  <2>1. pc[a] = "each" /\ collector = {a} /\ todo[a] \subseteq members
    BY <1>3 DEF Visit, DInv, VisitsMembers, InForEach
  <2>2. \A b \in Actors \ {a} : ~InForEach(b)
    BY <2>1 DEF DInv, VisitsMembers
  <2>3. UNCHANGED <<members, resolved, freed, asked>>
    BY <1>3 DEF Visit, conns
  <2>4. CASE todo[a] = {}
    <3>1. pc'[a] = "drop" /\ (\A b \in Actors \ {a} : pc'[b] = pc[b]) /\ UNCHANGED <<task, target>>
      BY <1>0, <1>3, <2>4 DEF Visit, Goto, TypeOK
    <3>2. VisitsMembers'
      BY <2>2, <3>1 DEF VisitsMembers, InForEach, Writing
    <3>3. RemovedWhenResolved' /\ ClosesResolved' /\ FreedIdle'
      BY <1>0, <1>1, <2>1, <2>3, <3>1 DEF DInv, RemovedWhenResolved, Removing, ClosesResolved, FreedIdle, TypeOK, Actors
    <3> QED
      BY <1>0, <2>3, <3>2, <3>3 DEF DInv
  <2>5. CASE todo[a] # {}
    <3>1. PICK x \in todo[a] : todo' = [todo EXCEPT ![a] = @ \ {x}] /\ Aim(a, x, "each")
                               /\ Goto(a, "member") /\ collector' = collector
      BY <1>3, <2>5 DEF Visit
    <3>2. /\ pc'[a] = "member" /\ target'[a] = x /\ task'[a] = "each" /\ todo'[a] \subseteq members
          /\ \A b \in Actors \ {a} : pc'[b] = pc[b] /\ target'[b] = target[b] /\ task'[b] = task[b]
      BY <1>0, <2>1, <3>1 DEF Goto, Aim, TypeOK
    <3>3. VisitsMembers'
      BY <2>1, <2>2, <2>3, <3>1, <3>2 DEF VisitsMembers, InForEach, Writing
    <3>4. RemovedWhenResolved' /\ ClosesResolved' /\ FreedIdle'
      BY <1>0, <1>1, <2>1, <2>3, <3>2 DEF DInv, RemovedWhenResolved, Removing, ClosesResolved, FreedIdle, TypeOK, Actors
    <3> QED
      BY <1>0, <2>3, <3>3, <3>4 DEF DInv
  <2> QED
    BY <2>4, <2>5
<1>4. CASE Drop(a)
  <2>1. PICK x \in toRemove[a] : Resolve(a, x, "each")
    BY <1>4 DEF Drop
  <2>2. x \in Conns
    BY <1>0, <2>1 DEF TypeOK
  <2> QED
    BY <1>0, <1>1, <1>4, <2>1, <2>2, DResolve DEF Drop
<1>5. CASE ForEachReturns(a)
  <2>1. PICK p \in {"leave", "idle", "handler"} : Goto(a, p)
    BY <1>5 DEF ForEachReturns
  <2>2. pc[a] = "drop" /\ UNCHANGED <<collector, members, resolved, freed, todo, target, task, asked>>
    BY <1>5 DEF ForEachReturns, conns
  <2>3. ~InForEach(a)'
    BY <1>0, <2>1 DEF InForEach, Goto, TypeOK, Writing
  <2> QED
    BY <1>0, <1>1, <2>1, <2>2, <2>3, DMove DEF DInv
<1>6. CASE RemoveConnection(a)
  <2>1. pc[a] = "remove" /\ collector = {} /\ members' = members \ {target[a]}
        /\ UNCHANGED <<task, target, todo, collector, resolved, freed, asked>>
    BY <1>6 DEF RemoveConnection, locals
  <2>2. \A b \in Actors : ~InForEach(b)
    BY <2>1 DEF DInv, VisitsMembers
  <2>3. pc'[a] = "closing" /\ \A b \in Actors \ {a} : pc'[b] = pc[b]
    BY <1>0, <1>6 DEF RemoveConnection, Goto, TypeOK
  <2>4. VisitsMembers'
    BY <2>1, <2>2, <2>3 DEF VisitsMembers, InForEach, Writing
  <2>5. RemovedWhenResolved'
    BY <2>1, <2>3 DEF DInv, RemovedWhenResolved, Removing
  <2>6. ClosesResolved' /\ FreedIdle'
    BY <1>0, <1>1, <2>1, <2>3 DEF DInv, ClosesResolved, FreedIdle, TypeOK, Actors
  <2> QED
    BY <1>0, <2>1, <2>4, <2>5, <2>6 DEF DInv
<1>7. CASE Close(a)
  <2>1. pc[a] = "closing" /\ UNCHANGED <<task, target, todo, collector, members, resolved>>
    BY <1>7 DEF Close, locals
  <2>2. PICK p \in {"leave", "drop"} : pc' = [pc EXCEPT ![a] = p]
           /\ freed' \subseteq freed \cup {a} /\ (a \in freed' => p = "leave" /\ task[a] = "destroy")
    BY <1>1, <1>7 DEF Close, Goto
  <2>3. pc'[a] = p /\ \A b \in Actors \ {a} : pc'[b] = pc[b]
    BY <1>0, <2>2 DEF TypeOK
  <2>4. VisitsMembers'
    BY <2>1, <2>2, <2>3 DEF DInv, VisitsMembers, InForEach, Writing
  <2>5. RemovedWhenResolved'
    BY <2>1, <2>2, <2>3 DEF DInv, RemovedWhenResolved, Removing
  <2>6. ClosesResolved'
    BY <2>1, <2>2, <2>3 DEF DInv, ClosesResolved
  <2>7. FreedIdle'
    BY <1>0, <2>1, <2>2, <2>3 DEF DInv, FreedIdle, ClosesResolved, TypeOK, Actors
  <2> QED
    BY <1>0, <2>4, <2>5, <2>6, <2>7 DEF DInv
<1> QED
  BY <1>2, <1>3, <1>4, <1>5, <1>6, <1>7 DEF Collects

LEMMA DNext == DInv /\ [Next]_vars => DInv'
<1> SUFFICES ASSUME DInv, [Next]_vars PROVE DInv'
  OBVIOUS
<1>0. TInv /\ TypeOK /\ TInv'
  BY TNext DEF DInv, TInv
<1>1. CASE \E j \in Jobs : Broadcast(j)
  <2>1. PICK j \in Jobs : Broadcast(j) /\ j \in Actors /\ j \notin freed
    BY <1>0, <1>1, WsRpcAssumption DEF Actors, TypeOK
  <2>2. ~InForEach(j)'
    BY <1>0, <2>1 DEF Broadcast, InForEach, Goto, TypeOK, Writing
  <2> QED
    BY <1>0, <2>1, <2>2, DMove DEF Broadcast, locals, conns, DInv
<1>2. CASE UNCHANGED vars
  BY <1>0, <1>2 DEF DInv, VisitsMembers, InForEach, RemovedWhenResolved, Removing, ClosesResolved, FreedIdle,
     vars, locals, conns
<1> QED
  BY <1>1, <1>2, DRead, DWrite, DCollect DEF Next

(* For any connections and threads: a closed connection that is a member   *)
(* of the collector is about to be removed, and but for drops overtaken by *)
(* the destructor (OvertakenDrop) nobody comes to a destroyed one.         *)
THEOREM AlwaysConsistent == Spec => []Consistent
<1> QED
  BY DInit, DNext, DInvConsistent, PTL DEF Spec

-----------------------------------------------------------------------------
(* Who blocks whom *)

(* Who holds a lock is at a place that says so.                            *)
Holds(a, x) == \/ a = x /\ (pc[a] = "text" \/ a \in inText)
               \/ pc[a] \in {"write", "poll", "rewait"} /\ target[a] = x
HoldsCollector(a) == InForEach(a) \/ pc[a] = "stuck"

LInv ==
    /\ TInv
    /\ \A x \in Conns : \A a \in lock[x] : Holds(a, x)
    /\ \A a \in collector : HoldsCollector(a)
    /\ \A a \in Actors : pc[a] \in {"own", "relock"} => a \in Conns

LEMMA LInit == Init => LInv
BY TypeInit DEF Init, LInv

(* One thread moves, the others keep what they hold.                       *)
LEMMA LMove ==
    ASSUME LInv, TInv', NEW a \in Actors,
           \A b \in Actors \ {a} : /\ pc'[b] = pc[b] /\ target'[b] = target[b] /\ task'[b] = task[b]
                                   /\ b \in inText => b \in inText',
           \A x \in Conns : lock'[x] \subseteq lock[x] \cup {a},
           \A x \in Conns : a \in lock'[x] => Holds(a, x)',
           collector' \subseteq collector \cup {a}, a \in collector' => HoldsCollector(a)',
           pc'[a] \in {"own", "relock"} => a \in Conns
    PROVE  LInv'
<1>0. collector \subseteq Actors /\ \A x \in Conns : lock[x] \subseteq Actors
  BY DEF LInv, TInv, TypeOK
<1>1. ASSUME NEW x \in Conns, NEW b \in lock'[x], b # a PROVE Holds(b, x)'
  <2>1. b \in Actors \ {a} /\ Holds(b, x)
    BY <1>0, <1>1 DEF LInv
  <2> QED
    BY <2>1 DEF Holds
<1>2. ASSUME NEW b \in collector', b # a PROVE HoldsCollector(b)'
  <2>1. b \in Actors \ {a} /\ HoldsCollector(b)
    BY <1>0, <1>2 DEF LInv
  <2> QED
    BY <2>1 DEF HoldsCollector, InForEach
<1> QED
  BY <1>1, <1>2 DEF LInv

LEMMA LRead ==
    ASSUME LInv, NEW x \in Conns, Reads(x)
    PROVE  LInv'
<1>0. x \in Actors /\ TypeOK /\ TInv'
  BY ReadTyped DEF Actors, LInv, TInv
<1>1. /\ pc[x] \notin {"each", "member", "write", "poll", "rewait", "stuck"}
      /\ \A b \in Actors \ {x} : pc'[b] = pc[b] /\ target'[b] = target[b] /\ task'[b] = task[b]
      /\ \A b \in inText : b \in inText'
  BY <1>0 DEF Reads, Event, Enter, OwnLock, Relock, Request, Response, Handler, Leave, SignIn, SignOff, Goto, Aim,
              Resolve, TypeOK, locals
<1>2. x \notin collector /\ \A y \in Conns : x \in lock[y] => x = y /\ (pc[x] = "text" \/ x \in inText)
  BY <1>1 DEF LInv, HoldsCollector, InForEach, Writing, Holds
<1>3. CASE OwnLock(x)
  <2>1. lock' = [lock EXCEPT ![x] = {x}] /\ UNCHANGED <<collector, inText>>
    BY <1>3 DEF OwnLock, Take, locals
  <2>2. pc'[x] = "text"
    BY <1>0, <1>3 DEF OwnLock, Goto, TypeOK
  <2>3. \A y \in Conns : x \in lock'[y] => Holds(x, y)'
    BY <1>0, <1>2, <2>1, <2>2 DEF Holds, TypeOK
  <2> QED
    BY <1>0, <1>1, <1>2, <2>1, <2>3, LMove DEF TypeOK
<1>8. CASE Relock(x)
  <2>1. /\ UNCHANGED <<collector, inText>> /\ pc[x] # "text" /\ pc'[x] \in {"write", "leave"}
        /\ \/ lock' = [lock EXCEPT ![x] = {x}] /\ pc'[x] = "write" /\ target'[x] = x
           \/ lock' = lock
    BY <1>0, <1>8 DEF Relock, Take, Goto, Aim, TypeOK
  <2>2. \A y \in Conns : x \in lock'[y] => Holds(x, y)'
    BY <1>0, <1>2, <2>1 DEF Holds, TypeOK
  <2>3. \A y \in Conns : lock'[y] \subseteq lock[y] \cup {x}
    BY <1>0, <2>1 DEF TypeOK
  <2> QED
    BY <1>0, <1>1, <1>2, <2>1, <2>2, <2>3, LMove
<1>4. CASE SignIn(x)
  <2>1. lock' = lock /\ collector' \subseteq {x} /\ (x \in collector' => pc'[x] = "stuck") /\ inText' = inText
        /\ pc[x] # "text"
    BY <1>0, <1>4 DEF SignIn, Goto, TypeOK, locals
  <2>2. \A y \in Conns : x \in lock'[y] => Holds(x, y)'
    BY <1>2, <2>1 DEF Holds
  <2> QED
    BY <1>0, <1>1, <2>1, <2>2, LMove DEF HoldsCollector
<1>5. CASE Request(x)
  <2>1. lock' = [lock EXCEPT ![x] = IF x \in inText THEN {x} ELSE {}] /\ UNCHANGED <<collector, inText>>
    BY <1>5 DEF Request, Release, locals
  <2>2. \A y \in Conns : x \in lock'[y] => Holds(x, y)'
    BY <1>0, <1>2, <2>1 DEF Holds, TypeOK
  <2> QED
    BY <1>0, <1>1, <1>2, <2>1, <2>2, LMove DEF TypeOK
<1>6. CASE Response(x)
  <2>1. /\ UNCHANGED collector
        /\ \/ lock' = lock /\ x \in inText'
           \/ lock' = [lock EXCEPT ![x] = IF x \in inText THEN {x} ELSE {}] /\ inText' = inText
    BY <1>6 DEF Response, Release
  <2>2. \A y \in Conns : lock'[y] \subseteq lock[y] \cup {x}
    BY <1>0, <2>1 DEF TypeOK
  <2>3. \A y \in Conns : x \in lock'[y] => Holds(x, y)'
    BY <1>0, <1>2, <2>1 DEF Holds, TypeOK
  <2> QED
    BY <1>0, <1>1, <1>2, <2>1, <2>2, <2>3, LMove
<1>7. CASE Event(x) \/ Enter(x) \/ Handler(x) \/ Leave(x) \/ SignOff(x)
  <2>1. UNCHANGED <<lock, collector, inText>> /\ pc[x] # "text"
    BY <1>7 DEF Event, Enter, Handler, Leave, SignOff, Resolve, locals
  <2>2. \A y \in Conns : x \in lock'[y] => Holds(x, y)'
    BY <1>2, <2>1 DEF Holds
  <2> QED
    BY <1>0, <1>1, <1>2, <2>1, <2>2, LMove
<1> QED
  BY <1>3, <1>4, <1>5, <1>6, <1>7, <1>8 DEF Reads

LEMMA LWrite ==
    ASSUME LInv, NEW a \in Actors, Writes(a)
    PROVE  LInv'
<1>0. TypeOK /\ TInv' /\ pc[a] \in Writing /\ target[a] \in Conns
  BY WriteTyped DEF LInv, TInv, TypeOK, Writes, LockTarget, Written, WriteFails, WriteWaits, EndPoll, EndWait,
                    Writing
<1>1. /\ \A b \in Actors \ {a} : pc'[b] = pc[b] /\ target'[b] = target[b] /\ task'[b] = task[b]
      /\ inText' = inText /\ collector' = collector
      /\ pc'[a] \notin {"own", "relock"}
  BY <1>0 DEF Writes, LockTarget, Written, WriteFails, WriteWaits, EndPoll, EndWait, Goto, Aim,
              Resolve, TypeOK, locals, LInv, TInv, Tasks, Writing
<1>2. a \in collector => task[a] = "each"
  BY <1>0 DEF LInv, HoldsCollector, InForEach, Writing
<1>3. \A y \in Conns : a \in lock[y] => (a = y /\ a \in inText) \/ (target[a] = y /\ pc[a] # "member")
  BY <1>0 DEF LInv, Holds, Writing
<1>4. CASE Written(a) \/ WriteFails(a)
  <2>1. lock' = [lock EXCEPT ![target[a]] = IF a = target[a] /\ a \in inText THEN {a} ELSE {}]
    BY <1>4 DEF Written, WriteFails, Release
  <2>2. \A y \in Conns : a \in lock'[y] => Holds(a, y)'
    BY <1>0, <1>1, <1>3, <2>1 DEF Holds, TypeOK
  <2>3. a \in collector => pc'[a] = "each"
    BY <1>0, <1>2, <1>4 DEF Written, WriteFails, Goto, TypeOK
  <2>4. \A y \in Conns : lock'[y] \subseteq lock[y] \cup {a}
    BY <1>0, <2>1 DEF TypeOK
  <2> QED
    BY <1>0, <1>1, <2>2, <2>3, <2>4, LMove DEF HoldsCollector, InForEach
<1>5. CASE LockTarget(a) \/ WriteWaits(a) \/ EndPoll(a) \/ EndWait(a)
  <2>1. /\ UNCHANGED <<target, task>> /\ pc'[a] \in {"write", "poll", "rewait"}
        /\ \/ lock' = lock /\ pc[a] # "member"
           \/ lock' = [lock EXCEPT ![target[a]] = {a}]
    BY <1>0, <1>5 DEF LockTarget, WriteWaits, EndPoll, EndWait, Goto, Take, TypeOK, locals
  <2>2. \A y \in Conns : a \in lock'[y] => Holds(a, y)'
    BY <1>0, <1>1, <1>3, <2>1 DEF Holds, TypeOK
  <2>3. \A y \in Conns : lock'[y] \subseteq lock[y] \cup {a}
    BY <1>0, <2>1 DEF TypeOK
  <2> QED
    BY <1>0, <1>1, <1>2, <2>1, <2>2, <2>3, LMove DEF HoldsCollector, InForEach, Writing
<1> QED
  BY <1>4, <1>5 DEF Writes

LEMMA LCollect ==
    ASSUME LInv, NEW a \in Actors, Collects(a)
    PROVE  LInv'
<1>0. TypeOK /\ TInv' /\ pc[a] \in {"collect", "each", "drop", "remove", "closing"}
  BY CollectTyped DEF LInv, TInv, Collects, ForEach, Visit, Drop, ForEachReturns, RemoveConnection, Close
<1>1. /\ \A b \in Actors \ {a} : /\ pc'[b] = pc[b] /\ target'[b] = target[b] /\ task'[b] = task[b]
                                 /\ b \in inText => b \in inText'
      /\ pc'[a] \notin {"own", "relock"}
  BY <1>0 DEF Collects, ForEach, Visit, Drop, ForEachReturns, RemoveConnection, Close, Goto, Aim, Resolve, TypeOK, locals
<1>2. a \in collector => pc[a] = "each"
  BY <1>0 DEF LInv, HoldsCollector, InForEach, Writing
<1>3. \A y \in Conns : a \in lock[y] => a = y /\ a \in inText
  BY <1>0 DEF LInv, Holds
<1>4. \A y \in Conns : /\ lock'[y] \subseteq lock[y]
                       /\ a \in lock'[y] => a = y /\ a \in inText'
  BY <1>0, <1>3 DEF Collects, ForEach, Visit, Drop, ForEachReturns, RemoveConnection, Close, Resolve, TypeOK, locals
<1>5. /\ collector' \subseteq collector \cup {a}
      /\ a \in collector' => pc'[a] = "each" \/ (pc'[a] = "member" /\ task'[a] = "each")
  BY <1>0, <1>2 DEF Collects, ForEach, Visit, Drop, ForEachReturns, RemoveConnection, Close, Goto, Aim, TypeOK
<1> QED
  BY <1>0, <1>1, <1>4, <1>5, LMove DEF Holds, HoldsCollector, InForEach, Writing

LEMMA LNext == LInv /\ [Next]_vars => LInv'
<1> SUFFICES ASSUME LInv, [Next]_vars PROVE LInv'
  OBVIOUS
<1>0. TypeOK /\ TInv'
  BY TNext DEF LInv, TInv
<1>1. CASE \E j \in Jobs : Broadcast(j)
  <2>1. PICK j \in Jobs : Broadcast(j)
    BY <1>1
  <2>2. /\ j \in Actors /\ pc[j] = "idle" /\ UNCHANGED <<target, task, inText, lock, collector>>
        /\ pc'[j] = "collect" /\ \A b \in Actors \ {j} : pc'[b] = pc[b]
    BY <1>0, <2>1 DEF Broadcast, Goto, TypeOK, Actors, locals
  <2>3. j \notin collector /\ \A x \in Conns : j \in lock[x] => j = x /\ j \in inText
    BY <2>2 DEF LInv, HoldsCollector, InForEach, Writing, Holds
  <2> QED
    BY <1>0, <2>2, <2>3, LMove DEF Holds
<1>2. CASE UNCHANGED vars
  BY <1>0, <1>2 DEF LInv, Holds, HoldsCollector, InForEach, vars, locals
<1> QED
  BY <1>1, <1>2, LRead, LWrite, LCollect DEF Next

(* Threads that block each other for ever have one among them that signed  *)
(* in a closed connection, waits for a permit inside a write, or           *)
(* broadcasts from a callback: all other ways into a lock let go of it     *)
(* (JsonRpc::onTextMessage, WsCollector::forEach, ConnHandler::wait).      *)
THEOREM OnlyKnownDeadlocks == Spec => []KnownDeadlocks
<1>1. LInv => KnownDeadlocks
  <2> SUFFICES ASSUME LInv, NEW as \in SUBSET Actors, Deadlocked(as),
                      \A a \in as : pc[a] \notin {"stuck", "rewait"} /\ a \notin inText
               PROVE  FALSE
    BY DEF KnownDeadlocks
  <2>0. TypeOK /\ \A a \in as : WaitsFor(a) # {} /\ WaitsFor(a) \subseteq as
    BY DEF Deadlocked, LInv, TInv
  <2>1. \A a \in as : pc[a] \in {"own", "relock", "member", "closing", "collect", "signin", "signoff", "remove",
                                 "enter"}
    BY <2>0 DEF WaitsFor
  <2>2. \A a \in as, x \in Conns : a \notin lock[x]
    BY <2>1 DEF LInv, Holds
  <2>3. ASSUME NEW a \in as PROVE pc[a] \notin {"own", "relock", "member", "closing"}
    <3> SUFFICES ASSUME pc[a] \in {"own", "relock", "member", "closing"} PROVE FALSE
      OBVIOUS
    <3>1. \E x \in Conns : WaitsFor(a) = lock[x] \ {a}
      <4>1. CASE pc[a] \in {"own", "relock"}
        <5>1. WaitsFor(a) = lock[a] \ {a}
          BY <4>1 DEF WaitsFor
        <5> QED
          BY <4>1, <5>1 DEF LInv
      <4>2. CASE pc[a] \in {"member", "closing"}
        BY <2>0, <4>2 DEF WaitsFor, TypeOK
      <4> QED
        BY <4>1, <4>2
    <3> QED
      BY <2>0, <2>2, <3>1
  <2>4. \A a \in as : a \notin collector
    BY <2>1, <2>3 DEF LInv, HoldsCollector, InForEach, Writing
  <2>5. ASSUME NEW a \in as PROVE pc[a] = "enter"
    <3>1. pc[a] \in {"collect", "signin", "signoff", "remove"} => WaitsFor(a) = collector
      BY DEF WaitsFor
    <3>2. WaitsFor(a) # {} /\ WaitsFor(a) \subseteq as
      BY <2>0
    <3> QED
      BY <2>1, <2>3, <2>4, <3>1, <3>2
  <2>6. PICK a \in as : WaitsFor(a) = HasPermit
    BY <2>0, <2>5 DEF WaitsFor, Deadlocked
  <2> QED
    BY <2>0, <2>5, <2>6 DEF HasPermit, BusyPc
<1> QED
  BY <1>1, LInit, LNext, PTL DEF Spec

-----------------------------------------------------------------------------
(***************************************************************************)
(* RpcPage: the page, its server and the others that post, for any script, *)
(* bodies and methods.                                                     *)
(***************************************************************************)
IsSeq(s) == s \in Seq(Range(s))
Outs == Values \cup {"none"}

(* A multicall in progress. *)
IsFrame(f) ==
    /\ f = [call |-> f.call, context |-> f.context, contextOut |-> f.contextOut,
            results |-> f.results, errors |-> f.errors]
    /\ f.context \in Nat /\ f.contextOut \in Outs /\ IsSeq(f.results) /\ IsSeq(f.errors)

Executing == phase \in {"call", "return", "throw"}

(* Types of the server, and what its phase says. *)
ServerTyped ==
    /\ phase \in {"idle", "data", "call", "return", "throw", "end", "dealt", "crashed"}
    /\ IsSeq(body) /\ \A i \in DOMAIN body : body[i].context \in Outs
    /\ at \in 1..Len(body) + 1
    /\ IsSeq(stack) /\ \A k \in DOMAIN stack : IsFrame(stack[k])
    /\ nodes \in Seq(Values)
    /\ ret.context \in Outs
    /\ IsSeq(replies) /\ IsSeq(written)
    /\ methodMap \cup obsoleteMap \subseteq Methods \cup Changing
    /\ phase \in {"idle", "data", "end", "dealt"} => stack = <<>>
    /\ Executing => at <= Len(body) /\ Item.kind = "request"

(* Types of the page. *)
PageTyped ==
    /\ requests \in Seq(Calls) /\ scheduled = (IF requests = <<>> THEN 0 ELSE 1)
    /\ batch \in Seq(Calls) /\ xhr \in {"idle", "sent", "served", "deal", "reject"}
    /\ dealt \in [results : Nat, errors : Nat]
    /\ context \in Values
    /\ method \in [Calls -> UserMethods \cup {"none"}]
    /\ outcome \in [Calls -> {"none", "pending", "failed"} \cup Calls]
    /\ reason = [c \in Calls |-> reason[c]]
    /\ changes \in Nat

(* What has been answered so far. *)
AnsweredSoFar ==
    phase = "data" \/ Executing =>
       /\ Answers(written, 1, Len(written), {i \in DOMAIN body : i < at /\ body[i].kind = "nonobject"})
       /\ \A i \in DOMAIN replies :
            /\ replies[i].to \in 1..at - 1 /\ body[replies[i].to].kind = "request"
            /\ body[replies[i].to].id = "null" => replies[i].error = "error"
       /\ \A i, j \in DOMAIN replies : i < j => replies[i].to < replies[j].to
       /\ \A i \in 1..at - 1 :
            body[i].kind = "request" /\ body[i].id # "null" => \E j \in DOMAIN replies : replies[j].to = i

(* A notification returns nothing, unless it fails; a call that fails      *)
(* returns no context.                                                     *)
NothingReturned ==
    phase = "return" => /\ ret.error = "nil" => Notify
                        /\ Notify => ret = Nothing \/ ret.error = "error"
                        /\ ret.error # "null" => ret.context = "none"

(* The context that the calls of a request share began with the request's  *)
(* own and is now what the innermost multicall has made of it, or the last *)
(* one around it that has made anything of it.                             *)
ContextOf(frames, own, now) ==
    /\ (\A k \in DOMAIN frames : frames[k].contextOut = "none") => now = own
    /\ \A k \in DOMAIN frames :
          frames[k].contextOut # "none" /\ (\A j \in DOMAIN frames : j > k => frames[j].contextOut = "none")
             => now = Merged("absent", frames[k].contextOut)

Told ==
    nodes[1] = IF Item.call.method # "multicall" \/ ret.context = "none" THEN Item.context
               ELSE Merged(Item.context, ret.context)

SharedContext ==
    phase \in {"call", "return"} =>
       /\ stack # <<>> => Item.call.method = "multicall"
       /\ Notify => \A k \in DOMAIN stack : stack[k].contextOut = "none"
       /\ Item.context # "none" =>
            /\ Len(nodes) = 1 /\ \A k \in DOMAIN stack : stack[k].context = 1
            /\ ~leaked /\ (phase = "call" \/ (stack # <<>> /\ ret.context = "none")) =>
                 ContextOf(stack, Item.context, nodes[1])
            /\ ~leaked /\ phase = "return" /\ stack = <<>> /\ ret.error = "null" => Told

-----------------------------------------------------------------------------
(* The page's queues *)
Queued ==
    /\ \A i, j \in DOMAIN batch : batch[i] = batch[j] => i = j
    /\ \A i, j \in DOMAIN requests : requests[i] = requests[j] => i = j
    /\ \A i \in DOMAIN batch, j \in DOMAIN requests : batch[i] # requests[j]
    /\ \A i \in DOMAIN requests : outcome[requests[i]] = "pending"
    /\ \A i \in DOMAIN batch : outcome[batch[i]] # "none" /\ (i > dealt.results => outcome[batch[i]] = "pending")
    /\ \A c \in Calls : outcome[c] # "none" => method[c] \in UserMethods
    /\ xhr = "idle" <=> batch = <<>>
    /\ xhr \in {"sent", "served"} => dealt = [results |-> 0, errors |-> 0]
    /\ xhr = "reject" => dealt.results < Len(batch)
    /\ xhr = "deal" => dealt.results <= Len(batch) /\ (Len(batch) = 1 => dealt.results = 0)

(* The result of a call of the page that has succeeded. *)
LeafResult(result, c) ==
    \/ result = <<c>> /\ method[c] \notin {"error", "callError"}
    \/ result = Null /\ method[c] = "null"

(* The errors of a multicall of the page are those of its calls that       *)
(* failed, in their order: g tells how many there are up to each call.     *)
FitsBy(results, errors, g) ==
    /\ g[0] = 0 /\ g[Len(results)] = Len(errors)
    /\ \A i \in 1..Len(results) :
         \/ g[i] = g[i - 1] /\ LeafResult(results[i], batch[i])
         \/ results[i] = Null /\ g[i] = g[i - 1] + 1 /\ errors[g[i]].by = batch[i]

Fits(results, errors) == \E g \in [0..Len(results) -> 0..Len(errors)] : FitsBy(results, errors, g)

ResultFits(result) ==
    IF Len(batch) = 1 THEN LeafResult(result, batch[1])
    ELSE /\ result = <<result[1], result[2]>> /\ IsSeq(result[1]) /\ IsSeq(result[2])
         /\ Len(result[1]) = Len(batch) /\ Fits(result[1], result[2])

ReplyFits(r) ==
    r.error # "error" =>
       /\ ResultFits(r.result) /\ r.context \in Outs /\ Len(nodes) = 1
       /\ nodes[1] = IF Len(batch) = 1 \/ r.context = "none" THEN context ELSE Merged(context, r.context)

InMulticall ==
    /\ Len(batch) > 1 /\ Len(stack) = 1 /\ stack[1].call = PageRequest.call
    /\ Len(stack[1].results) <= Len(batch) /\ Fits(stack[1].results, stack[1].errors)

ServedReturn ==
    \/ stack = <<>> /\ ReplyFits(ret) /\ ret.error # "nil"
    \/ /\ InMulticall /\ Len(stack[1].results) < Len(batch)
       /\ LET c == batch[Len(stack[1].results) + 1]
          IN  \/ ret.error = "null" /\ LeafResult(ret.result, c)
              \/ ret.error = "error" /\ ret.result = Null

(* How far the server is with the request of the page. *)
Unanswered == at = 1 /\ replies = <<>> /\ written = <<>>

Inside ==
    /\ Executing /\ Unanswered /\ (phase # "throw" => ~leaked)
    /\ phase = "call" => stack = <<>> \/ InMulticall
    /\ phase = "return" => ServedReturn

Collected == phase = "data" /\ at = 2 /\ written = <<>> /\ Len(replies) = 1 /\ ReplyFits(replies[1])
Finished == phase = "end" /\ (status # 200 \/ (Len(written) = 1 /\ ReplyFits(written[1])))

Served ==
    xhr = "served" =>
       body = <<PageRequest>> /\ ((phase = "data" /\ Unanswered) \/ Inside \/ Collected \/ Finished)

(* What is being dealt out. *)
Dealing ==
    /\ xhr = "deal" <=> phase = "dealt"
    /\ xhr = "deal" =>
         /\ ResultFits(PageResponse.result)
         /\ Len(batch) > 1 =>
              \E g \in [0..Len(batch) -> 0..Len(PageResponse.result[2])] :
                 /\ FitsBy(PageResponse.result[1], PageResponse.result[2], g)
                 /\ \/ dealt.errors = g[dealt.results]
                    \/ \A j \in dealt.results + 1..Len(batch) : batch[j] \in shifted

ListMade ==
    changes = 0 => methodMap = Methods /\ methodListTag \in {NoList, Methods} /\ methods \in {NoList, Methods}

Agreed == context = agreed \/ {context, agreed} = {"null", "absent"}

RpcInv ==
    /\ ServerTyped /\ PageTyped
    /\ AnsweredSoFar /\ RepliesOfRequests /\ NothingReturned /\ SharedContext
    /\ Queued /\ Served /\ Dealing
    /\ ListMade /\ OwnOutcome /\ Agreed

-----------------------------------------------------------------------------
LEMMA IsSeqOf == ASSUME NEW S, NEW s \in Seq(S) PROVE IsSeq(s)
BY SeqOfRange DEF IsSeq

LEMMA AppendIs ==
    ASSUME NEW s, IsSeq(s), NEW e
    PROVE  /\ IsSeq(Append(s, e)) /\ Len(s) \in Nat /\ DOMAIN s = 1..Len(s)
           /\ Len(Append(s, e)) = Len(s) + 1 /\ DOMAIN Append(s, e) = 1..Len(s) + 1
           /\ \A i \in 1..Len(s) : Append(s, e)[i] = s[i]
           /\ Append(s, e)[Len(s) + 1] = e
<1> DEFINE S == Range(s) \cup {e}
<1>1. s \in Seq(S)
  BY SeqMonotonic DEF IsSeq
<1>2. e \in S
  OBVIOUS
<1> HIDE DEF S
<1>3. Append(s, e) \in Seq(S)
  BY <1>1, <1>2, AppendProperties
<1>4. IsSeq(Append(s, e))
  BY <1>3, IsSeqOf
<1>5. Len(s) \in Nat /\ DOMAIN s = 1..Len(s)
  BY <1>1, LenProperties
<1>6. DOMAIN Append(s, e) = 1..Len(Append(s, e))
  BY <1>3, LenProperties
<1>7. /\ Len(Append(s, e)) = Len(s) + 1 /\ Append(s, e)[Len(s) + 1] = e
      /\ \A i \in 1..Len(s) : Append(s, e)[i] = s[i]
  BY <1>1, <1>2, AppendProperties
<1> QED
  BY <1>4, <1>5, <1>6, <1>7

LEMMA FrontIs ==
    ASSUME NEW s, IsSeq(s), s # <<>>
    PROVE  /\ IsSeq(Front(s)) /\ Len(s) \in Nat \ {0} /\ DOMAIN s = 1..Len(s)
           /\ Len(Front(s)) = Len(s) - 1 /\ DOMAIN Front(s) = 1..Len(s) - 1
           /\ \A i \in 1..Len(s) - 1 : Front(s)[i] = s[i]
           /\ Last(s) = s[Len(s)]
<1> DEFINE S == Range(s)
<1>1. s \in Seq(S)
  BY DEF IsSeq
<1> HIDE DEF S
<1>2. Len(s) \in Nat \ {0} /\ DOMAIN s = 1..Len(s) /\ \A i \in 1..Len(s) : s[i] \in S
  BY <1>1, EmptySeq, LenProperties
<1>3. /\ SubSeq(s, 1, Len(s) - 1) \in Seq(S)
      /\ Len(SubSeq(s, 1, Len(s) - 1)) = Len(s) - 1
      /\ \A i \in 1..Len(s) - 1 : SubSeq(s, 1, Len(s) - 1)[i] = s[i]
  <2>1. \A i \in 1..Len(s) - 1 : s[i] \in S
    BY <1>2
  <2> QED
    BY <1>1, <1>2, <2>1, SubSeqProperties
<1> QED
  BY <1>1, <1>2, <1>3, IsSeqOf, LenProperties DEF Front, Last

(* The innermost multicall goes on with another frame. *)
LEMMA LastIs ==
    ASSUME NEW s, IsSeq(s), s # <<>>, NEW f
    PROVE  LET t == Append(Front(s), f) IN
           /\ IsSeq(t) /\ Len(t) = Len(s) /\ DOMAIN t = 1..Len(s) /\ t[Len(s)] = f
           /\ \A i \in 1..Len(s) - 1 : t[i] = s[i]
           /\ Len(s) \in Nat \ {0} /\ DOMAIN s = 1..Len(s) /\ Last(s) = s[Len(s)] /\ t # <<>>
<1> DEFINE t == Append(Front(s), f)
<1>1. IsSeq(Front(s)) /\ Len(Front(s)) + 1 = Len(s) /\ Len(s) \in Nat \ {0}
  BY FrontIs
<1>2. IsSeq(t) /\ Len(t) = Len(s) /\ DOMAIN t = 1..Len(s) /\ t[Len(s)] = f
  BY <1>1, AppendIs
<1>3. \A i \in 1..Len(s) - 1 : t[i] = s[i]
  BY <1>1, AppendIs, FrontIs
<1>4. t # <<>>
  BY <1>1, <1>2
<1> QED
  BY <1>1, <1>2, <1>3, <1>4, FrontIs

LEMMA NothingIs == IsSeq(<<>>) /\ Len(<<>>) = 0 /\ DOMAIN <<>> = {}
<1>1. <<>> \in Seq({})
  BY EmptySeq
<1>2. Len(<<>>) = 0
  BY EmptySeq
<1>3. DOMAIN <<>> = {}
  OBVIOUS
<1> QED
  BY <1>1, <1>2, <1>3, IsSeqOf

-----------------------------------------------------------------------------
(* The types of the server, action by action. *)
LEMMA RpcInitTyped == RpcInit => ServerTyped /\ PageTyped
<1> SUFFICES ASSUME RpcInit PROVE ServerTyped /\ PageTyped
  OBVIOUS
<1>1. ServerTyped
  <2>1. <<>> \in Seq(Values)
    BY EmptySeq
  <2> QED
    BY <2>1, NothingIs DEF RpcInit, JInit, ServerTyped, Nothing, Outs, Executing
<1>2. PageTyped
  <2>1. <<>> \in Seq(Calls)
    BY EmptySeq
  <2> QED
    BY <2>1 DEF RpcInit, PageTyped, Values
<1> QED
  BY <1>1, <1>2

LEMMA OnRequestTyped ==
    ASSUME ServerTyped, NEW b, IsSeq(b), \A i \in DOMAIN b : b[i].context \in Outs,
           NEW origin, OnRequest(b, origin)
    PROVE  ServerTyped'
<1>1. Len(b) \in Nat
  BY LenProperties DEF IsSeq
<1>2. stack = <<>>
  BY DEF OnRequest, ServerTyped
<1> QED
  BY <1>1, <1>2, NothingIs DEF OnRequest, ServerTyped, Executing, registry

LEMMA FreedTyped ==
    ASSUME ServerTyped, stack = <<>>, Freed
    PROVE  ServerTyped'
<1>1. <<>> \in Seq(Values)
  BY EmptySeq
<1> QED
  BY <1>1, NothingIs DEF Freed, ServerTyped, Executing, registry

LEMMA TopIs ==
    ASSUME ServerTyped, stack # <<>>
    PROVE  /\ IsSeq(stack) /\ Len(stack) \in Nat \ {0} /\ DOMAIN stack = 1..Len(stack)
           /\ Top = stack[Len(stack)] /\ IsFrame(Top)
<1>1. IsSeq(stack) /\ \A k \in DOMAIN stack : IsFrame(stack[k])
  BY DEF ServerTyped
<1>2. Len(stack) \in Nat \ {0} /\ DOMAIN stack = 1..Len(stack) /\ Last(stack) = stack[Len(stack)]
  BY <1>1, FrontIs
<1> QED
  BY <1>1, <1>2 DEF Top

LEMMA DataTyped ==
    ASSUME ServerTyped, DataGarbage \/ DataNotObject \/ ParseRequest \/ SendReplies
    PROVE  ServerTyped'
<1>1. Len(body) \in Nat /\ DOMAIN body = 1..Len(body) /\ at \in 1..Len(body) + 1
  BY LenProperties DEF ServerTyped, IsSeq
<1>2. CASE DataGarbage
  BY <1>1, <1>2, AppendIs DEF DataGarbage, ServerTyped, Executing, calls, registry
<1>3. CASE DataNotObject
  BY <1>1, <1>3, AppendIs DEF DataNotObject, ServerTyped, Executing, calls, registry
<1>4. CASE ParseRequest
  <2>1. Item.context \in Outs /\ Item' = Item /\ Item.kind = "request"
    BY <1>1, <1>4 DEF ParseRequest, Item, ServerTyped, request
  <2>2. nodes' \in Seq(Values)
    BY <1>4, <2>1 DEF ParseRequest, Outs
  <2> QED
    BY <1>1, <1>4, <2>1, <2>2 DEF ParseRequest, ServerTyped, Executing, request, registry
<1>5. CASE SendReplies
  <2>1. IsSeq(written \o replies)
    <3> DEFINE S == Range(written) \cup Range(replies)
    <3>1. written \in Seq(S) /\ replies \in Seq(S)
      BY SeqMonotonic DEF ServerTyped, IsSeq
    <3> QED
      BY <3>1, ConcatProperties, IsSeqOf
  <2> QED
    BY <1>1, <1>5, <2>1 DEF SendReplies, ServerTyped, Executing, calls, registry
<1> QED
  BY <1>2, <1>3, <1>4, <1>5

LEMMA CallTyped ==
    ASSUME ServerTyped, CallMethod \/ CallUnknown \/ BadForm \/ MulticallEnds
    PROVE  ServerTyped'
<1>1. ret'.context \in Outs /\ phase' \in {"return", "throw"} /\ phase = "call"
  <2>1. MulticallEnds => Top.contextOut \in Outs
    BY TopIs DEF MulticallEnds, IsFrame
  <2> QED
    BY <2>1 DEF CallMethod, CallUnknown, BadForm, MulticallEnds, InCall, Raise, Return, Throw, Nothing, Failed,
                Outs, Values, ServerTyped
<1>2. UNCHANGED <<request, nodes, registry>>
  BY DEF CallMethod, CallUnknown, BadForm, MulticallEnds
<1>3. stack' = stack \/ (stack # <<>> /\ stack' = Front(stack))
  BY DEF CallMethod, CallUnknown, BadForm, MulticallEnds
<1>4. IsSeq(stack') /\ \A k \in DOMAIN stack' : IsFrame(stack'[k])
  <2>1. IsSeq(stack) /\ \A k \in DOMAIN stack : IsFrame(stack[k])
    BY DEF ServerTyped
  <2>2. CASE stack # <<>> /\ stack' = Front(stack)
    <3>1. /\ IsSeq(Front(stack)) /\ DOMAIN stack = 1..Len(stack) /\ DOMAIN Front(stack) = 1..Len(stack) - 1
          /\ \A k \in 1..Len(stack) - 1 : Front(stack)[k] = stack[k]
          /\ Len(stack) \in Nat
      BY <2>1, <2>2, FrontIs
    <3>2. \A k \in 1..Len(stack) - 1 : IsFrame(Front(stack)[k])
      BY <2>1, <3>1
    <3> QED
      BY <2>2, <3>1, <3>2
  <2> QED
    BY <1>3, <2>1, <2>2
<1> QED
  BY <1>1, <1>2, <1>4 DEF ServerTyped, Executing, request, registry, Item

LEMMA MulticallTyped ==
    ASSUME ServerTyped, CallMulticall
    PROVE  ServerTyped'
<1>1. UNCHANGED <<request, nodes, registry>> /\ phase = "call" /\ ret'.context \in Outs
  BY DEF CallMulticall, InCall, Raise, Return, Throw, Nothing, Failed, Outs, Values, ServerTyped
<1>2. CASE Current.args = <<>>
  BY <1>1, <1>2 DEF CallMulticall, Raise, Return, Throw, ServerTyped, Executing, request, registry, Item
<1>3. CASE Current.args # <<>>
  <2>1. Context \in Nat
    BY TopIs, LenProperties DEF Context, ServerTyped, IsFrame
  <2> DEFINE f == [call |-> Current, context |-> Context, contextOut |-> "none", results |-> <<>>, errors |-> <<>>]
  <2>2. IsFrame(f)
    BY <2>1, NothingIs DEF IsFrame, Outs
  <2>3. stack' = Append(stack, f) /\ phase' = phase
    BY <1>3 DEF CallMulticall
  <2> HIDE DEF f
  <2>4. IsSeq(stack) /\ \A k \in DOMAIN stack : IsFrame(stack[k])
    BY DEF ServerTyped
  <2>5. IsSeq(stack') /\ \A k \in DOMAIN stack' : IsFrame(stack'[k])
    <3>1. /\ IsSeq(Append(stack, f)) /\ DOMAIN stack = 1..Len(stack) /\ Len(stack) \in Nat
          /\ DOMAIN Append(stack, f) = 1..Len(stack) + 1 /\ Append(stack, f)[Len(stack) + 1] = f
          /\ \A k \in 1..Len(stack) : Append(stack, f)[k] = stack[k]
      BY <2>4, AppendIs
    <3> QED
      BY <2>2, <2>3, <2>4, <3>1
  <2> QED
    BY <1>1, <2>3, <2>5 DEF ServerTyped, Executing, request, registry, Item
<1> QED
  BY <1>2, <1>3

(* The frame of a multicall one of whose calls has returned. *)
NewTop ==
    [Top EXCEPT !.context = IF ret.context # "none" /\ Top.context = 0 THEN Len(nodes) + 1 ELSE @,
                !.contextOut = IF ret.context = "none" THEN @ ELSE ret.context,
                !.results = Append(@, ret.result),
                !.errors = IF ret.error = "error" THEN Append(@, Current) ELSE @]

LEMMA NewTopIs ==
    ASSUME ServerTyped, stack # <<>>
    PROVE  /\ IsFrame(NewTop) /\ NewTop.call = Top.call
           /\ NewTop.results = Append(Top.results, ret.result)
           /\ NewTop.errors = IF ret.error = "error" THEN Append(Top.errors, Current) ELSE Top.errors
           /\ NewTop.contextOut = IF ret.context = "none" THEN Top.contextOut ELSE ret.context
           /\ Top.context # 0 => NewTop.context = Top.context
           /\ ret.context # "none" => NewTop.context > 0
<1>1. IsFrame(Top) /\ Len(nodes) \in Nat /\ ret.context \in Outs
  BY TopIs, LenProperties DEF ServerTyped
<1>2. /\ NewTop.call = Top.call
      /\ NewTop.results = Append(Top.results, ret.result)
      /\ NewTop.errors = IF ret.error = "error" THEN Append(Top.errors, Current) ELSE Top.errors
      /\ NewTop.contextOut = IF ret.context = "none" THEN Top.contextOut ELSE ret.context
      /\ NewTop.context = IF ret.context # "none" /\ Top.context = 0 THEN Len(nodes) + 1 ELSE Top.context
      /\ NewTop = [call |-> NewTop.call, context |-> NewTop.context, contextOut |-> NewTop.contextOut,
                   results |-> NewTop.results, errors |-> NewTop.errors]
  <2> DEFINE c == IF ret.context # "none" /\ Top.context = 0 THEN Len(nodes) + 1 ELSE Top.context
             o == IF ret.context = "none" THEN Top.contextOut ELSE ret.context
             r == Append(Top.results, ret.result)
             e == IF ret.error = "error" THEN Append(Top.errors, Current) ELSE Top.errors
  <2>1. Top = [call |-> Top.call, context |-> Top.context, contextOut |-> Top.contextOut,
               results |-> Top.results, errors |-> Top.errors]
    BY <1>1 DEF IsFrame
  <2>2. NewTop = [Top EXCEPT !.context = c, !.contextOut = o, !.results = r, !.errors = e]
    BY <2>1 DEF NewTop
  <2> HIDE DEF c, o, r, e
  <2>3. NewTop = [call |-> Top.call, context |-> c, contextOut |-> o, results |-> r, errors |-> e]
    BY <2>1, <2>2
  <2>4. NewTop.call = Top.call /\ NewTop.context = c /\ NewTop.contextOut = o /\ NewTop.results = r /\ NewTop.errors = e
    BY <2>3
  <2> QED
    BY <2>3, <2>4 DEF c, o, r, e
<1>3. IsSeq(NewTop.results) /\ IsSeq(NewTop.errors)
  <2>1. IsSeq(Top.results) /\ IsSeq(Top.errors)
    BY <1>1 DEF IsFrame
  <2> QED
    BY <1>2, <2>1, AppendIs
<1>4. NewTop.context \in Nat /\ NewTop.contextOut \in Outs
  BY <1>1, <1>2 DEF IsFrame
<1>5. ret.context # "none" => NewTop.context > 0
  BY <1>1, <1>2 DEF IsFrame
<1> QED
  BY <1>2, <1>3, <1>4, <1>5 DEF IsFrame

LEMMA Merges ==
    ASSUME ServerTyped, CallReturned, ret.error # "nil"
    PROVE  /\ stack # <<>> /\ stack' = Append(Front(stack), NewTop) /\ phase = "return" /\ phase' = "call"
           /\ UNCHANGED <<request, ret, thrown, registry>>
           /\ ret.context = "none" => nodes' = nodes
           /\ ret.context # "none" =>
                nodes' = IF NewTop.context > Len(nodes) THEN Append(nodes, Merged("absent", ret.context))
                         ELSE [nodes EXCEPT ![NewTop.context] = Merged("absent", ret.context)]
<1>1. IsFrame(Top) /\ stack # <<>>
  BY TopIs DEF CallReturned
<1>2. MergeContext(ret.context) /\ phase = "return" /\ phase' = "call" /\ UNCHANGED <<request, ret, thrown, registry>>
  BY DEF CallReturned
<1>3. CASE ret.context = "none"
  <2>1. stack' = Append(Front(stack), NewTop) /\ nodes' = nodes
    BY <1>1, <1>2, <1>3 DEF MergeContext, NewTop, IsFrame
  <2> QED
    BY <1>1, <1>2, <1>3, <2>1
<1>4. CASE ret.context # "none"
  <2>1. NewTop.context = IF Top.context = 0 THEN Len(nodes) + 1 ELSE Top.context
    BY <1>1, <1>4 DEF NewTop, IsFrame
  <2>2. stack' = Append(Front(stack), NewTop)
    BY <1>1, <1>2, <1>4 DEF MergeContext, NewTop, IsFrame
  <2>3. nodes' = IF NewTop.context > Len(nodes) THEN Append(nodes, Merged("absent", ret.context))
                 ELSE [nodes EXCEPT ![NewTop.context] = Merged("absent", ret.context)]
    BY <1>2, <1>4, <2>1 DEF MergeContext, Merged
  <2> QED
    BY <1>1, <1>2, <1>4, <2>2, <2>3
<1> QED
  BY <1>3, <1>4

LEMMA ReturnTyped ==
    ASSUME ServerTyped, CallReturned
    PROVE  ServerTyped'
<1>1. CASE ret.error = "nil"
  BY <1>1 DEF CallReturned, ServerTyped, Executing, request, registry, Item
<1>2. CASE ret.error # "nil"
  <2>1. /\ stack # <<>> /\ stack' = Append(Front(stack), NewTop) /\ phase = "return" /\ phase' = "call"
        /\ UNCHANGED <<request, ret, thrown, registry>>
    BY <1>2, Merges
  <2>2. IsFrame(NewTop)
    BY <2>1, NewTopIs
  <2>3. IsSeq(stack') /\ \A k \in DOMAIN stack' : IsFrame(stack'[k])
    <3>1. /\ IsSeq(stack') /\ DOMAIN stack' = 1..Len(stack) /\ stack'[Len(stack)] = NewTop
          /\ \A k \in 1..Len(stack) - 1 : stack'[k] = stack[k]
          /\ Len(stack) \in Nat \ {0} /\ DOMAIN stack = 1..Len(stack)
      <4>1. IsSeq(stack)
        BY DEF ServerTyped
      <4>2. LET t == Append(Front(stack), NewTop) IN
            /\ IsSeq(t) /\ DOMAIN t = 1..Len(stack) /\ t[Len(stack)] = NewTop
            /\ \A k \in 1..Len(stack) - 1 : t[k] = stack[k]
            /\ Len(stack) \in Nat \ {0} /\ DOMAIN stack = 1..Len(stack)
        BY <2>1, <4>1, LastIs
      <4> QED
        BY <2>1, <4>2
    <3>2. \A k \in DOMAIN stack : IsFrame(stack[k])
      BY DEF ServerTyped
    <3> QED
      BY <2>2, <3>1, <3>2
  <2>4. nodes' \in Seq(Values)
    <3>1. nodes \in Seq(Values)
      BY DEF ServerTyped
    <3>2. CASE ret.context = "none"
      BY <1>2, <3>1, <3>2, Merges
    <3>3. CASE ret.context # "none"
      <4>1. Merged("absent", ret.context) \in Values /\ NewTop.context \in Nat
        BY <2>2, <3>3 DEF Merged, Values, Outs, ServerTyped, IsFrame
      <4>2. Append(nodes, Merged("absent", ret.context)) \in Seq(Values)
        BY <3>1, <4>1, AppendProperties
      <4>3. ~(NewTop.context > Len(nodes)) =>
                 [nodes EXCEPT ![NewTop.context] = Merged("absent", ret.context)] \in Seq(Values)
        <5>1. Len(nodes) \in Nat /\ NewTop.context > 0
          BY <2>1, <3>1, <3>3, LenProperties, NewTopIs
        <5> QED
          BY <3>1, <4>1, <5>1, ExceptSeq
      <4> QED
        BY <1>2, <3>3, <4>2, <4>3, Merges
    <3> QED
      BY <3>2, <3>3
  <2> QED
    BY <2>1, <2>3, <2>4 DEF ServerTyped, Executing, request, registry, Item
<1> QED
  BY <1>1, <1>2

LEMMA ReplyTyped ==
    ASSUME ServerTyped, Reply \/ ReplyException
    PROVE  ServerTyped'
<1>1. Len(body) \in Nat /\ at \in 1..Len(body) /\ at' = at + 1
  BY LenProperties DEF Reply, ReplyException, ServerTyped, IsSeq, Executing
<1>2. IsSeq(replies')
  <2>1. IsSeq(replies)
    BY DEF ServerTyped
  <2>2. \/ replies' = replies
        \/ replies' = Append(replies, [to |-> at, result |-> ret.result, error |-> ret.error, context |-> ret.context])
        \/ replies' = Append(replies, [to |-> at, result |-> Null, error |-> "error", context |-> "none"])
    BY DEF Reply, ReplyException
  <2>3. \A e : IsSeq(Append(replies, e))
    BY <2>1, AppendIs
  <2> QED
    BY <2>1, <2>2, <2>3
<1>3. UNCHANGED <<body, written, nodes, registry>> /\ phase' = "data" /\ ret' = Nothing /\ stack' = <<>>
  BY DEF Reply, ReplyException
<1> QED
  BY <1>1, <1>2, <1>3, NothingIs DEF ServerTyped, Executing, registry, Nothing, Outs

LEMMA ServesTyped == ServerTyped /\ JsonRpcNext => ServerTyped'
BY DataTyped, CallTyped, MulticallTyped, ReturnTyped, ReplyTyped DEF JsonRpcNext

-----------------------------------------------------------------------------
(* The types of the page, and what holds of its queues. *)
LEMMA RequestIs ==
    ASSUME PageTyped
    PROVE  /\ IsSeq(<<PageRequest>>) /\ Len(<<PageRequest>>) = 1 /\ DOMAIN <<PageRequest>> = {1}
           /\ <<PageRequest>>[1] = PageRequest
           /\ PageRequest.kind = "request" /\ PageRequest.id = "number" /\ PageRequest.context = context
           /\ context \in Values
<1> DEFINE r == PageRequest
<1>1. r.kind = "request" /\ r.id = "number" /\ r.context = context /\ context \in Values
  BY DEF PageTyped, PageRequest
<1> HIDE DEF r
<1>2. <<r>> \in Seq({r}) /\ Len(<<r>>) = 1 /\ <<r>>[1] = r /\ DOMAIN <<r>> = {1}
  OBVIOUS
<1>3. IsSeq(<<r>>)
  BY <1>2, IsSeqOf
<1> QED
  BY <1>1, <1>2, <1>3 DEF r

LEMMA ServerStep == ServerTyped /\ PageTyped /\ Dealing /\ [RpcNext]_rpcVars => ServerTyped'
<1> SUFFICES ASSUME ServerTyped, PageTyped, Dealing, [RpcNext]_rpcVars PROVE ServerTyped'
  OBVIOUS
<1> USE DEF jvars, request, calls, registry
<1>1. ASSUME UNCHANGED jvars PROVE ServerTyped'
  BY <1>1 DEF ServerTyped, Executing, Item
<1>2. CASE Serves
  BY <1>2, ServesTyped DEF Serves
<1>3. CASE Freed /\ phase \in {"end", "dealt"}
  BY <1>3, FreedTyped DEF ServerTyped
<1>4. CASE PageNext
  <2>1. CASE Arrives
    BY <2>1, RequestIs, OnRequestTyped DEF Arrives, Outs
  <2>2. CASE ResponseOk
    BY <2>2 DEF ResponseOk, Succeeds, ServerTyped, Executing
  <2>3. CASE DealOne \/ DealtAll
    BY <1>3, <2>3 DEF DealOne, DealtAll, Dealing
  <2> QED
    BY <1>1, <1>3, <1>4, <2>1, <2>2, <2>3
       DEF PageNext, SheduleRequest, DealMany, Rejects, ResponseError, ResponseStatus, OthersEnd
<1>5. CASE Breaks
  BY <1>1, <1>3, <1>5 DEF Breaks
<1>6. CASE LoadMethods
  BY <1>6 DEF LoadMethods, DumpMethods, ServerTyped, Executing
<1>7. ASSUME NEW c \in Calls, NEW m \in Methods \cup Changing, DoCall(c, m) PROVE ServerTyped'
  BY <1>1, <1>7 DEF DoCall
<1>8. ASSUME NEW b \in Bodies, NEW origin \in {{}, {"null"}, {"elsewhere"}}, OthersPost(b, origin)
      PROVE  ServerTyped'
  BY <1>8, RpcPageAssumption, OnRequestTyped DEF OthersPost, Outs, IsSeq
<1>9. ASSUME NEW m \in Changing, MethodsChange(m) PROVE ServerTyped'
  BY <1>9 DEF MethodsChange, RegisterMethod, EraseMethod, ServerTyped, Executing
<1> QED
  BY <1>1, <1>2, <1>4, <1>5, <1>6, <1>7, <1>8, <1>9 DEF RpcNext, rpcVars

LEMMA CallsAre == Calls \cap {"none", "pending", "failed", "request", "null"} = {}
BY RpcPageAssumption DEF Calls

LEMMA NullIs == \A c \in Calls : <<c>> # Null /\ <<c>>[1] = c
BY CallsAre DEF Null

LEMMA BatchIs ==
    ASSUME PageTyped
    PROVE  /\ Len(batch) \in Nat /\ DOMAIN batch = 1..Len(batch) /\ \A i \in 1..Len(batch) : batch[i] \in Calls
           /\ Len(requests) \in Nat /\ DOMAIN requests = 1..Len(requests)
           /\ \A i \in 1..Len(requests) : requests[i] \in Calls
           /\ dealt.results \in Nat /\ dealt.errors \in Nat
           /\ dealt = [results |-> dealt.results, errors |-> dealt.errors]
<1>1. batch \in Seq(Calls) /\ requests \in Seq(Calls) /\ dealt \in [results : Nat, errors : Nat]
  BY DEF PageTyped
<1> QED
  BY <1>1, LenProperties, ElementOfSeq

(* A call of the page is settled: with its own result, with its own error, *)
(* with that of the request, or with one that a null before it has shifted.*)
SettlesAs(c, o) ==
    /\ c \in Calls /\ o \in {c, "failed"} /\ outcome[c] = "pending"
    /\ outcome' = [outcome EXCEPT ![c] = o]
    /\ dealt.results + 1 \in DOMAIN batch /\ c = batch[dealt.results + 1]
    /\ o = c => method[c] \notin {"error", "callError"} /\ reason' = reason
    /\ o = "failed" => \E x : reason' = [reason EXCEPT ![c] = x] /\ (c \in shifted' \/ x \in {c, "request"})
    /\ shifted \subseteq shifted' /\ method' = method

Settled == \E c \in Calls : \E o \in {c, "failed"} : SettlesAs(c, o)

(* The result that DealMany takes next. *)
LEMMA NextResult ==
    ASSUME PageTyped, Queued, Dealing, DealMany
    PROVE  Settled /\ Dealing'
<1> DEFINE i == dealt.results + 1
           c == batch[i]
           results == PageResponse.result[1]
           errors == PageResponse.result[2]
           e == dealt.errors + 1
<1>1. /\ xhr = "deal" /\ Len(batch) > 1 /\ dealt.results < Len(batch) /\ phase = "dealt"
      /\ UNCHANGED <<jvars, batch, xhr, method>>
  BY DEF DealMany, Dealing
<1>2. i \in 1..Len(batch) /\ c \in Calls /\ i - 1 = dealt.results /\ outcome[c] = "pending" /\ i \in DOMAIN batch
  BY <1>1, BatchIs DEF Queued
<1>3. Len(results) = Len(batch) /\ IsSeq(errors) /\ ResultFits(PageResponse.result)
  BY <1>1, BatchIs DEF Dealing, ResultFits
<1>4. Len(errors) \in Nat
  BY <1>3, LenProperties DEF IsSeq
<1>5. PICK g \in [0..Len(batch) -> 0..Len(errors)] :
        /\ FitsBy(results, errors, g)
        /\ \/ dealt.errors = g[dealt.results]
           \/ \A j \in i..Len(batch) : batch[j] \in shifted
  BY <1>1 DEF Dealing
<1>6. \/ g[i] = g[i - 1] /\ LeafResult(results[i], c)
      \/ results[i] = Null /\ g[i] = g[i - 1] + 1 /\ errors[g[i]].by = c
  BY <1>2, <1>3, <1>5 DEF FitsBy
<1>7. g[i] \in 0..Len(errors) /\ g[i - 1] \in 0..Len(errors)
  BY <1>2, <1>5, BatchIs
<1>8. PageResponse' = PageResponse
  BY <1>1 DEF PageResponse, jvars, request
<1>9. shifted \subseteq shifted'
  BY DEF DealMany
<1>10. ASSUME \/ dealt'.errors = g[dealt'.results]
              \/ \A j \in dealt'.results + 1..Len(batch) : batch[j] \in shifted'
       PROVE  Dealing'
  <2>1. (xhr = "deal" <=> phase = "dealt")' /\ ResultFits(PageResponse.result)'
    BY <1>1, <1>3, <1>8 DEF jvars, ResultFits, LeafResult, Fits, FitsBy
  <2>2. FitsBy(results, errors, g)'
    BY <1>1, <1>5, <1>8 DEF FitsBy, LeafResult
  <2> QED
    BY <1>1, <1>5, <1>8, <1>10, <2>1, <2>2 DEF Dealing
<1>11. CASE results[i] = Null
  <2>1. /\ outcome' = [outcome EXCEPT ![c] = "failed"]
        /\ reason' = [reason EXCEPT ![c] = IF e <= Len(errors) THEN errors[e].by ELSE "undefined"]
        /\ dealt' = [results |-> i, errors |-> e]
        /\ shifted' = IF method[c] = "null" THEN shifted \cup {batch[j] : j \in i..Len(batch)} ELSE shifted
    BY <1>11 DEF DealMany
  <2>2. dealt'.results = i /\ dealt'.errors = e
    BY <2>1
  <2>3. CASE \A j \in i..Len(batch) : batch[j] \in shifted'
    <3>1. c \in shifted' /\ \A j \in i + 1..Len(batch) : batch[j] \in shifted'
      BY <1>2, <2>3
    <3>2. SettlesAs(c, "failed")
      BY <1>1, <1>2, <1>9, <2>1, <3>1, CallsAre DEF SettlesAs
    <3> QED
      BY <1>2, <1>10, <2>2, <3>1, <3>2 DEF Settled
  <2>4. CASE ~ \A j \in i..Len(batch) : batch[j] \in shifted'
    <3>1. method[c] # "null" /\ ~ \A j \in i..Len(batch) : batch[j] \in shifted
      BY <2>1, <2>4
    <3>2. g[i] = g[i - 1] + 1 /\ errors[g[i]].by = c /\ dealt.errors = g[i - 1]
      BY <1>2, <1>5, <1>6, <1>11, <3>1, NullIs DEF LeafResult
    <3>3. e = g[i] /\ e <= Len(errors) /\ errors[e].by = c
      BY <1>4, <1>7, <3>2
    <3>4. SettlesAs(c, "failed")
      BY <1>1, <1>2, <1>9, <2>1, <3>3, CallsAre DEF SettlesAs
    <3> QED
      BY <1>2, <1>10, <2>2, <3>3, <3>4 DEF Settled
  <2> QED
    BY <2>3, <2>4
<1>12. CASE results[i] # Null
  <2>1. results[i] = <<c>> /\ method[c] \notin {"error", "callError"} /\ g[i] = g[i - 1]
    BY <1>6, <1>12 DEF LeafResult
  <2>2. /\ outcome' = [outcome EXCEPT ![c] = ResultOf(results[i], c)] /\ dealt' = [dealt EXCEPT !.results = i]
        /\ UNCHANGED <<reason, shifted>>
    BY <1>12 DEF DealMany
  <2>3. ResultOf(results[i], c) = c
    BY <1>2, <2>1, NullIs DEF ResultOf
  <2>4. dealt'.results = i /\ dealt'.errors = dealt.errors
    BY <2>2, BatchIs
  <2>5. SettlesAs(c, c)
    BY <1>1, <1>2, <1>9, <2>1, <2>2, <2>3, CallsAre DEF SettlesAs
  <2>6. \/ dealt'.errors = g[dealt'.results]
        \/ \A j \in dealt'.results + 1..Len(batch) : batch[j] \in shifted'
    BY <1>2, <1>5, <1>9, <2>1, <2>4
  <2> QED
    BY <1>2, <1>10, <2>5, <2>6 DEF Settled
<1> QED
  BY <1>11, <1>12

LEMMA OneSettles ==
    ASSUME PageTyped, Queued, Dealing, DealOne \/ Rejects
    PROVE  Settled
<1>1. CASE DealOne
  <2> DEFINE c == batch[1]
  <2>1. /\ xhr = "deal" /\ Len(batch) = 1 /\ dealt.results = 0
        /\ UNCHANGED <<method, reason, shifted>>
        /\ outcome' = [outcome EXCEPT ![c] = ResultOf(PageResponse.result, c)]
    BY <1>1 DEF DealOne, Queued, history
  <2>2. c \in Calls /\ outcome[c] = "pending" /\ 1 \in DOMAIN batch /\ dealt.results + 1 = 1
    BY <2>1, BatchIs DEF Queued
  <2>3. LeafResult(PageResponse.result, c)
    BY <2>1 DEF Dealing, ResultFits
  <2>4. ResultOf(PageResponse.result, c) = c /\ method[c] \notin {"error", "callError"}
    BY <2>2, <2>3, NullIs DEF LeafResult, ResultOf
  <2>5. SettlesAs(c, c)
    BY <2>1, <2>2, <2>4, CallsAre DEF SettlesAs
  <2> QED
    BY <2>2, <2>5 DEF Settled
<1>2. CASE Rejects
  <2> DEFINE c == batch[dealt.results + 1]
  <2>1. /\ xhr = "reject" /\ dealt.results < Len(batch)
        /\ UNCHANGED <<method, shifted>>
        /\ outcome' = [outcome EXCEPT ![c] = "failed"]
        /\ reason' = [reason EXCEPT ![c] = IF Len(batch) = 1 THEN c ELSE "request"]
    BY <1>2 DEF Rejects, Queued, history
  <2>2. c \in Calls /\ outcome[c] = "pending" /\ dealt.results + 1 \in DOMAIN batch
    BY <2>1, BatchIs DEF Queued
  <2>3. SettlesAs(c, "failed")
    BY <2>1, <2>2, CallsAre DEF SettlesAs
  <2> QED
    BY <2>2, <2>3 DEF Settled
<1> QED
  BY <1>1, <1>2

(* What the page takes from a reply. *)
LEMMA Answered ==
    ASSUME PageTyped, Queued, Served, xhr = "served", Succeeds
    PROVE  /\ body = <<PageRequest>> /\ Len(written) = 1 /\ ReplyFits(PageResponse)
           /\ ResultFits(PageResponse.result) /\ PageResponse.context \in Outs /\ Len(nodes) = 1
           /\ nodes[1] = IF Len(batch) = 1 \/ PageResponse.context = "none" THEN context
                         ELSE Merged(context, PageResponse.context)
BY DEF Served, Succeeds, PageResponse, ReplyFits, Inside, Collected, Finished, Executing

LEMMA ChosenBatch ==
    ASSUME PageTyped, SheduleRequest
    PROVE  batch' = requests /\ requests' = <<>> /\ requests # <<>> /\ scheduled' = 0 /\ xhr' = "sent"
BY DEF SheduleRequest, PageTyped

LEMMA PageStep == PageTyped /\ Queued /\ Served /\ Dealing /\ [RpcNext]_rpcVars => PageTyped'
<1> SUFFICES ASSUME PageTyped, Queued, Served, Dealing, [RpcNext]_rpcVars PROVE PageTyped'
  OBVIOUS
<1>1. ASSUME UNCHANGED <<requests, scheduled, batch, dealt, context, method, outcome, reason, changes>>,
             xhr' \in {"idle", "sent", "served", "deal", "reject"}
      PROVE  PageTyped'
  BY <1>1 DEF PageTyped
<1>2. CASE SheduleRequest
  <2>1. <<>> \in Seq(Calls)
    BY EmptySeq
  <2> QED
    BY <1>2, <2>1, ChosenBatch DEF SheduleRequest, PageTyped, bounds
<1>3. CASE ResponseOk
  BY <1>3, Answered DEF ResponseOk, PageTyped, updateContext, Outs, bounds
<1>4. CASE DealOne \/ DealMany \/ DealtAll \/ Rejects
  <2>1. <<>> \in Seq(Calls)
    BY EmptySeq
  <2>2. batch' \in {batch, <<>>} /\ UNCHANGED <<requests, scheduled, context, method, changes>> /\ xhr' \in {"idle", xhr}
    BY <1>4 DEF DealOne, DealMany, DealtAll, Rejects, bounds
  <2>3. dealt' \in [results : Nat, errors : Nat]
    <3>1. /\ dealt.results \in Nat /\ dealt.errors \in Nat
          /\ dealt = [results |-> dealt.results, errors |-> dealt.errors]
      BY BatchIs
    <3>2. \/ dealt' = dealt \/ dealt' = [dealt EXCEPT !.results = dealt.results + 1]
          \/ dealt' = [results |-> dealt.results + 1, errors |-> dealt.errors + 1]
      BY <1>4 DEF DealOne, DealMany, DealtAll, Rejects
    <3> QED
      BY <3>1, <3>2
  <2>4. Settled \/ UNCHANGED <<outcome, reason>>
    BY <1>4, NextResult, OneSettles DEF DealtAll
  <2>5. outcome' \in [Calls -> {"none", "pending", "failed"} \cup Calls] /\ reason' = [c \in Calls |-> reason'[c]]
    <3>1. outcome \in [Calls -> {"none", "pending", "failed"} \cup Calls] /\ reason = [c \in Calls |-> reason[c]]
      BY DEF PageTyped
    <3>2. CASE Settled
      <4>1. PICK c \in Calls : \E o \in {c, "failed"} : SettlesAs(c, o)
        BY <3>2 DEF Settled
      <4>2. PICK o \in {c, "failed"} : SettlesAs(c, o)
        BY <4>1
      <4>3. outcome' = [outcome EXCEPT ![c] = o] /\ \E x : reason' = reason \/ reason' = [reason EXCEPT ![c] = x]
        BY <4>2 DEF SettlesAs
      <4> QED
        BY <3>1, <4>3
    <3> QED
      BY <2>4, <3>1, <3>2
  <2> QED
    BY <2>1, <2>2, <2>3, <2>5 DEF PageTyped
<1>5. ASSUME NEW c \in Calls, NEW m \in Methods \cup Changing, DoCall(c, m) PROVE PageTyped'
  <2>1. requests' = Append(requests, c) /\ scheduled' = scheduled + (IF requests = <<>> THEN 1 ELSE 0)
        /\ method' = [method EXCEPT ![c] = m] /\ outcome' = [outcome EXCEPT ![c] = "pending"]
        /\ UNCHANGED <<batch, xhr, dealt, context, reason, changes>>
    BY <1>5 DEF DoCall, bounds
  <2>2. m \in UserMethods
    BY MethodsAssumption, RpcPageAssumption
  <2>3. requests' \in Seq(Calls) /\ requests' # <<>>
    BY <2>1, AppendProperties DEF PageTyped
  <2> QED
    BY <2>1, <2>2, <2>3 DEF PageTyped
<1>6. ASSUME NEW m \in Changing, MethodsChange(m) PROVE PageTyped'
  BY <1>6 DEF MethodsChange, page, PageTyped
<1>7. CASE ResponseStatus \/ Breaks
  BY <1>1, <1>7 DEF ResponseStatus, OnConnectionError, Breaks, PageTyped
<1>8. CASE Arrives \/ ResponseError \/ OthersEnd \/ LoadMethods \/ Serves
  BY <1>1, <1>8 DEF Arrives, ResponseError, OthersEnd, LoadMethods, Serves, page, bounds, PageTyped
<1>9. ASSUME NEW b \in Bodies, NEW origin \in {{}, {"null"}, {"elsewhere"}}, OthersPost(b, origin) PROVE PageTyped'
  BY <1>1, <1>9 DEF OthersPost, page, PageTyped
<1>10. CASE UNCHANGED rpcVars
  BY <1>10 DEF rpcVars, page, bounds, PageTyped
<1> QED
  BY <1>2, <1>3, <1>4, <1>5, <1>6, <1>7, <1>8, <1>9, <1>10 DEF RpcNext, PageNext

LEMMA QueuesStep == PageTyped /\ Queued /\ Served /\ Dealing /\ [RpcNext]_rpcVars => Queued'
<1> SUFFICES ASSUME PageTyped, Queued, Served, Dealing, [RpcNext]_rpcVars PROVE Queued'
  OBVIOUS
<1>1. ASSUME UNCHANGED <<requests, batch, dealt, method, outcome>>, xhr' = xhr
      PROVE  Queued'
  BY <1>1 DEF Queued
<1>2. ASSUME UNCHANGED <<requests, batch, dealt, method, outcome>>,
             \/ xhr = "served" /\ xhr' \in {"sent", "deal", "reject"}
             \/ xhr = "sent" /\ xhr' \in {"sent", "served", "reject"}
      PROVE  Queued'
  <2>1. batch # <<>> /\ dealt.results = 0
    BY <1>2 DEF Queued
  <2>2. Len(batch) > 0
    BY <2>1, EmptySeq DEF PageTyped
  <2> QED
    BY <1>2, <2>1, <2>2, BatchIs DEF Queued
<1>3. CASE SheduleRequest
  <2>1. /\ batch' = requests /\ requests' = <<>> /\ requests # <<>> /\ xhr' = "sent"
        /\ dealt' = [results |-> 0, errors |-> 0] /\ UNCHANGED <<method, outcome>>
    BY <1>3, ChosenBatch DEF SheduleRequest
  <2> QED
    BY <2>1, BatchIs, NothingIs DEF Queued
<1>4. CASE DealOne \/ DealMany \/ Rejects
  <2>1. PICK c \in Calls : \E o \in {c, "failed"} : SettlesAs(c, o)
    BY <1>4, NextResult, OneSettles DEF Settled
  <2>2. PICK o \in {c, "failed"} : SettlesAs(c, o)
    BY <2>1
  <2>3. /\ outcome[c] = "pending" /\ outcome' = [outcome EXCEPT ![c] = o] /\ o # "none" /\ method' = method
        /\ dealt.results + 1 \in DOMAIN batch /\ c = batch[dealt.results + 1]
    BY <2>2, CallsAre DEF SettlesAs
  <2>4. UNCHANGED requests
    BY <1>4 DEF DealOne, DealMany, Rejects
  <2>5. \A d \in Calls : outcome'[d] = IF d = c THEN o ELSE outcome[d]
    BY <2>3 DEF PageTyped
  <2>6. /\ \A i \in DOMAIN requests : outcome'[requests[i]] = "pending"
        /\ \A d \in Calls : outcome'[d] # "none" => method'[d] \in UserMethods
    BY <2>3, <2>4, <2>5, BatchIs DEF Queued
  <2>7. CASE batch' = <<>> /\ xhr' = "idle"
    BY <2>4, <2>6, <2>7, NothingIs DEF Queued
  <2>8. CASE batch' = batch /\ xhr' = xhr /\ dealt'.results = dealt.results + 1 /\ xhr \in {"deal", "reject"}
             /\ (xhr = "reject" => dealt.results + 1 < Len(batch)) /\ (xhr = "deal" => Len(batch) > 1)
    BY <2>3, <2>4, <2>5, <2>6, <2>8, BatchIs DEF Queued
  <2>9. DealOne => batch' = <<>> /\ xhr' = "idle"
    BY DEF DealOne
  <2>10. DealMany => batch' = batch /\ xhr' = xhr /\ dealt'.results = dealt.results + 1 /\ xhr = "deal" /\ Len(batch) > 1
    BY BatchIs DEF DealMany
  <2>11. Rejects => \/ batch' = <<>> /\ xhr' = "idle"
                    \/ batch' = batch /\ xhr' = xhr /\ dealt'.results = dealt.results + 1 /\ xhr = "reject"
                       /\ dealt.results + 1 < Len(batch)
    BY BatchIs DEF Rejects, Queued
  <2> QED
    BY <1>4, <2>7, <2>8, <2>9, <2>10, <2>11
<1>5. CASE DealtAll
  BY <1>5, NothingIs DEF DealtAll, Queued
<1>6. ASSUME NEW c \in Calls, NEW m \in Methods \cup Changing, DoCall(c, m) PROVE Queued'
  <2>1. /\ requests' = Append(requests, c) /\ outcome[c] = "none"
        /\ method' = [method EXCEPT ![c] = m] /\ outcome' = [outcome EXCEPT ![c] = "pending"]
        /\ UNCHANGED <<batch, xhr, dealt>>
    BY <1>6 DEF DoCall
  <2>2. m \in UserMethods
    BY MethodsAssumption, RpcPageAssumption
  <2>3. /\ Len(requests') = Len(requests) + 1 /\ requests'[Len(requests) + 1] = c /\ DOMAIN requests' = 1..Len(requests) + 1
        /\ \A i \in 1..Len(requests) : requests'[i] = requests[i]
    <3>1. IsSeq(requests)
      BY IsSeqOf DEF PageTyped
    <3> QED
      BY <2>1, <3>1, AppendIs
  <2>4. \A d \in Calls : /\ outcome'[d] = IF d = c THEN "pending" ELSE outcome[d]
                         /\ method'[d] = IF d = c THEN m ELSE method[d]
    BY <2>1 DEF PageTyped
  <2>5. (\A i \in DOMAIN requests : requests[i] # c) /\ \A i \in DOMAIN batch : batch[i] # c
    BY <2>1 DEF Queued
  <2>6. /\ \A i, j \in DOMAIN requests' : requests'[i] = requests'[j] => i = j
        /\ \A i \in DOMAIN batch, j \in DOMAIN requests' : batch[i] # requests'[j]
        /\ \A i \in DOMAIN requests' : outcome'[requests'[i]] = "pending"
    BY <2>3, <2>4, <2>5, BatchIs DEF Queued
  <2>7. \A i \in DOMAIN batch : outcome'[batch[i]] = outcome[batch[i]]
    BY <2>4, <2>5, BatchIs
  <2> QED
    BY <2>1, <2>2, <2>4, <2>6, <2>7 DEF Queued
<1>7. CASE ResponseStatus \/ Breaks \/ Arrives \/ ResponseOk \/ ResponseError
  <2>1. UNCHANGED <<requests, batch, dealt, method, outcome>>
    BY <1>7 DEF ResponseStatus, Breaks, Arrives, ResponseOk, ResponseError
  <2>2. ResponseStatus => xhr = "served" /\ xhr' \in {"sent", "reject"}
    BY DEF ResponseStatus, OnConnectionError
  <2>3. Breaks => xhr \in {"sent", "served"} /\ xhr' \in {"sent", "reject"}
    BY DEF Breaks
  <2>4. Arrives \/ ResponseOk \/ ResponseError =>
          \/ xhr = "sent" /\ xhr' = "served"
          \/ xhr = "served" /\ xhr' \in {"deal", "reject"}
    BY DEF Arrives, ResponseOk, ResponseError
  <2> QED
    BY <1>2, <1>7, <2>1, <2>2, <2>3, <2>4
<1>8. CASE OthersEnd \/ LoadMethods \/ Serves
  BY <1>1, <1>8 DEF OthersEnd, LoadMethods, Serves, page
<1>9. ASSUME NEW b \in Bodies, NEW origin \in {{}, {"null"}, {"elsewhere"}}, OthersPost(b, origin) PROVE Queued'
  BY <1>1, <1>9 DEF OthersPost, page
<1>10. ASSUME NEW m \in Changing, MethodsChange(m) PROVE Queued'
  BY <1>1, <1>10 DEF MethodsChange, page
<1>11. CASE UNCHANGED rpcVars
  BY <1>1, <1>11 DEF rpcVars, page
<1> QED
  BY <1>3, <1>4, <1>5, <1>6, <1>7, <1>8, <1>9, <1>10, <1>11 DEF RpcNext, PageNext

(* Settled calls keep their reasons, and others get their own. *)
LEMMA OwnStep == PageTyped /\ Queued /\ Dealing /\ OwnOutcome /\ [RpcNext]_rpcVars => OwnOutcome'
<1> SUFFICES ASSUME PageTyped, Queued, Dealing, OwnOutcome, [RpcNext]_rpcVars PROVE OwnOutcome'
  OBVIOUS
<1>1. ASSUME UNCHANGED <<method, outcome, reason, shifted>> PROVE OwnOutcome'
  BY <1>1 DEF OwnOutcome
<1>2. CASE DealOne \/ DealMany \/ Rejects
  <2>1. PICK c \in Calls : \E o \in {c, "failed"} : SettlesAs(c, o)
    BY <1>2, NextResult, OneSettles DEF Settled
  <2>2. PICK o \in {c, "failed"} : SettlesAs(c, o)
    BY <2>1
  <2>3. method' = method /\ shifted \subseteq shifted'
    BY <2>2 DEF SettlesAs
  <2>4. \A d \in Calls \ {c} : outcome'[d] = outcome[d] /\ reason'[d] = reason[d]
    <3>1. outcome' = [outcome EXCEPT ![c] = o] /\ \E x : reason' = reason \/ reason' = [reason EXCEPT ![c] = x]
      BY <2>2 DEF SettlesAs
    <3> QED
      BY <3>1 DEF PageTyped
  <2>5. outcome'[c] = o
    BY <2>2 DEF SettlesAs, PageTyped
  <2>6. o = c => method[c] \notin {"error", "callError"}
    BY <2>2 DEF SettlesAs
  <2>7. o = "failed" => reason'[c] \in {c, "request"} \/ c \in shifted'
    BY <2>2 DEF SettlesAs, PageTyped
  <2>8. c # "failed"
    BY CallsAre
  <2> QED
    BY <2>3, <2>4, <2>5, <2>6, <2>7, <2>8 DEF OwnOutcome
<1>3. ASSUME NEW c \in Calls, NEW m \in Methods \cup Changing, DoCall(c, m) PROVE OwnOutcome'
  <2>1. \A d \in Calls : /\ outcome'[d] = IF d = c THEN "pending" ELSE outcome[d]
                         /\ method'[d] = IF d = c THEN m ELSE method[d]
    BY <1>3 DEF DoCall, PageTyped
  <2>2. UNCHANGED <<reason, shifted>>
    BY <1>3 DEF DoCall, history
  <2>3. c # "pending"
    BY CallsAre
  <2> QED
    BY <2>1, <2>2, <2>3 DEF OwnOutcome
<1>4. CASE SheduleRequest \/ Arrives \/ ResponseOk \/ DealtAll \/ ResponseError \/ ResponseStatus \/ OthersEnd
  BY <1>1, <1>4 DEF SheduleRequest, Arrives, ResponseOk, DealtAll, ResponseError, ResponseStatus, OthersEnd, page, history
<1>5. CASE Serves \/ Breaks \/ LoadMethods \/ UNCHANGED rpcVars
  BY <1>1, <1>5 DEF Serves, Breaks, LoadMethods, rpcVars, page, history
<1>6. ASSUME NEW b \in Bodies, NEW origin \in {{}, {"null"}, {"elsewhere"}}, OthersPost(b, origin) PROVE OwnOutcome'
  BY <1>1, <1>6 DEF OthersPost, page, history
<1>7. ASSUME NEW m \in Changing, MethodsChange(m) PROVE OwnOutcome'
  BY <1>1, <1>7 DEF MethodsChange, page, history
<1> QED
  BY <1>2, <1>3, <1>4, <1>5, <1>6, <1>7 DEF RpcNext, PageNext

-----------------------------------------------------------------------------
(* What the page and its surroundings do to the server. *)
LEMMA Outside ==
    ASSUME PageTyped, [RpcNext]_rpcVars, ~Serves
    PROVE  \/ UNCHANGED <<jvars, leaked>>
           \/ phase' \in {"idle", "dealt"}
           \/ \E b, origin : IsSeq(b) /\ OnRequest(b, origin)
<1> DEFINE Goal == \/ UNCHANGED <<jvars, leaked>>
                   \/ phase' \in {"idle", "dealt"}
                   \/ \E b, origin : IsSeq(b) /\ OnRequest(b, origin)
<1> SUFFICES Goal
  OBVIOUS
<1>1. SheduleRequest \/ DealMany \/ Rejects \/ UNCHANGED rpcVars => UNCHANGED <<jvars, leaked>>
  BY DEF SheduleRequest, DealMany, Rejects, rpcVars, history
<1>2. ResponseOk \/ DealOne \/ DealtAll \/ ResponseError \/ ResponseStatus \/ OthersEnd => phase' \in {"idle", "dealt"}
  BY DEF ResponseOk, DealOne, DealtAll, ResponseError, ResponseStatus, OthersEnd, Freed
<1>3. Arrives => Goal
  BY RequestIs DEF Arrives
<1>4. Breaks => UNCHANGED <<jvars, leaked>> \/ phase' \in {"idle", "dealt"}
  BY DEF Breaks, Freed, history
<1>5. LoadMethods => phase' \in {"idle", "dealt"}
  BY DEF LoadMethods, DumpMethods
<1>6. ASSUME NEW c \in Calls, NEW m \in Methods \cup Changing, DoCall(c, m) PROVE UNCHANGED <<jvars, leaked>>
  BY <1>6 DEF DoCall, history
<1>7. ASSUME NEW b \in Bodies, NEW origin \in {{}, {"null"}, {"elsewhere"}}, OthersPost(b, origin) PROVE Goal
  BY <1>7, RpcPageAssumption DEF OthersPost, IsSeq
<1>8. ASSUME NEW m \in Changing, MethodsChange(m) PROVE phase' \in {"idle", "dealt"}
  BY <1>8 DEF MethodsChange, RegisterMethod, EraseMethod
<1> HIDE DEF Goal
<1>9. Goal \/ ~(UNCHANGED <<jvars, leaked>> \/ phase' \in {"idle", "dealt"})
  BY DEF Goal
<1> QED
  BY <1>1, <1>2, <1>3, <1>4, <1>5, <1>6, <1>7, <1>8, <1>9 DEF RpcNext, PageNext

LEMMA ReturnsStep == PageTyped /\ NothingReturned /\ [RpcNext]_rpcVars => NothingReturned'
<1> SUFFICES ASSUME PageTyped, NothingReturned, [RpcNext]_rpcVars PROVE NothingReturned'
  OBVIOUS
<1> USE DEF jvars, request, calls
<1>1. CASE Serves
  <2>1. CASE DataGarbage \/ DataNotObject \/ ParseRequest \/ CallReturned \/ Reply \/ ReplyException \/ SendReplies
    BY <2>1 DEF DataGarbage, DataNotObject, ParseRequest, CallReturned, Reply, ReplyException, SendReplies, NothingReturned
  <2>2. CASE CallMethod \/ CallUnknown \/ CallMulticall \/ BadForm \/ MulticallEnds
    <3>1. Item' = Item /\ phase = "call"
      BY <2>2 DEF CallMethod, CallUnknown, CallMulticall, BadForm, MulticallEnds, InCall, Item
    <3>2. phase' = "return" /\ Notify => ret' = Nothing \/ ret'.error = "error"
      BY <2>2, <3>1 DEF CallMethod, CallUnknown, CallMulticall, BadForm, MulticallEnds, Raise, Return, Throw, Failed
    <3>3. phase' = "return" /\ ~Notify => ret'.error # "nil"
      BY <2>2, <3>1 DEF CallMethod, CallUnknown, CallMulticall, BadForm, MulticallEnds, Raise, Return, Throw, Failed
    <3>4. phase' = "return" /\ ret'.error # "null" => ret'.context = "none"
      BY <2>2, <3>1 DEF CallMethod, CallUnknown, CallMulticall, BadForm, MulticallEnds, Raise, Return, Throw, Failed, Nothing
    <3> QED
      BY <3>1, <3>2, <3>3, <3>4 DEF NothingReturned, Notify
  <2> QED
    BY <1>1, <2>1, <2>2 DEF Serves, JsonRpcNext
<1>2. CASE UNCHANGED jvars
  BY <1>2 DEF NothingReturned, Notify, Item
<1>3. CASE phase' # "return"
  BY <1>3 DEF NothingReturned
<1> QED
  BY <1>1, <1>2, <1>3, Outside DEF OnRequest

LEMMA ListStep == PageTyped /\ ListMade /\ [RpcNext]_rpcVars => ListMade'
<1> SUFFICES ASSUME PageTyped, ListMade, [RpcNext]_rpcVars PROVE ListMade'
  OBVIOUS
<1>1. ASSUME UNCHANGED <<registry, methods, changes>> PROVE ListMade'
  BY <1>1 DEF ListMade, registry
<1>2. UNCHANGED jvars => UNCHANGED registry
  BY DEF jvars
<1>3. CASE Serves
  BY <1>1, <1>3 DEF Serves, JsonRpcNext, DataGarbage, DataNotObject, ParseRequest, CallMethod, CallUnknown, CallMulticall,
                    BadForm, CallReturned, MulticallEnds, Reply, ReplyException, SendReplies, page, bounds
<1>4. CASE SheduleRequest \/ Arrives \/ ResponseOk \/ DealOne \/ DealMany \/ DealtAll
  BY <1>1, <1>2, <1>4 DEF SheduleRequest, Arrives, ResponseOk, DealOne, DealMany, DealtAll, Freed, OnRequest, bounds
<1>5. CASE Rejects \/ ResponseError \/ ResponseStatus \/ OthersEnd \/ Breaks
  BY <1>1, <1>2, <1>5 DEF Rejects, ResponseError, ResponseStatus, OthersEnd, Breaks, Freed, page, bounds
<1>6. CASE LoadMethods
  BY <1>6 DEF LoadMethods, DumpMethods, ListMade, bounds
<1>7. ASSUME NEW c \in Calls, NEW m \in Methods \cup Changing, DoCall(c, m) PROVE ListMade'
  BY <1>1, <1>2, <1>7 DEF DoCall, bounds
<1>8. ASSUME NEW b \in Bodies, NEW origin \in {{}, {"null"}, {"elsewhere"}}, OthersPost(b, origin) PROVE ListMade'
  BY <1>1, <1>8 DEF OthersPost, OnRequest, page
<1>9. ASSUME NEW m \in Changing, MethodsChange(m) PROVE ListMade'
  BY <1>9 DEF MethodsChange, PageTyped, ListMade
<1>10. CASE UNCHANGED rpcVars
  BY <1>1, <1>2, <1>10 DEF rpcVars, page, bounds
<1> QED
  BY <1>3, <1>4, <1>5, <1>6, <1>7, <1>8, <1>9, <1>10 DEF RpcNext, PageNext

LEMMA AgreedStep == PageTyped /\ Queued /\ Served /\ Agreed /\ [RpcNext]_rpcVars => Agreed'
<1> SUFFICES ASSUME PageTyped, Queued, Served, Agreed, [RpcNext]_rpcVars PROVE Agreed'
  OBVIOUS
<1>1. CASE ResponseOk
  <2> DEFINE r == PageResponse.context
  <2>1. r \in Outs /\ context \in Values
    BY <1>1, Answered DEF ResponseOk, PageTyped
  <2>2. nodes[1] = IF Len(batch) = 1 \/ r = "none" THEN context ELSE Merged(context, r)
    BY <1>1, Answered DEF ResponseOk
  <2>3. Len(batch) \in Nat \ {0}
    <3>1. batch # <<>> /\ batch \in Seq(Calls)
      BY <1>1 DEF ResponseOk, Queued, PageTyped
    <3> QED
      BY <3>1, EmptySeq
  <2>4. /\ context' = IF r = "none" THEN context ELSE r
        /\ agreed' = IF Len(batch) > 1 \/ r = "none" THEN nodes[1] ELSE Merged(nodes[1], r)
    BY <1>1 DEF ResponseOk, updateContext, ServerContext
  <2>5. CASE r = "none"
    BY <2>2, <2>4, <2>5 DEF Agreed
  <2>6. CASE r # "none"
    <3>1. context' = r /\ agreed' = Merged(context, r)
      <4>1. CASE Len(batch) = 1
        BY <2>2, <2>4, <2>6, <4>1
      <4>2. CASE Len(batch) > 1
        <5>1. Len(batch) # 1
          BY <2>3, <4>2, BatchIs
        <5>2. nodes[1] = Merged(context, r)
          BY <2>2, <2>6, <5>1
        <5> QED
          BY <2>4, <2>6, <4>2, <5>2
      <4>3. Len(batch) = 1 \/ Len(batch) > 1
        BY <2>3, BatchIs
      <4> QED
        BY <4>1, <4>2, <4>3
    <3> QED
      BY <3>1 DEF Agreed, Merged
  <2> QED
    BY <2>5, <2>6
<1>2. ASSUME UNCHANGED <<context, agreed>> PROVE Agreed'
  BY <1>2 DEF Agreed
<1>3. CASE SheduleRequest \/ Arrives \/ DealOne \/ DealMany \/ DealtAll \/ Rejects \/ ResponseError \/ ResponseStatus \/ OthersEnd
  BY <1>2, <1>3 DEF SheduleRequest, Arrives, DealOne, DealMany, DealtAll, Rejects, ResponseError, ResponseStatus, OthersEnd,
                    page, history
<1>4. CASE Serves \/ Breaks \/ LoadMethods \/ UNCHANGED rpcVars
  BY <1>2, <1>4 DEF Serves, Breaks, LoadMethods, rpcVars, page, history
<1>5. ASSUME NEW c \in Calls, NEW m \in Methods \cup Changing, DoCall(c, m) PROVE Agreed'
  BY <1>2, <1>5 DEF DoCall, history
<1>6. ASSUME NEW b \in Bodies, NEW origin \in {{}, {"null"}, {"elsewhere"}}, OthersPost(b, origin) PROVE Agreed'
  BY <1>2, <1>6 DEF OthersPost, page, history
<1>7. ASSUME NEW m \in Changing, MethodsChange(m) PROVE Agreed'
  BY <1>2, <1>7 DEF MethodsChange, page, history
<1> QED
  BY <1>1, <1>3, <1>4, <1>5, <1>6, <1>7 DEF RpcNext, PageNext

-----------------------------------------------------------------------------
(* What is answered: the replies are in the order of the requests. *)
LEMMA SequencesAre ==
    ASSUME ServerTyped
    PROVE  /\ Len(body) \in Nat /\ DOMAIN body = 1..Len(body) /\ at \in 1..Len(body) + 1
           /\ IsSeq(written) /\ Len(written) \in Nat /\ DOMAIN written = 1..Len(written)
           /\ IsSeq(replies) /\ Len(replies) \in Nat /\ DOMAIN replies = 1..Len(replies)
           /\ Executing => at \in 1..Len(body) /\ body[at].kind = "request"
<1>1. IsSeq(body) /\ IsSeq(written) /\ IsSeq(replies) /\ at \in 1..Len(body) + 1
  BY DEF ServerTyped
<1>2. \A s : IsSeq(s) => Len(s) \in Nat /\ DOMAIN s = 1..Len(s)
  BY LenProperties DEF IsSeq
<1>3. Executing => at <= Len(body) /\ Item.kind = "request"
  BY DEF ServerTyped
<1> QED
  BY <1>1, <1>2, <1>3 DEF Item

(* A request has been executed, and its reply, if any, comes last. *)
Executed == Executing /\ at' = at + 1 /\ phase' = "data" /\ UNCHANGED <<body, written>>

LEMMA ExecutedIs ==
    ASSUME ServerTyped, AnsweredSoFar, Executed
    PROVE  /\ at \in 1..Len(body) /\ body[at].kind = "request" /\ Len(body) \in Nat /\ DOMAIN body = 1..Len(body)
           /\ Answers(written', 1, Len(written'), {i \in DOMAIN body' : i < at' /\ body'[i].kind = "nonobject"})
           /\ \A i \in DOMAIN replies :
                 /\ replies[i].to \in 1..at - 1 /\ body[replies[i].to].kind = "request"
                 /\ body[replies[i].to].id = "null" => replies[i].error = "error"
           /\ \A i, j \in DOMAIN replies : i < j => replies[i].to < replies[j].to
           /\ \A i \in 1..at - 1 :
                 body[i].kind = "request" /\ body[i].id # "null" => \E j \in DOMAIN replies : replies[j].to = i
<1>1. at \in 1..Len(body) /\ body[at].kind = "request" /\ Len(body) \in Nat /\ DOMAIN body = 1..Len(body)
  BY SequencesAre DEF Executed
<1>2. {i \in DOMAIN body : i < at + 1 /\ body[i].kind = "nonobject"} = {i \in DOMAIN body : i < at /\ body[i].kind = "nonobject"}
  BY <1>1
<1>3. Answers(written', 1, Len(written'), {i \in DOMAIN body' : i < at' /\ body'[i].kind = "nonobject"})
  BY <1>2 DEF AnsweredSoFar, Answers, Executed
<1> QED
  BY <1>1, <1>3 DEF AnsweredSoFar, Executed

LEMMA NoReply ==
    ASSUME ServerTyped, AnsweredSoFar, Executed, replies' = replies, Item.id = "null"
    PROVE  AnsweredSoFar'
<1>1. \A i \in 1..at : body[i].kind = "request" /\ body[i].id # "null" => \E j \in DOMAIN replies : replies[j].to = i
  <2>1. \A i \in 1..at : i = at \/ i \in 1..at - 1
    BY ExecutedIs
  <2> QED
    BY <2>1, ExecutedIs DEF Item
<1>2. \A i \in DOMAIN replies :
         /\ replies[i].to \in 1..at /\ body[replies[i].to].kind = "request"
         /\ body[replies[i].to].id = "null" => replies[i].error = "error"
  BY ExecutedIs
<1>3. /\ Answers(written', 1, Len(written'), {i \in DOMAIN body' : i < at' /\ body'[i].kind = "nonobject"})
      /\ \A i, j \in DOMAIN replies : i < j => replies[i].to < replies[j].to
  BY ExecutedIs
<1>4. at' - 1 = at /\ body' = body
  BY ExecutedIs DEF Executed
<1> QED
  BY <1>1, <1>2, <1>3, <1>4 DEF AnsweredSoFar

LEMMA AnotherReply ==
    ASSUME ServerTyped, AnsweredSoFar, Executed,
           NEW r, replies' = Append(replies, r), r.to = at, Item.id = "null" => r.error = "error"
    PROVE  AnsweredSoFar'
<1> DEFINE n == Len(replies) + 1
<1>1. /\ n \in Nat /\ DOMAIN replies = 1..n - 1 /\ DOMAIN replies' = 1..n
      /\ \A i \in 1..n - 1 : replies'[i] = replies[i]
      /\ replies'[n] = r
  <2>1. IsSeq(replies)
    BY SequencesAre
  <2> QED
    BY <2>1, AppendIs
<1> HIDE DEF n
<1>2. n \in 1..n /\ \A i \in 1..n : i = n \/ i \in 1..n - 1
  BY <1>1
<1>3. at \in Nat /\ \A k \in 1..at - 1 : k \in 1..at /\ k < at
  BY ExecutedIs
<1>4. \A i \in DOMAIN replies' :
            /\ replies'[i].to \in 1..at /\ body[replies'[i].to].kind = "request"
            /\ body[replies'[i].to].id = "null" => replies'[i].error = "error"
  BY <1>1, <1>2, <1>3, ExecutedIs DEF Item
<1>5. \A i, j \in DOMAIN replies' : i < j => replies'[i].to < replies'[j].to
  <2> SUFFICES ASSUME NEW i \in DOMAIN replies', NEW j \in DOMAIN replies', i < j
               PROVE  replies'[i].to < replies'[j].to
    OBVIOUS
  <2>1. i \in 1..n - 1 /\ replies'[i] = replies[i] /\ replies[i].to \in 1..at - 1
    BY <1>1, ExecutedIs
  <2>2. CASE j = n
    BY <1>1, <1>3, <2>1, <2>2
  <2>3. CASE j \in 1..n - 1
    BY <1>1, <2>1, <2>3, ExecutedIs
  <2> QED
    BY <1>1, <1>2, <2>2, <2>3
<1>6. \A i \in 1..at :
            body[i].kind = "request" /\ body[i].id # "null" => \E j \in DOMAIN replies' : replies'[j].to = i
  <2>1. \A i \in 1..at : i = at \/ i \in 1..at - 1
    BY <1>3
  <2>2. \A j \in DOMAIN replies : j \in DOMAIN replies' /\ replies'[j] = replies[j]
    BY <1>1
  <2>3. n \in DOMAIN replies' /\ replies'[n].to = at
    BY <1>1, <1>2
  <2> QED
    BY <2>1, <2>2, <2>3, ExecutedIs
<1> QED
  BY <1>4, <1>5, <1>6, ExecutedIs DEF AnsweredSoFar, Executed

LEMMA AnotherNotObject ==
    ASSUME ServerTyped, AnsweredSoFar, DataNotObject
    PROVE  AnsweredSoFar'
<1>1. at \in 1..Len(body) /\ body[at].kind = "nonobject" /\ Len(body) \in Nat /\ DOMAIN body = 1..Len(body)
  BY SequencesAre DEF DataNotObject, Item
<1>2. /\ phase = "data" /\ phase' = "data" /\ at' = at + 1 /\ UNCHANGED <<body, replies>>
      /\ written' = Append(written, [to |-> at, result |-> Null, error |-> "error", context |-> "none"])
  BY DEF DataNotObject
<1> DEFINE r == [to |-> at, result |-> Null, error |-> "error", context |-> "none"]
           I == {i \in DOMAIN body : i < at /\ body[i].kind = "nonobject"}
<1>3. r.to = at
  OBVIOUS
<1> HIDE DEF r
<1>4. /\ Len(written) \in Nat /\ Len(written') = Len(written) + 1
      /\ \A i \in 1..Len(written) : written'[i] = written[i]
      /\ written'[Len(written) + 1] = r
  BY <1>2, SequencesAre, AppendIs DEF r
<1>5. Answers(written, 1, Len(written), I)
  BY <1>2 DEF AnsweredSoFar
<1>6. Answers(written', 1, Len(written'), {i \in DOMAIN body' : i < at' /\ body'[i].kind = "nonobject"})
  <2>1. {i \in DOMAIN body : i < at + 1 /\ body[i].kind = "nonobject"} = I \cup {at}
    BY <1>1
  <2>2. \A i \in 1..Len(written) : written[i].to \in I
    BY <1>5 DEF Answers
  <2>3. {written'[i].to : i \in 1..Len(written)} = I
    BY <1>4, <1>5 DEF Answers
  <2>4. {written'[i].to : i \in 1..Len(written) + 1} = I \cup {at}
    <3>1. 1..Len(written) + 1 = (1..Len(written)) \cup {Len(written) + 1}
      BY <1>4
    <3> QED
      BY <1>3, <1>4, <2>3, <3>1
  <2>5. \A i, j \in 1..Len(written) + 1 : i < j => written'[i].to < written'[j].to
    BY <1>1, <1>3, <1>4, <1>5, <2>2 DEF Answers
  <2> QED
    BY <1>2, <1>4, <2>1, <2>4, <2>5 DEF Answers
<1>7. \A i \in DOMAIN replies : replies[i].to \in 1..at - 1 => replies[i].to \in 1..at
  BY <1>1
<1>8. \A i \in 1..at : body[i].kind = "request" => i \in 1..at - 1
  BY <1>1
<1> QED
  BY <1>1, <1>2, <1>6, <1>7, <1>8 DEF AnsweredSoFar

LEMMA AnsweredStep == ServerTyped /\ PageTyped /\ NothingReturned /\ AnsweredSoFar /\ [RpcNext]_rpcVars => AnsweredSoFar'
<1> SUFFICES ASSUME ServerTyped, PageTyped, NothingReturned, AnsweredSoFar, [RpcNext]_rpcVars PROVE AnsweredSoFar'
  OBVIOUS
<1>1. ASSUME UNCHANGED request, phase = "data" \/ Executing PROVE AnsweredSoFar'
  BY <1>1 DEF AnsweredSoFar, Answers, request
<1>2. CASE Serves
  <2>1. CASE Reply
    <3>1. Executed /\ phase = "return"
      BY <2>1 DEF Reply, Executed, Executing
    <3>2. CASE ret = Nothing
      BY <2>1, <3>1, <3>2, NoReply DEF Reply, NothingReturned, Notify, Nothing
    <3>3. CASE ret # Nothing
      <4> DEFINE r == [to |-> at, result |-> ret.result, error |-> ret.error, context |-> ret.context]
      <4>1. replies' = Append(replies, r) /\ r.to = at /\ r.error = ret.error
        BY <2>1, <3>3 DEF Reply
      <4>2. Item.id = "null" => r.error = "error"
        BY <3>1, <3>3, <4>1 DEF NothingReturned, Notify
      <4> HIDE DEF r
      <4> QED
        BY <3>1, <4>1, <4>2, AnotherReply
    <3> QED
      BY <3>2, <3>3
  <2>2. CASE ReplyException
    <3> DEFINE r == [to |-> at, result |-> Null, error |-> "error", context |-> "none"]
    <3>1. Executed /\ replies' = Append(replies, r)
      BY <2>2 DEF ReplyException, Executed, Executing
    <3>2. r.to = at /\ r.error = "error"
      OBVIOUS
    <3> HIDE DEF r
    <3> QED
      BY <3>1, <3>2, AnotherReply
  <2>3. CASE DataGarbage \/ SendReplies
    BY <2>3 DEF DataGarbage, SendReplies, AnsweredSoFar, Executing
  <2>4. CASE ParseRequest \/ CallMethod \/ CallUnknown \/ CallMulticall \/ BadForm \/ CallReturned \/ MulticallEnds
    BY <1>1, <2>4 DEF ParseRequest, CallMethod, CallUnknown, CallMulticall, BadForm, CallReturned, MulticallEnds, InCall, Executing
  <2> QED
    BY <1>2, <2>1, <2>2, <2>3, <2>4, AnotherNotObject DEF Serves, JsonRpcNext
<1>3. CASE UNCHANGED jvars
  BY <1>3 DEF AnsweredSoFar, Answers, Executing, jvars, request
<1>4. CASE phase' \in {"idle", "dealt"}
  BY <1>4 DEF AnsweredSoFar, Executing
<1>5. ASSUME NEW b, NEW origin, IsSeq(b), OnRequest(b, origin) PROVE AnsweredSoFar'
  <2>1. at' = 1 /\ written' = <<>> /\ replies' = <<>>
    BY <1>5 DEF OnRequest
  <2>2. Len(<<>>) = 0 /\ 1..0 = {}
    BY NothingIs
  <2>3. {i \in DOMAIN body' : i < 1 /\ body'[i].kind = "nonobject"} = {}
    <3>1. IsSeq(body')
      BY <1>5 DEF OnRequest
    <3>2. DOMAIN body' \subseteq 1..Len(body') /\ Len(body') \in Nat
      BY <3>1, LenProperties DEF IsSeq
    <3> QED
      BY <3>2
  <2>4. Answers(written', 1, Len(written'), {i \in DOMAIN body' : i < at' /\ body'[i].kind = "nonobject"})
    BY <2>1, <2>2, <2>3 DEF Answers
  <2> QED
    BY <2>1, <2>2, <2>4, NothingIs DEF AnsweredSoFar
<1> QED
  BY <1>2, <1>3, <1>4, <1>5, Outside

LEMMA RepliesStep == ServerTyped /\ PageTyped /\ AnsweredSoFar /\ RepliesOfRequests /\ [RpcNext]_rpcVars => RepliesOfRequests'
<1> SUFFICES ASSUME ServerTyped, PageTyped, AnsweredSoFar, RepliesOfRequests, [RpcNext]_rpcVars
             PROVE  RepliesOfRequests'
  OBVIOUS
<1> DEFINE n == Len(written)
           I == {i \in DOMAIN body : i < at /\ body[i].kind = "nonobject"}
<1>1. CASE DataGarbage
  <2>1. /\ phase = "data" /\ at <= Len(body) /\ UNCHANGED <<body, at>>
        /\ \E r : written' = Append(written, r) /\ r.to = 0
    BY <1>1 DEF DataGarbage
  <2>2. Answers(written, 1, n, I)
    BY <2>1 DEF AnsweredSoFar
  <2>3. PICK r : written' = Append(written, r) /\ r.to = 0
    BY <2>1
  <2>4. /\ n \in Nat /\ Len(written') = n + 1 /\ written'[n + 1] = r
        /\ \A i \in 1..n : written'[i] = written[i]
    <3>1. IsSeq(written)
      BY SequencesAre
    <3> QED
      BY <2>3, <3>1, AppendIs
  <2>5. Answers(written', 1, n, I)
    <3>1. {written'[i].to : i \in 1..n} = {written[i].to : i \in 1..n}
      BY <2>4
    <3> QED
      BY <2>1, <2>2, <2>4, <3>1 DEF Answers
  <2>6. n \in 0..Len(written') /\ Len(written') = n + 1 /\ written'[n + 1].to = 0
    BY <2>3, <2>4
  <2>7. \A i \in n + 1..Len(written') : ~(written'[i].to > 0)
    BY <2>4, <2>6
  <2>8. at' <= Len(body') /\ body' = body /\ at' = at
    BY <2>1
  <2> HIDE DEF n
  <2> QED
    BY <2>5, <2>6, <2>7, <2>8 DEF RepliesOfRequests, I
<1>2. CASE SendReplies
  <2>1. /\ phase = "data" /\ at > Len(body) /\ UNCHANGED <<body, at, replies>> /\ written' = written \o replies
    BY <1>2 DEF SendReplies
  <2> DEFINE m == Len(replies)
  <2>2. /\ n \in Nat /\ m \in Nat /\ Len(written') = n + m
        /\ \A i \in 1..n : written'[i] = written[i]
        /\ \A j \in 1..m : written'[n + j] = replies[j]
    <3> DEFINE S == Range(written) \cup Range(replies)
    <3>1. written \in Seq(S) /\ replies \in Seq(S)
      BY SeqMonotonic DEF ServerTyped, IsSeq
    <3> HIDE DEF S
    <3>2. /\ Len(written \o replies) = n + m /\ n \in Nat /\ m \in Nat
          /\ \A i \in 1..n + m : (written \o replies)[i] = IF i <= n THEN written[i] ELSE replies[i - n]
      BY <3>1, ConcatProperties, LenProperties
    <3>3. \A i \in 1..n : i \in 1..n + m /\ i <= n
      BY <3>2
    <3>4. \A j \in 1..m : n + j \in 1..n + m /\ ~(n + j <= n) /\ n + j - n = j
      BY <3>2
    <3> QED
      BY <2>1, <3>2, <3>3, <3>4
  <2>3. /\ Len(body) \in Nat /\ DOMAIN body = 1..Len(body) /\ at = Len(body) + 1 /\ DOMAIN replies = 1..m
    BY <2>1, SequencesAre
  <2> DEFINE replied == {written'[i].to : i \in n + 1..n + m}
  <2>4. Answers(written, 1, n, I) /\ AnsweredSoFar
    BY <2>1 DEF AnsweredSoFar
  <2>5. /\ \A i \in 1..m :
             /\ replies[i].to \in 1..at - 1 /\ body[replies[i].to].kind = "request"
             /\ body[replies[i].to].id = "null" => replies[i].error = "error"
        /\ \A i, j \in 1..m : i < j => replies[i].to < replies[j].to
        /\ \A i \in 1..at - 1 :
             body[i].kind = "request" /\ body[i].id # "null" => \E j \in 1..m : replies[j].to = i
    BY <2>1, <2>3 DEF AnsweredSoFar
  <2> HIDE DEF n, m, I
  <2>6. Answers(written', 1, n, I)
    <3>1. {written'[i].to : i \in 1..n} = {written[i].to : i \in 1..n}
      BY <2>2
    <3>2. I' = I
      BY <2>1 DEF I
    <3> QED
      BY <2>2, <2>4, <3>1, <3>2 DEF Answers
  <2>7. \A i \in n + 1..n + m : i - n \in 1..m /\ written'[i] = replies[i - n]
    BY <2>2
  <2>8. \A i \in replied : \E j \in 1..m : replies[j].to = i
    BY <2>7
  <2>9. \A j \in 1..m : replies[j].to \in replied
    <3>1. \A j \in 1..m : n + j \in n + 1..n + m
      BY <2>2
    <3> QED
      BY <2>2, <3>1
  <2>10. replied = {i \in DOMAIN body : body[i].kind = "request" /\ (body[i].id = "null" => i \in replied)}
    <3>1. at - 1 = Len(body) /\ DOMAIN body = 1..Len(body)
      BY <2>3
    <3>2. \A i \in replied : i \in DOMAIN body /\ body[i].kind = "request"
      <4> HIDE DEF replied
      <4> SUFFICES ASSUME NEW i \in replied PROVE i \in DOMAIN body /\ body[i].kind = "request"
        OBVIOUS
      <4>1. PICK j \in 1..m : replies[j].to = i
        BY <2>8
      <4> QED
        BY <2>5, <3>1, <4>1
    <3>3. \A i \in DOMAIN body : body[i].kind = "request" /\ body[i].id # "null" => i \in replied
      BY <2>5, <2>9, <3>1
    <3> HIDE DEF replied
    <3> QED
      BY <3>2, <3>3
  <2>11. \A i, j \in n + 1..n + m : i < j => written'[i].to < written'[j].to
    <3> SUFFICES ASSUME NEW i \in n + 1..n + m, NEW j \in n + 1..n + m, i < j PROVE written'[i].to < written'[j].to
      OBVIOUS
    <3>1. i - n < j - n /\ i - n \in 1..m /\ j - n \in 1..m
      BY <2>2
    <3> QED
      BY <2>5, <2>7, <3>1
  <2>12. \A i \in n + 1..n + m : written'[i].to > 0 /\ body[written'[i].to].id = "null" => written'[i].error = "error"
    BY <2>5, <2>7
  <2>13. n \in 0..Len(written')
    BY <2>2
  <2>14. ~(at' <= Len(body'))
    BY <2>1, <2>3
  <2>15. Answers(written', n + 1, n + m, {i \in DOMAIN body : body[i].kind = "request" /\ (body[i].id = "null" => i \in replied)})
    BY <2>1, <2>10, <2>11 DEF Answers
  <2> QED
    BY <2>1, <2>2, <2>6, <2>12, <2>13, <2>14, <2>15 DEF RepliesOfRequests, I
<1>3. CASE phase' # "end" \/ status' = 403
  BY <1>3 DEF RepliesOfRequests
<1>4. CASE UNCHANGED jvars
  BY <1>4 DEF RepliesOfRequests, Answers, jvars, request
<1>5. Serves /\ ~DataGarbage /\ ~SendReplies => phase' # "end"
  BY DEF Serves, JsonRpcNext, DataNotObject, ParseRequest, CallMethod, CallUnknown, CallMulticall, BadForm, CallReturned,
         MulticallEnds, Reply, ReplyException, InCall, Raise, Return, Throw
<1>6. \A b, origin : OnRequest(b, origin) => phase' # "end" \/ status' = 403
  BY DEF OnRequest
<1>7. CASE phase' \in {"idle", "dealt"}
  BY <1>3, <1>7
<1> QED
  BY <1>1, <1>2, <1>3, <1>4, <1>5, <1>6, <1>7, Outside

-----------------------------------------------------------------------------
(* The context of a request, through the multicalls. *)
LEMMA ContextPushed ==
    ASSUME NEW s, IsSeq(s), NEW f, f.contextOut = "none", NEW own, NEW now, ContextOf(s, own, now)
    PROVE  ContextOf(Append(s, f), own, now)
<1> DEFINE t == Append(s, f)
           n == Len(s) + 1
<1>1. /\ n \in Nat /\ DOMAIN s = 1..n - 1 /\ DOMAIN t = 1..n /\ t[n] = f
      /\ \A i \in 1..n - 1 : t[i] = s[i]
  BY AppendIs
<1> HIDE DEF t, n
<1>2. \A k \in DOMAIN t : k = n \/ (k \in DOMAIN s /\ t[k] = s[k])
  BY <1>1
<1>3. \A k \in DOMAIN s : k \in DOMAIN t /\ t[k] = s[k]
  BY <1>1
<1>4. t[n].contextOut = "none"
  BY <1>1
<1> QED
  BY <1>2, <1>3, <1>4 DEF ContextOf, t

LEMMA ContextPopped ==
    ASSUME NEW s, IsSeq(s), s # <<>>, Last(s).contextOut = "none", NEW own, NEW now, ContextOf(s, own, now)
    PROVE  ContextOf(Front(s), own, now)
<1> DEFINE t == Front(s)
           n == Len(s)
<1>1. /\ n \in Nat \ {0} /\ DOMAIN s = 1..n /\ DOMAIN t = 1..n - 1 /\ s[n].contextOut = "none"
      /\ \A i \in 1..n - 1 : t[i] = s[i]
  BY FrontIs
<1> HIDE DEF t, n
<1>2. \A k \in DOMAIN s : k = n \/ (k \in DOMAIN t /\ t[k] = s[k])
  BY <1>1
<1>3. \A k \in DOMAIN t : k \in DOMAIN s /\ t[k] = s[k]
  BY <1>1
<1> QED
  BY <1>1, <1>2, <1>3 DEF ContextOf, t

LEMMA ContextReplaced ==
    ASSUME NEW s, IsSeq(s), s # <<>>, NEW f, NEW own, NEW now,
           \/ f.contextOut = Last(s).contextOut /\ ContextOf(s, own, now)
           \/ f.contextOut # "none" /\ now = Merged("absent", f.contextOut)
    PROVE  ContextOf(Append(Front(s), f), own, now)
<1> DEFINE t == Append(Front(s), f)
           n == Len(s)
<1>1. /\ n \in Nat \ {0} /\ DOMAIN s = 1..n /\ DOMAIN t = 1..n /\ t[n] = f /\ Last(s) = s[n]
      /\ \A i \in 1..n - 1 : t[i] = s[i]
  BY LastIs
<1> HIDE DEF t, n
<1>2. CASE f.contextOut = Last(s).contextOut /\ ContextOf(s, own, now)
  <2>1. DOMAIN t = DOMAIN s /\ \A k \in DOMAIN t : t[k].contextOut = s[k].contextOut
    <3>1. \A k \in 1..n : k = n \/ k \in 1..n - 1
      BY <1>1
    <3> QED
      BY <1>1, <1>2, <3>1
  <2> QED
    BY <1>2, <2>1 DEF ContextOf, t
<1>3. CASE f.contextOut # "none" /\ now = Merged("absent", f.contextOut)
  <2>1. \A k \in DOMAIN t : k = n \/ n > k
    BY <1>1
  <2>2. n \in DOMAIN t /\ t[n].contextOut # "none" /\ now = Merged("absent", t[n].contextOut)
    BY <1>1, <1>3
  <2> QED
    BY <2>1, <2>2 DEF ContextOf, t
<1> QED
  BY <1>2, <1>3

LEMMA ParseShared ==
    ASSUME ServerTyped, ParseRequest
    PROVE  SharedContext'
<1>1. stack' = <<>> /\ Item' = Item /\ nodes' = (IF Item.context = "none" THEN <<>> ELSE <<Item.context>>)
  BY DEF ParseRequest, ServerTyped, Item, request
<1>2. phase' # "return"
  BY DEF ParseRequest
<1>3. Item.context # "none" => Len(nodes') = 1 /\ nodes'[1] = Item.context
  BY <1>1
<1>4. ContextOf(<<>>, Item.context, Item.context)
  BY NothingIs DEF ContextOf
<1> QED
  BY <1>1, <1>2, <1>3, <1>4, NothingIs DEF SharedContext

LEMMA CallShared ==
    ASSUME ServerTyped, SharedContext, CallMethod \/ CallUnknown, leaked' = (leaked \/ Leaks)
    PROVE  SharedContext'
<1>1. UNCHANGED <<request, stack, nodes>> /\ phase = "call" /\ Item' = Item /\ Notify' = Notify
  BY DEF CallMethod, CallUnknown, InCall, request, Item, Notify
<1>2. ~leaked' => ~leaked
  OBVIOUS
<1>3. stack = <<>> /\ ret'.error = "null" /\ phase' = "return" => Item.call.method # "multicall"
  <2>1. Current.method \in methodMap => Current.method # "multicall"
    BY MethodsAssumption, RpcPageAssumption DEF ServerTyped, UserMethods
  <2>2. CallUnknown /\ phase' = "return" => ret'.error # "null"
    BY DEF CallUnknown, Return, Throw, Failed
  <2> QED
    BY <2>1, <2>2 DEF CallMethod, Current
<1>4. stack = <<>> /\ ContextOf(stack, Item.context, nodes[1]) => nodes[1] = Item.context
  BY NothingIs DEF ContextOf
<1> QED
  BY <1>1, <1>2, <1>3, <1>4 DEF SharedContext, Told

LEMMA MulticallShared ==
    ASSUME ServerTyped, SharedContext, CallMulticall, leaked' = (leaked \/ Leaks)
    PROVE  SharedContext'
<1>1. UNCHANGED <<request, nodes>> /\ phase = "call" /\ Item' = Item /\ Notify' = Notify /\ InCall
  BY DEF CallMulticall, InCall, request, Item, Notify
<1>2. ~leaked' => ~leaked
  OBVIOUS
<1>3. CASE Current.args = <<>>
  <2>1. stack' = stack /\ (phase' = "return" => ret'.error # "null")
    BY <1>3 DEF CallMulticall, Raise, Return, Throw, Failed
  <2> QED
    BY <1>1, <1>2, <2>1 DEF SharedContext
<1>4. CASE Current.args # <<>>
  <2> DEFINE f == [call |-> Current, context |-> Context, contextOut |-> "none", results |-> <<>>, errors |-> <<>>]
  <2>1. stack' = Append(stack, f) /\ phase' = phase /\ f.contextOut = "none" /\ f.context = Context
    BY <1>4 DEF CallMulticall
  <2> HIDE DEF f
  <2>2. IsSeq(stack)
    BY DEF ServerTyped
  <2>3. \A k \in DOMAIN stack' : stack'[k] = f \/ (k \in DOMAIN stack /\ stack'[k] = stack[k])
    <3>1. /\ DOMAIN stack = 1..Len(stack) /\ DOMAIN stack' = 1..Len(stack) + 1 /\ Len(stack) \in Nat
          /\ stack'[Len(stack) + 1] = f /\ \A k \in 1..Len(stack) : stack'[k] = stack[k]
      BY <2>1, <2>2, AppendIs
    <3> QED
      BY <3>1
  <2>4. Item.context # "none" => Context = 1
    <3>1. stack # <<>> => Top = stack[Len(stack)] /\ Len(stack) \in DOMAIN stack
      BY TopIs
    <3> QED
      BY <1>1, <3>1 DEF SharedContext, Context
  <2>5. Item.call.method = "multicall"
    BY <1>1 DEF SharedContext, CallMulticall, Current
  <2>6. ContextOf(stack, Item.context, nodes[1]) => ContextOf(stack', Item.context, nodes[1])
    BY <2>1, <2>2, ContextPushed
  <2>7. /\ Notify => \A k \in DOMAIN stack : stack[k].contextOut = "none"
        /\ Item.context # "none" =>
             /\ Len(nodes) = 1 /\ \A k \in DOMAIN stack : stack[k].context = 1
             /\ ~leaked => ContextOf(stack, Item.context, nodes[1])
    BY <1>1 DEF SharedContext
  <2>8. phase' = "call" /\ nodes' = nodes
    BY <1>1, <2>1
  <2>9. /\ Notify => \A k \in DOMAIN stack' : stack'[k].contextOut = "none"
        /\ Item.context # "none" => \A k \in DOMAIN stack' : stack'[k].context = 1
    BY <2>1, <2>3, <2>4, <2>7
  <2> QED
    BY <1>1, <1>2, <2>5, <2>6, <2>7, <2>8, <2>9 DEF SharedContext
<1> QED
  BY <1>3, <1>4

(* A multicall ends, or fails half way. *)
LEMMA EndShared ==
    ASSUME ServerTyped, SharedContext, BadForm \/ MulticallEnds, leaked' = (leaked \/ Leaks)
    PROVE  SharedContext'
<1>1. UNCHANGED <<request, nodes>> /\ phase = "call" /\ Item' = Item /\ Notify' = Notify
  BY DEF BadForm, MulticallEnds, InCall, request, Item, Notify
<1>2. stack # <<>> /\ stack' = Front(stack) /\ phase' # "call" /\ IsSeq(stack)
  BY DEF BadForm, MulticallEnds, Raise, Return, Throw, ServerTyped
<1>3. /\ Len(stack) \in Nat \ {0} /\ DOMAIN stack = 1..Len(stack) /\ DOMAIN stack' = 1..Len(stack) - 1
      /\ \A k \in 1..Len(stack) - 1 : stack'[k] = stack[k]
      /\ Last(stack) = stack[Len(stack)] /\ Len(stack') = Len(stack) - 1
  BY <1>2, FrontIs
<1>4. \A k \in DOMAIN stack' : k \in DOMAIN stack /\ stack'[k] = stack[k]
  BY <1>3
<1>5. /\ Notify => \A k \in DOMAIN stack : stack[k].contextOut = "none"
      /\ Item.call.method = "multicall"
      /\ Item.context # "none" =>
           /\ Len(nodes) = 1 /\ \A k \in DOMAIN stack : stack[k].context = 1
           /\ ~leaked => ContextOf(stack, Item.context, nodes[1])
  BY <1>1, <1>2 DEF SharedContext
<1>6. Last(stack).contextOut = "none" /\ ContextOf(stack, Item.context, nodes[1]) => ContextOf(stack', Item.context, nodes[1])
  BY <1>2, ContextPopped
<1>7. stack' # <<>> => Len(stack) > 1
  <2>1. IsSeq(stack')
    BY <1>2, FrontIs
  <2>2. stack' # <<>> => Len(stack') # 0
    BY <2>1, EmptySeq DEF IsSeq
  <2> QED
    BY <1>3, <2>2
<1>8. stack' # <<>> /\ ~leaked' /\ phase' = "return" /\ ret'.context = "none" => ~leaked /\ Last(stack).contextOut = "none"
  <2>1. CASE BadForm
    BY <1>7, <2>1 DEF BadForm, Leaks, Top
  <2>2. CASE MulticallEnds
    <3>1. ~Notify => ret'.context = Last(stack).contextOut
      BY <2>2 DEF MulticallEnds, Return, Top
    <3>2. Notify => Last(stack).contextOut = "none"
      BY <1>3, <1>5
    <3> QED
      BY <3>1, <3>2
  <2> QED
    BY <2>1, <2>2
<1>9. Item.context # "none" /\ stack' = <<>> /\ ~leaked' /\ phase' = "return" /\ ret'.error = "null" => Told'
  <2> SUFFICES ASSUME Item.context # "none", stack' = <<>>, ~leaked', phase' = "return", ret'.error = "null" PROVE Told'
    OBVIOUS
  <2>1. MulticallEnds /\ ret'.context = Last(stack).contextOut
    BY DEF BadForm, MulticallEnds, Raise, Return, Throw, Failed, Nothing, Top
  <2>2. Len(stack) = 1 /\ ContextOf(stack, Item.context, nodes[1])
    <3>1. Len(stack') = 0 /\ ~leaked
      BY NothingIs
    <3> QED
      BY <1>3, <1>5, <3>1
  <2>3. DOMAIN stack = {1} /\ Last(stack) = stack[1]
    BY <1>3, <2>2
  <2>4. nodes[1] = IF stack[1].contextOut = "none" THEN Item.context ELSE Merged("absent", stack[1].contextOut)
    BY <2>2, <2>3 DEF ContextOf
  <2> QED
    BY <1>1, <1>5, <2>1, <2>3, <2>4 DEF Told, Merged
<1> QED
  BY <1>1, <1>2, <1>4, <1>5, <1>6, <1>8, <1>9 DEF SharedContext

LEMMA ReturnShared ==
    ASSUME ServerTyped, NothingReturned, SharedContext, CallReturned, leaked' = (leaked \/ Leaks)
    PROVE  SharedContext'
<1>1. CASE ret.error = "nil"
  BY <1>1 DEF CallReturned, SharedContext
<1>2. CASE ret.error # "nil"
  <2>1. /\ stack # <<>> /\ stack' = Append(Front(stack), NewTop) /\ phase = "return" /\ phase' = "call"
        /\ UNCHANGED <<request, ret>> /\ Item' = Item /\ Notify' = Notify /\ IsSeq(stack)
    BY <1>2, Merges DEF request, Item, Notify, ServerTyped
  <2>2. /\ Len(stack) \in Nat \ {0} /\ DOMAIN stack = 1..Len(stack) /\ DOMAIN stack' = 1..Len(stack) /\ stack' # <<>>
        /\ stack'[Len(stack)] = NewTop /\ Last(stack) = stack[Len(stack)] /\ Top = stack[Len(stack)]
        /\ \A k \in 1..Len(stack) - 1 : stack'[k] = stack[k]
    <3>1. LET t == Append(Front(stack), NewTop) IN
          /\ Len(stack) \in Nat \ {0} /\ DOMAIN stack = 1..Len(stack) /\ DOMAIN t = 1..Len(stack) /\ t # <<>>
          /\ t[Len(stack)] = NewTop /\ Last(stack) = stack[Len(stack)]
          /\ \A k \in 1..Len(stack) - 1 : t[k] = stack[k]
      BY <2>1, LastIs
    <3> QED
      BY <2>1, <3>1, TopIs
  <2>3. \A k \in DOMAIN stack' : k \in DOMAIN stack /\ (stack'[k] = stack[k] \/ (k = Len(stack) /\ stack'[k] = NewTop))
    BY <2>2
  <2>4. /\ Item.call.method = "multicall" /\ (Notify => \A k \in DOMAIN stack : stack[k].contextOut = "none")
        /\ Item.context # "none" =>
             /\ Len(nodes) = 1 /\ \A k \in DOMAIN stack : stack[k].context = 1
             /\ ~leaked /\ ret.context = "none" => ContextOf(stack, Item.context, nodes[1])
    BY <2>1 DEF SharedContext
  <2>5. Notify => ret.context = "none"
    BY <1>2, <2>1 DEF NothingReturned, Nothing
  <2>6. /\ NewTop.contextOut = (IF ret.context = "none" THEN Top.contextOut ELSE ret.context)
        /\ Top.context # 0 => NewTop.context = Top.context
    BY <2>1, NewTopIs
  <2>7. Len(stack) \in DOMAIN stack
    BY <2>2
  <2>8. Notify => \A k \in DOMAIN stack' : stack'[k].contextOut = "none"
    BY <2>2, <2>3, <2>4, <2>5, <2>6, <2>7
  <2>9. Item.context # "none" => NewTop.context = 1
    BY <2>2, <2>4, <2>6, <2>7
  <2>10. Item.context # "none" => \A k \in DOMAIN stack' : stack'[k].context = 1
    BY <2>3, <2>4, <2>9
  <2>11. CASE ret.context = "none"
    <3>1. nodes' = nodes
      BY <1>2, <2>11, Merges
    <3>2. NewTop.contextOut = Last(stack).contextOut
      BY <2>2, <2>6, <2>11
    <3>3. ContextOf(stack, Item.context, nodes[1]) => ContextOf(stack', Item.context, nodes'[1])
      BY <2>1, <3>1, <3>2, ContextReplaced
    <3> QED
      BY <2>1, <2>4, <2>8, <2>10, <2>11, <3>1, <3>3 DEF SharedContext
  <2>12. CASE ret.context # "none"
    <3>1. Item.context # "none" => nodes' = [nodes EXCEPT ![1] = Merged("absent", ret.context)]
      BY <1>2, <2>4, <2>9, <2>12, Merges
    <3>2. Item.context # "none" => Len(nodes') = 1 /\ nodes'[1] = Merged("absent", ret.context)
      <4>1. nodes \in Seq(Values) /\ Merged("absent", ret.context) \in Values
        BY <2>12 DEF ServerTyped, Merged, Values, Outs
      <4> QED
        BY <2>4, <3>1, <4>1, ExceptSeq
    <3>3. NewTop.contextOut # "none" /\ NewTop.contextOut = ret.context
      BY <2>6, <2>12
    <3>4. Item.context # "none" => ContextOf(stack', Item.context, nodes'[1])
      BY <2>1, <3>2, <3>3, ContextReplaced
    <3> QED
      BY <2>1, <2>4, <2>8, <2>10, <3>2, <3>4 DEF SharedContext
  <2> QED
    BY <2>11, <2>12
<1> QED
  BY <1>1, <1>2

LEMMA SharedStep == ServerTyped /\ PageTyped /\ NothingReturned /\ SharedContext /\ [RpcNext]_rpcVars => SharedContext'
<1> SUFFICES ASSUME ServerTyped, PageTyped, NothingReturned, SharedContext, [RpcNext]_rpcVars PROVE SharedContext'
  OBVIOUS
<1>1. CASE phase' \notin {"call", "return"}
  BY <1>1 DEF SharedContext
<1>2. CASE UNCHANGED <<jvars, leaked>>
  BY <1>2 DEF SharedContext, Told, Item, Notify, jvars, request, calls
<1>3. CASE Serves
  <2>1. phase # "data" => leaked' = (leaked \/ Leaks)
    BY <1>3 DEF Serves
  <2>2. CASE DataGarbage \/ DataNotObject \/ SendReplies \/ Reply \/ ReplyException
    BY <1>1, <2>2 DEF DataGarbage, DataNotObject, SendReplies, Reply, ReplyException
  <2>3. CallMethod \/ CallUnknown \/ CallMulticall \/ BadForm \/ MulticallEnds \/ CallReturned => phase # "data"
    BY DEF CallMethod, CallUnknown, CallMulticall, BadForm, MulticallEnds, CallReturned, InCall
  <2> QED
    BY <1>3, <2>1, <2>2, <2>3, ParseShared, CallShared, MulticallShared, EndShared, ReturnShared DEF Serves, JsonRpcNext
<1>4. ASSUME NEW b, NEW origin, OnRequest(b, origin) PROVE SharedContext'
  BY <1>1, <1>4 DEF OnRequest
<1> QED
  BY <1>1, <1>2, <1>3, <1>4, Outside

-----------------------------------------------------------------------------
(* The request of the page, as the server sees it. *)
LEMMA PageCall ==
    ASSUME PageTyped, Queued, xhr # "idle"
    PROVE  /\ Len(batch) \in Nat \ {0}
           /\ \A i \in 1..Len(batch) : batch[i] \in Calls /\ method[batch[i]] \in UserMethods
           /\ Len(batch) = 1 => PageRequest.call = Leaf(batch[1])
           /\ Len(batch) # 1 => /\ PageRequest.call.method = "multicall" /\ PageRequest.call.args # <<>>
                                /\ Len(PageRequest.call.args) = Len(batch)
                                /\ \A i \in 1..Len(batch) : PageRequest.call.args[i] = Leaf(batch[i])
<1>1. Len(batch) \in Nat \ {0} /\ DOMAIN batch = 1..Len(batch)
  <2>1. batch # <<>> /\ batch \in Seq(Calls)
    BY DEF Queued, PageTyped
  <2> QED
    BY <2>1, EmptySeq, LenProperties
<1>2. \A i \in 1..Len(batch) : batch[i] \in Calls /\ method[batch[i]] \in UserMethods
  BY <1>1, BatchIs DEF Queued
<1>3. Len(batch) = 1 => PageRequest.call = Leaf(batch[1])
  BY DEF PageRequest
<1>4. ASSUME Len(batch) # 1
      PROVE  /\ PageRequest.call.method = "multicall" /\ PageRequest.call.args # <<>>
             /\ Len(PageRequest.call.args) = Len(batch)
             /\ \A i \in 1..Len(batch) : PageRequest.call.args[i] = Leaf(batch[i])
  <2> DEFINE a == [i \in 1..Len(batch) |-> Leaf(batch[i])]
  <2>1. PageRequest.call = [method |-> "multicall", by |-> "page", args |-> a]
    BY <1>1, <1>4 DEF PageRequest
  <2>2. a \in Seq(Range(a)) /\ DOMAIN a = 1..Len(batch) /\ \A i \in 1..Len(batch) : a[i] = Leaf(batch[i])
    <3>1. DOMAIN a = 1..Len(batch) /\ \A i \in 1..Len(batch) : a[i] = Leaf(batch[i]) /\ a[i] \in Range(a)
      BY DEF Range
    <3>2. a \in [1..Len(batch) -> Range(a)]
      BY <3>1
    <3> HIDE DEF a
    <3>3. a \in Seq(Range(a))
      BY <1>1, <3>2
    <3> QED
      BY <3>1, <3>3
  <2> HIDE DEF a
  <2>3. Len(a) = Len(batch)
    BY <1>1, <2>2, LenProperties
  <2>4. a # <<>>
    BY <1>1, <2>3, NothingIs
  <2> QED
    BY <2>1, <2>2, <2>3, <2>4
<1> QED
  BY <1>1, <1>2, <1>3, <1>4

LEMMA PageItem ==
    ASSUME PageTyped, Queued, body = <<PageRequest>>, at = 1
    PROVE  /\ Item = PageRequest /\ ~Notify /\ Item.context = context /\ Item.context # "none" /\ Item.kind = "request"
           /\ Len(body) = 1
BY RequestIs DEF Item, Notify, Values

LEMMA CurrentIs ==
    ASSUME ServerTyped, PageTyped, Queued, Served, xhr = "served", InCall
    PROVE  \/ stack = <<>> /\ Len(batch) = 1 /\ Current = Leaf(batch[1])
           \/ stack = <<>> /\ Len(batch) # 1 /\ Current = PageRequest.call
           \/ /\ InMulticall /\ stack # <<>> /\ Top = stack[1] /\ Len(stack[1].results) < Len(batch)
              /\ Len(stack[1].results) + 1 \in 1..Len(batch)
              /\ Current = Leaf(batch[Len(stack[1].results) + 1])
<1>1. at = 1 /\ body = <<PageRequest>> /\ (stack = <<>> \/ InMulticall)
  BY DEF Served, Inside, Collected, Finished, Unanswered, InCall, Executing
<1>2. Item = PageRequest
  BY <1>1, PageItem
<1>3. CASE stack = <<>>
  BY <1>2, <1>3, PageCall DEF Current
<1>4. CASE stack # <<>>
  <2>1. InMulticall /\ Len(stack) = 1 /\ stack[1].call = PageRequest.call /\ Len(batch) # 1
    BY <1>1, <1>4, BatchIs DEF InMulticall
  <2>2. Top = stack[1] /\ IsFrame(stack[1])
    BY <1>4, <2>1, TopIs
  <2>3. Len(Top.results) < Len(batch) /\ Len(Top.results) \in Nat
    <3>1. Len(Top.results) < Len(Top.call.args)
      BY <1>4 DEF InCall
    <3>2. IsSeq(Top.results)
      BY <2>2 DEF IsFrame
    <3>3. Len(Top.call.args) = Len(batch)
      BY <2>1, <2>2, PageCall
    <3> QED
      BY <3>1, <3>2, <3>3, LenProperties DEF IsSeq
  <2>4. Len(Top.results) + 1 \in 1..Len(batch)
    BY <2>3, BatchIs
  <2> QED
    BY <1>4, <2>1, <2>2, <2>3, <2>4, PageCall DEF Current
<1> QED
  BY <1>3, <1>4

(* One more result fits to one more call. *)
LEMMA FitsNext ==
    ASSUME NEW results, IsSeq(results), NEW errors, IsSeq(errors), Fits(results, errors),
           NEW r, NEW cur, NEW c, c = batch[Len(results) + 1]
    PROVE  /\ LeafResult(r, c) => Fits(Append(results, r), errors)
           /\ r = Null /\ cur.by = c => Fits(Append(results, r), Append(errors, cur))
<1> DEFINE n == Len(results)
           m == Len(errors)
           rs == Append(results, r)
           es == Append(errors, cur)
<1>1. PICK g \in [0..n -> 0..m] : FitsBy(results, errors, g)
  BY DEF Fits
<1>2. /\ n \in Nat /\ Len(rs) = n + 1 /\ rs[n + 1] = r /\ \A i \in 1..n : rs[i] = results[i]
      /\ m \in Nat /\ Len(es) = m + 1 /\ es[m + 1] = cur /\ \A i \in 1..m : es[i] = errors[i]
  BY AppendIs
<1> HIDE DEF n, m, rs, es
<1>3. /\ g[0] = 0 /\ g[n] = m
      /\ \A i \in 1..n : \/ g[i] = g[i - 1] /\ LeafResult(results[i], batch[i])
                         \/ results[i] = Null /\ g[i] = g[i - 1] + 1 /\ errors[g[i]].by = batch[i]
  BY <1>1 DEF FitsBy, n, m
<1>4. \A i \in 1..n + 1 : i = n + 1 \/ (i \in 1..n /\ i - 1 \in 0..n)
  BY <1>2
<1>5. 0 \in 0..n /\ n \in 0..n /\ n + 1 \notin 0..n /\ n + 1 - 1 = n /\ \A i \in 1..n : i \in 0..n
  BY <1>2
<1>6. ASSUME LeafResult(r, c) PROVE Fits(rs, errors)
  <2> DEFINE h == [i \in 0..n + 1 |-> IF i = n + 1 THEN m ELSE g[i]]
  <2>1. h \in [0..n + 1 -> 0..m] /\ h[n + 1] = m /\ \A i \in 0..n : h[i] = g[i]
    BY <1>1, <1>2, <1>5
  <2> HIDE DEF h
  <2>2. h[0] = 0 /\ h[n + 1] = m
    BY <1>3, <1>5, <2>1
  <2>3. \A i \in 1..n + 1 : \/ h[i] = h[i - 1] /\ LeafResult(rs[i], batch[i])
                            \/ rs[i] = Null /\ h[i] = h[i - 1] + 1 /\ errors[h[i]].by = batch[i]
    BY <1>2, <1>3, <1>4, <1>5, <1>6, <2>1 DEF n
  <2>4. FitsBy(rs, errors, h)
    BY <1>2, <2>2, <2>3 DEF FitsBy, m
  <2> QED
    BY <1>2, <2>1, <2>4 DEF Fits, m
<1>7. ASSUME r = Null, cur.by = c PROVE Fits(rs, es)
  <2> DEFINE h == [i \in 0..n + 1 |-> IF i = n + 1 THEN m + 1 ELSE g[i]]
  <2>1. h \in [0..n + 1 -> 0..m + 1] /\ h[n + 1] = m + 1 /\ \A i \in 0..n : h[i] = g[i]
    BY <1>1, <1>2, <1>5
  <2> HIDE DEF h
  <2>2. h[0] = 0 /\ h[n + 1] = m + 1
    BY <1>3, <1>5, <2>1
  <2>3. \A i \in 1..n : g[i] = g[i - 1] + 1 => es[g[i]] = errors[g[i]]
    <3>1. \A i \in 1..n : g[i] \in 0..m /\ g[i - 1] \in 0..m
      <4>1. \A i \in 1..n : i \in 0..n /\ i - 1 \in 0..n
        BY <1>2, SMT
      <4> QED
        BY <4>1, Zenon
    <3>2. \A i \in 1..n : g[i] = g[i - 1] + 1 => g[i] \in 1..m
      BY <1>2, <3>1
    <3> QED
      BY <1>2, <3>2
  <2>4. \A i \in 1..n : \/ h[i] = h[i - 1] /\ LeafResult(rs[i], batch[i])
                        \/ rs[i] = Null /\ h[i] = h[i - 1] + 1 /\ es[h[i]].by = batch[i]
    <3> SUFFICES ASSUME NEW i \in 1..n
                 PROVE  \/ h[i] = h[i - 1] /\ LeafResult(rs[i], batch[i])
                        \/ rs[i] = Null /\ h[i] = h[i - 1] + 1 /\ es[h[i]].by = batch[i]
      OBVIOUS
    <3>1. h[i] = g[i] /\ h[i - 1] = g[i - 1] /\ rs[i] = results[i]
      <4>1. i \in 0..n /\ i - 1 \in 0..n
        BY <1>2
      <4> QED
        BY <1>2, <2>1, <4>1
    <3>2. \/ g[i] = g[i - 1] /\ LeafResult(results[i], batch[i])
          \/ results[i] = Null /\ g[i] = g[i - 1] + 1 /\ errors[g[i]].by = batch[i]
      BY <1>3
    <3> QED
      BY <2>3, <3>1, <3>2
  <2>5. rs[n + 1] = Null /\ h[n + 1] = h[n] + 1 /\ es[h[n + 1]].by = batch[n + 1]
    BY <1>2, <1>3, <1>5, <1>7, <2>1 DEF n
  <2>6. FitsBy(rs, es, h)
    <3>1. \A i \in 1..n + 1 : \/ h[i] = h[i - 1] /\ LeafResult(rs[i], batch[i])
                              \/ rs[i] = Null /\ h[i] = h[i - 1] + 1 /\ es[h[i]].by = batch[i]
      BY <1>4, <1>5, <2>4, <2>5
    <3> QED
      BY <1>2, <2>2, <3>1 DEF FitsBy
  <2> QED
    BY <1>2, <2>1, <2>6 DEF Fits
<1> QED
  BY <1>6, <1>7 DEF rs, es

-----------------------------------------------------------------------------
(* The server serves the request of the page. *)
PageStays == UNCHANGED <<batch, method, context, xhr>> /\ PageRequest' = PageRequest

LEMMA StaysIs ==
    ASSUME Serves
    PROVE  /\ PageStays /\ leaked' = (phase # "data" /\ (leaked \/ Leaks)) /\ JsonRpcNext
           /\ \A result, c : LeafResult(result, c)' <=> LeafResult(result, c)
           /\ \A results, errors : Fits(results, errors)' <=> Fits(results, errors)
<1>1. UNCHANGED page /\ leaked' = (phase # "data" /\ (leaked \/ Leaks)) /\ JsonRpcNext
  BY DEF Serves
<1>2. UNCHANGED <<batch, method, context, xhr>>
  BY <1>1 DEF page
<1>3. PageRequest' = PageRequest
  BY <1>2 DEF PageRequest, Leaf
<1>4. \A result, c : LeafResult(result, c)' <=> LeafResult(result, c)
  BY <1>2 DEF LeafResult
<1>5. \A results, errors, g : FitsBy(results, errors, g)' <=> FitsBy(results, errors, g)
  BY <1>2 DEF FitsBy, LeafResult
<1>6. \A results, errors : Fits(results, errors)' <=> Fits(results, errors)
  BY <1>5 DEF Fits
<1> QED
  BY <1>1, <1>2, <1>3, <1>4, <1>6 DEF PageStays

LEMMA InsideCall ==
    ASSUME ServerTyped, PageTyped, Queued, SharedContext, Inside, body = <<PageRequest>>, xhr = "served", Served,
           Serves, CallMethod \/ CallUnknown, SharedContext'
    PROVE  Inside'
<1>1. /\ InCall /\ phase = "call" /\ UNCHANGED <<body, at, replies, written, stack, nodes>>
      /\ phase' \in {"return", "throw"}
  BY DEF CallMethod, CallUnknown, InCall, Raise, Return, Throw, request
<1>2. /\ Item = PageRequest /\ ~Notify /\ Item.context = context /\ Item.context # "none" /\ Item' = Item
  BY <1>1, PageItem DEF Inside, Unanswered, Item
<1>3. Current.method # "badform" /\ Current.method # "multicall"
  <2>1. Current.method \in methodMap => Current.method \notin {"badform", "multicall"}
    BY MethodsAssumption, RpcPageAssumption DEF ServerTyped, UserMethods
  <2> QED
    BY <2>1 DEF CallMethod, CallUnknown
<1>4. ~leaked'
  BY <1>1, <1>3, StaysIs DEF Inside, Leaks
<1>5. Executing' /\ Unanswered'
  BY <1>1 DEF Executing, Inside, Unanswered
<1> DEFINE Own(c) == \/ ret'.error = "null" /\ LeafResult(ret'.result, c)
                     \/ ret'.error = "error" /\ ret'.result = Null
<1>6. ASSUME phase' = "return", NEW c \in Calls, Current = Leaf(c) PROVE Own(c)
  <2>1. Current.method = method[c] /\ Current.by = c
    BY <1>6 DEF Leaf
  <2>2. CASE CallUnknown
    BY <1>6, <2>2 DEF CallUnknown, Return, Throw, Failed
  <2>3. CASE CallMethod
    BY <1>2, <1>6, <2>1, <2>3 DEF CallMethod, Raise, Return, Throw, Failed, LeafResult
  <2> QED
    BY <2>2, <2>3
<1>7. ASSUME phase' = "return" PROVE ServedReturn'
  <2>1. CASE stack = <<>> /\ Len(batch) = 1 /\ Current = Leaf(batch[1])
    <3>1. Own(batch[1])
      BY <1>6, <1>7, <2>1, PageCall
    <3>2. ret'.context \in Outs
      BY CallTyped DEF ServerTyped
    <3>3. ret'.error = "null" => Len(nodes') = 1 /\ nodes'[1] = context
      <4>1. Item.call = Leaf(batch[1]) /\ Item.call.method \in UserMethods
        BY <1>2, <2>1, PageCall DEF Leaf
      <4>2. Item.call.method # "multicall"
        BY <4>1 DEF UserMethods
      <4> QED
        BY <1>1, <1>2, <1>4, <1>7, <2>1, <4>2 DEF SharedContext, Told
    <3>4. ReplyFits(ret)'
      BY <2>1, <3>1, <3>2, <3>3, StaysIs DEF ReplyFits, ResultFits, PageStays
    <3> QED
      BY <1>1, <2>1, <3>1, <3>4 DEF ServedReturn
  <2>2. CASE stack = <<>> /\ Len(batch) # 1 /\ Current = PageRequest.call
    BY <1>3, <2>2, PageCall
  <2>3. CASE /\ InMulticall /\ stack # <<>> /\ Top = stack[1] /\ Len(stack[1].results) < Len(batch)
             /\ Len(stack[1].results) + 1 \in 1..Len(batch)
             /\ Current = Leaf(batch[Len(stack[1].results) + 1])
    <3>1. Own(batch[Len(stack[1].results) + 1])
      BY <1>6, <1>7, <2>3, PageCall
    <3>2. InMulticall'
      <4>1. Fits(stack[1].results, stack[1].errors)'
        BY <1>1, <2>3, StaysIs DEF InMulticall
      <4> QED
        BY <1>1, <2>3, <4>1, StaysIs DEF InMulticall, PageStays
    <3> QED
      BY <1>1, <2>3, <3>1, <3>2, StaysIs DEF ServedReturn, PageStays
  <2> QED
    BY <1>1, <2>1, <2>2, <2>3, CurrentIs
<1> QED
  BY <1>1, <1>4, <1>5, <1>7 DEF Inside

LEMMA InsideMulticall ==
    ASSUME ServerTyped, PageTyped, Queued, Inside, body = <<PageRequest>>, xhr = "served", Served,
           Serves, CallMulticall
    PROVE  Inside'
<1>1. /\ InCall /\ phase = "call" /\ UNCHANGED <<body, at, replies, written, nodes>> /\ Current.method = "multicall"
  BY DEF CallMulticall, InCall, request
<1>2. stack = <<>> /\ Len(batch) # 1 /\ Current = PageRequest.call /\ Len(batch) \in Nat \ {0}
  <2>1. \A i \in 1..Len(batch) : Leaf(batch[i]).method # "multicall"
    BY PageCall DEF Leaf, UserMethods
  <2>2. Len(batch) = 1 => 1 \in 1..Len(batch)
    BY PageCall
  <2> QED
    BY <1>1, <2>1, <2>2, CurrentIs, PageCall
<1> DEFINE f == [call |-> Current, context |-> Context, contextOut |-> "none", results |-> <<>>, errors |-> <<>>]
<1>3. stack' = Append(<<>>, f) /\ phase' = phase
  BY <1>2, PageCall DEF CallMulticall
<1>4. f.call = PageRequest.call /\ f.results = <<>> /\ f.errors = <<>>
  BY <1>2
<1> HIDE DEF f
<1>5. Len(stack') = 1 /\ stack'[1] = f
  BY <1>3
<1>6. Fits(<<>>, <<>>)'
  <2> DEFINE g == [i \in 0..0 |-> 0]
  <2>1. g \in [0..0 -> 0..0] /\ g[0] = 0
    OBVIOUS
  <2> HIDE DEF g
  <2>2. FitsBy(<<>>, <<>>, g)'
    BY <2>1, NothingIs DEF FitsBy
  <2> QED
    BY <2>1, <2>2, NothingIs DEF Fits
<1>7. InMulticall'
  <2>1. Len(batch) > 1
    BY <1>2, BatchIs
  <2>2. Len(stack'[1].results) <= Len(batch)
    BY <1>4, <1>5, <2>1, NothingIs, BatchIs
  <2>3. Fits(stack[1].results, stack[1].errors)'
    BY <1>4, <1>5, <1>6
  <2> QED
    BY <1>4, <1>5, <2>1, <2>2, <2>3, StaysIs DEF InMulticall, PageStays
<1>8. ~leaked'
  BY <1>1, StaysIs DEF Inside, Leaks
<1> QED
  BY <1>1, <1>3, <1>7, <1>8 DEF Inside, Unanswered, Executing

LEMMA InsideReturn ==
    ASSUME ServerTyped, PageTyped, Queued, Inside, body = <<PageRequest>>, xhr = "served", Served,
           Serves, CallReturned
    PROVE  Inside'
<1>1. phase = "return" /\ stack # <<>> /\ ServedReturn
  BY DEF CallReturned, Inside
<1>2. /\ InMulticall /\ Len(stack[1].results) < Len(batch)
      /\ LET c == batch[Len(stack[1].results) + 1]
         IN  \/ ret.error = "null" /\ LeafResult(ret.result, c)
             \/ ret.error = "error" /\ ret.result = Null
  BY <1>1 DEF ServedReturn
<1>3. ret.error # "nil"
  BY <1>2
<1>4. /\ stack' = Append(Front(stack), NewTop) /\ phase' = "call" /\ UNCHANGED <<body, at, replies, written>>
  BY <1>3, Merges DEF request
<1>5. Len(stack) = 1 /\ Top = stack[1] /\ IsFrame(Top)
  BY <1>1, <1>2, TopIs DEF InMulticall
<1>6. Len(stack') = 1 /\ stack'[1] = NewTop
  <2>1. IsSeq(stack)
    BY DEF ServerTyped
  <2> QED
    BY <1>1, <1>4, <1>5, <2>1, LastIs
<1>7. /\ NewTop.call = PageRequest.call
      /\ NewTop.results = Append(Top.results, ret.result)
      /\ NewTop.errors = IF ret.error = "error" THEN Append(Top.errors, Current) ELSE Top.errors
  BY <1>1, <1>2, <1>5, NewTopIs DEF InMulticall
<1> DEFINE n == Len(Top.results)
<1>8. IsSeq(Top.results) /\ IsSeq(Top.errors) /\ Fits(Top.results, Top.errors) /\ n < Len(batch)
  BY <1>2, <1>5 DEF InMulticall, IsFrame
<1>9. n \in Nat /\ n + 1 \in 1..Len(batch) /\ Len(batch) \in Nat
  BY <1>8, BatchIs, LenProperties DEF IsSeq
<1>10. Current.by = batch[n + 1]
  <2>1. Current = PageRequest.call.args[n + 1]
    BY <1>1, <1>2, <1>5 DEF Current, InMulticall
  <2>2. Len(batch) # 1
    BY <1>2, BatchIs DEF InMulticall
  <2>3. Current = Leaf(batch[n + 1])
    BY <1>9, <2>1, <2>2, PageCall
  <2> QED
    BY <2>3 DEF Leaf
<1>11. Fits(NewTop.results, NewTop.errors)
  BY <1>2, <1>5, <1>7, <1>8, <1>10, FitsNext
<1>12. Len(NewTop.results) <= Len(batch)
  <2>1. Len(NewTop.results) = n + 1
    BY <1>7, <1>8, AppendIs
  <2> QED
    BY <1>8, <1>9, <2>1
<1>13. InMulticall'
  <2>1. Fits(stack[1].results, stack[1].errors)'
    BY <1>6, <1>11, StaysIs
  <2> QED
    BY <1>2, <1>6, <1>7, <1>12, <2>1, StaysIs DEF InMulticall, PageStays
<1>14. ~leaked'
  BY <1>1, StaysIs DEF Inside, Leaks, InCall
<1> QED
  BY <1>4, <1>13, <1>14 DEF Inside, Unanswered, Executing

LEMMA InsideEnds ==
    ASSUME ServerTyped, PageTyped, Queued, SharedContext, Inside, body = <<PageRequest>>, xhr = "served", Served,
           Serves, MulticallEnds, SharedContext'
    PROVE  Inside'
<1>1. /\ phase = "call" /\ stack # <<>> /\ InMulticall /\ stack' = Front(stack) /\ UNCHANGED <<body, at, replies, written, nodes>>
      /\ Len(Top.results) = Len(Top.call.args)
  BY DEF MulticallEnds, Inside, request
<1>2. Item = PageRequest /\ ~Notify /\ Item.context = context /\ Item.context # "none" /\ Item' = Item
  BY <1>1, PageItem DEF Inside, Unanswered, Item
<1>3. Len(stack) = 1 /\ Top = stack[1] /\ IsFrame(Top) /\ IsSeq(stack) /\ Len(batch) # 1 /\ Len(batch) > 1
  BY <1>1, TopIs, BatchIs DEF InMulticall
<1>4. stack' = <<>>
  <2>1. Len(stack') = 0 /\ IsSeq(stack')
    BY <1>1, <1>3, FrontIs
  <2> QED
    BY <2>1, EmptySeq DEF IsSeq
<1>5. phase' = "return" /\ ret' = [result |-> <<Top.results, Top.errors>>, error |-> "null", context |-> Top.contextOut]
  BY <1>2 DEF MulticallEnds, Return
<1>6. ~leaked'
  <2>1. ~Leaks
    BY <1>3 DEF Leaks
  <2>2. ~leaked
    BY <1>1 DEF Inside
  <2> QED
    BY <1>1, <2>1, <2>2, StaysIs
<1>7. PICK r : r = <<Top.results, Top.errors>>
  OBVIOUS
<1>8. Len(Top.results) = Len(batch) /\ r = <<r[1], r[2]>> /\ r[1] = Top.results /\ r[2] = Top.errors
  BY <1>1, <1>3, <1>7, PageCall DEF InMulticall
<1>9. Fits(r[1], r[2])'
  BY <1>1, <1>3, <1>8, StaysIs DEF InMulticall
<1>10. ResultFits(r)'
  BY <1>3, <1>8, <1>9, StaysIs DEF ResultFits, PageStays, IsFrame
<1>11. ret'.result = r /\ ret'.context \in Outs /\ ret'.error = "null"
  BY <1>3, <1>5, <1>7 DEF IsFrame
<1>12. Len(nodes') = 1 /\ nodes'[1] = IF ret'.context = "none" THEN context ELSE Merged(context, ret'.context)
  <2>1. Item'.call.method = "multicall"
    BY <1>2, <1>3, PageCall
  <2> QED
    BY <1>2, <1>4, <1>5, <1>6, <1>11, <2>1 DEF SharedContext, Told
<1>13. ReplyFits(ret)'
  BY <1>3, <1>10, <1>11, <1>12, StaysIs DEF ReplyFits, PageStays
<1> QED
  BY <1>1, <1>4, <1>5, <1>6, <1>11, <1>13 DEF Inside, ServedReturn, Unanswered, Executing

LEMMA InsideReplies ==
    ASSUME ServerTyped, PageTyped, Inside, Serves, Reply \/ ReplyException
    PROVE  Collected'
<1>1. phase' = "data" /\ at' = 2 /\ written' = <<>> /\ nodes' = nodes /\ replies = <<>>
  BY DEF Reply, ReplyException, Inside, Unanswered
<1>2. CASE Reply
  <2>1. stack = <<>> /\ phase = "return" /\ ServedReturn
    BY <1>2 DEF Reply, Inside
  <2>2. ReplyFits(ret) /\ ret.error # "nil"
    BY <2>1, NothingIs DEF ServedReturn, InMulticall
  <2>3. PICK r : r = [to |-> at, result |-> ret.result, error |-> ret.error, context |-> ret.context]
    OBVIOUS
  <2>4. replies' = Append(<<>>, r) /\ r.result = ret.result /\ r.error = ret.error /\ r.context = ret.context
    BY <1>1, <1>2, <2>2, <2>3 DEF Reply, Nothing
  <2>5. Len(replies') = 1 /\ replies'[1] = r
    BY <2>4
  <2>6. ReplyFits(r)'
    <3>1. ret.error # "error" =>
             /\ ResultFits(ret.result) /\ ret.context \in Outs /\ Len(nodes) = 1
             /\ nodes[1] = IF Len(batch) = 1 \/ ret.context = "none" THEN context ELSE Merged(context, ret.context)
      BY <2>2 DEF ReplyFits
    <3>2. \A x : ResultFits(x) => ResultFits(x)'
      BY StaysIs DEF ResultFits, PageStays
    <3> QED
      BY <1>1, <2>4, <3>1, <3>2, StaysIs DEF ReplyFits, PageStays
  <2> QED
    BY <1>1, <2>5, <2>6 DEF Collected
<1>3. CASE ReplyException
  <2>1. Len(replies') = 1 /\ replies'[1].error = "error"
    BY <1>1, <1>3 DEF ReplyException
  <2> QED
    BY <1>1, <2>1 DEF Collected, ReplyFits
<1> QED
  BY <1>2, <1>3

LEMMA FitsStays == \A r : PageStays /\ Serves /\ nodes' = nodes /\ ReplyFits(r) => ReplyFits(r)'
<1>1. Serves => \A x : ResultFits(x) => ResultFits(x)'
  BY StaysIs DEF ResultFits, PageStays
<1> QED
  BY <1>1 DEF ReplyFits, PageStays

LEMMA ServesServed ==
    ASSUME ServerTyped, PageTyped, Queued, SharedContext, Served, Serves, SharedContext'
    PROVE  Served'
<1> SUFFICES ASSUME xhr = "served" PROVE Served'
  BY StaysIs DEF Served, PageStays
<1>1. body = <<PageRequest>> /\ ((phase = "data" /\ Unanswered) \/ Inside \/ Collected \/ Finished)
  BY DEF Served
<1>2. body' = <<PageRequest>>' /\ PageStays /\ JsonRpcNext
  <2>1. body' = body
    BY StaysIs DEF JsonRpcNext, DataGarbage, DataNotObject, ParseRequest, CallMethod, CallUnknown, CallMulticall, BadForm,
                   CallReturned, MulticallEnds, Reply, ReplyException, SendReplies, request
  <2> QED
    BY <1>1, <2>1, StaysIs DEF PageStays
<1>3. CASE phase = "data" /\ Unanswered
  <2>1. Item = PageRequest /\ Item.kind = "request" /\ Len(body) = 1 /\ at = 1
    BY <1>1, <1>3, PageItem DEF Unanswered
  <2>2. ParseRequest
    BY <1>2, <1>3, <2>1 DEF JsonRpcNext, DataGarbage, DataNotObject, CallMethod, CallUnknown, CallMulticall, BadForm,
                            CallReturned, MulticallEnds, Reply, ReplyException, SendReplies, InCall
  <2>3. Item.id # "missing"
    BY <2>1, RequestIs
  <2>4. phase' = "call" /\ stack' = <<>> /\ UNCHANGED <<at, replies, written>>
    BY <2>2, <2>3 DEF ParseRequest, ServerTyped, request
  <2>5. ~leaked'
    BY <1>3, StaysIs
  <2>6. Inside'
    BY <1>3, <2>4, <2>5 DEF Inside, Unanswered, Executing
  <2> QED
    BY <1>2, <2>6 DEF Served
<1>4. CASE Inside
  <2>1. CASE CallMethod \/ CallUnknown
    BY <1>1, <1>2, <1>4, <2>1, InsideCall DEF Served
  <2>2. CASE CallMulticall
    BY <1>1, <1>2, <1>4, <2>2, InsideMulticall DEF Served
  <2>3. CASE CallReturned
    BY <1>1, <1>2, <1>4, <2>3, InsideReturn DEF Served
  <2>4. CASE MulticallEnds
    BY <1>1, <1>2, <1>4, <2>4, InsideEnds DEF Served
  <2>5. CASE Reply \/ ReplyException
    BY <1>1, <1>2, <1>4, <2>5, InsideReplies DEF Served
  <2>6. ~BadForm
    <3>1. \A c \in Calls : method[c] \in UserMethods => Leaf(c).method # "badform"
      BY DEF Leaf, UserMethods
    <3> QED
      BY <3>1, CurrentIs, PageCall DEF BadForm
  <2>7. ~(DataGarbage \/ DataNotObject \/ ParseRequest \/ SendReplies)
    BY <1>4 DEF Inside, Executing, DataGarbage, DataNotObject, ParseRequest, SendReplies
  <2> QED
    BY <1>2, <2>1, <2>2, <2>3, <2>4, <2>5, <2>6, <2>7 DEF JsonRpcNext
<1>5. CASE Collected
  <2>1. Len(body) = 1
    BY <1>1, RequestIs
  <2>2. SendReplies
    BY <1>2, <1>5, <2>1 DEF Collected, JsonRpcNext, DataGarbage, DataNotObject, ParseRequest, CallMethod, CallUnknown,
                            CallMulticall, BadForm, CallReturned, MulticallEnds, Reply, ReplyException, InCall
  <2>3. phase' = "end" /\ written' = <<>> \o replies /\ nodes' = nodes
    BY <1>5, <2>2 DEF SendReplies, Collected, calls
  <2>4. written' = replies
    BY <2>3, ConcatEmptySeq DEF ServerTyped, IsSeq
  <2>5. Len(written') = 1 /\ ReplyFits(written[1])'
    BY <1>2, <1>5, <2>3, <2>4, FitsStays DEF Collected
  <2>6. Finished'
    BY <2>3, <2>5 DEF Finished
  <2> QED
    BY <1>2, <2>6 DEF Served
<1>6. CASE Finished
  BY <1>2, <1>6 DEF Finished, JsonRpcNext, DataGarbage, DataNotObject, ParseRequest, CallMethod, CallUnknown,
                    CallMulticall, BadForm, CallReturned, MulticallEnds, Reply, ReplyException, SendReplies, InCall
<1> QED
  BY <1>1, <1>3, <1>4, <1>5, <1>6

(* Meanwhile the page makes another call. *)
LEMMA ServedKept ==
    ASSUME ServerTyped, PageTyped, Queued, Served, xhr = "served", UNCHANGED <<jvars, batch, xhr, context, leaked>>,
           \A i \in 1..Len(batch) : method'[batch[i]] = method[batch[i]]
    PROVE  Served'
<1> DEFINE n == Len(batch)
<1>1. n \in Nat \ {0} /\ DOMAIN batch = 1..n /\ n \in Nat
  BY PageCall, BatchIs
<1>2. PageRequest' = PageRequest
  BY <1>1 DEF PageRequest, Leaf
<1>3. \A i \in 1..n : \A x : LeafResult(x, batch[i])' <=> LeafResult(x, batch[i])
  BY DEF LeafResult
<1>4. ASSUME NEW results, IsSeq(results), NEW errors, Len(results) <= n, Fits(results, errors)
      PROVE  Fits(results, errors)'
  <2>1. Len(results) \in Nat /\ \A i \in 1..Len(results) : i \in 1..n
    BY <1>1, <1>4, LenProperties DEF IsSeq
  <2>2. PICK g \in [0..Len(results) -> 0..Len(errors)] : FitsBy(results, errors, g)
    BY <1>4 DEF Fits
  <2> HIDE DEF n
  <2>3. FitsBy(results, errors, g)'
    BY <1>3, <2>1, <2>2 DEF FitsBy
  <2> QED
    BY <2>2, <2>3 DEF Fits
<1>5. \A x : ResultFits(x) => ResultFits(x)'
  <2> SUFFICES ASSUME NEW x, ResultFits(x) PROVE ResultFits(x)'
    OBVIOUS
  <2>1. CASE n = 1
    <3>1. LeafResult(x, batch[1])'
      BY <1>1, <1>3, <2>1 DEF ResultFits
    <3> QED
      BY <2>1, <3>1 DEF ResultFits
  <2>2. CASE n # 1
    <3>1. /\ x = <<x[1], x[2]>> /\ IsSeq(x[1]) /\ IsSeq(x[2]) /\ Len(x[1]) = n /\ Fits(x[1], x[2])
      BY <2>2 DEF ResultFits
    <3>2. Fits(x[1], x[2])'
      BY <1>1, <1>4, <3>1
    <3> QED
      BY <2>2, <3>1, <3>2 DEF ResultFits
  <2> QED
    BY <2>1, <2>2
<1>6. \A r : ReplyFits(r) => ReplyFits(r)'
  BY <1>5 DEF ReplyFits, jvars, calls
<1>7. InMulticall => InMulticall'
  <2> SUFFICES ASSUME InMulticall PROVE InMulticall'
    OBVIOUS
  <2>1. stack # <<>> /\ stack' = stack /\ Len(stack) = 1
    <3>1. Len(stack) = 1 /\ stack' = stack
      BY DEF InMulticall, jvars, calls
    <3> QED
      BY <3>1, NothingIs
  <2>2. Top = stack[1] /\ IsFrame(stack[1])
    BY <2>1, TopIs
  <2>3. Fits(stack[1].results, stack[1].errors)'
    BY <1>4, <2>1, <2>2 DEF InMulticall, IsFrame
  <2> QED
    BY <1>2, <2>1, <2>3 DEF InMulticall
<1>8. ServedReturn => ServedReturn'
  <2> SUFFICES ASSUME ServedReturn PROVE ServedReturn'
    OBVIOUS
  <2>1. UNCHANGED <<stack, ret, batch>>
    BY DEF jvars, calls
  <2>2. CASE stack = <<>> /\ ReplyFits(ret) /\ ret.error # "nil"
    <3>1. ReplyFits(ret)'
      BY <1>6, <2>1, <2>2
    <3> QED
      BY <2>1, <2>2, <3>1 DEF ServedReturn
  <2>3. CASE InMulticall /\ Len(stack[1].results) < n
    <3>1. stack # <<>> /\ IsFrame(stack[1])
      <4>1. stack # <<>> /\ Len(stack) = 1
        BY <2>3, NothingIs DEF InMulticall
      <4> QED
        BY <4>1, TopIs
    <3>2. Len(stack[1].results) + 1 \in 1..n
      BY <1>1, <2>3, <3>1, LenProperties DEF IsFrame, IsSeq
    <3>3. \/ stack = <<>>
          \/ LET c == batch[Len(stack[1].results) + 1]
             IN  \/ ret.error = "null" /\ LeafResult(ret.result, c)
                 \/ ret.error = "error" /\ ret.result = Null
      BY DEF ServedReturn
    <3>4. LeafResult(ret.result, batch[Len(stack[1].results) + 1]) => LeafResult(ret.result, batch[Len(stack[1].results) + 1])'
      BY <1>3, <2>1, <3>2
    <3> QED
      BY <1>7, <2>1, <2>3, <3>1, <3>3, <3>4 DEF ServedReturn
  <2> QED
    BY <2>2, <2>3 DEF ServedReturn
<1>9. UNCHANGED <<phase, body, at, stack, ret, replies, written, status>>
  BY DEF jvars, request, calls
<1>10. body' = <<PageRequest>>'
  BY <1>2, <1>9 DEF Served
<1>11. Inside => Inside'
  BY <1>7, <1>8, <1>9 DEF Inside, Unanswered, Executing
<1>12. Collected => Collected'
  BY <1>6, <1>9 DEF Collected
<1>13. Finished => Finished'
  BY <1>6, <1>9 DEF Finished
<1> QED
  BY <1>9, <1>10, <1>11, <1>12, <1>13 DEF Served, Unanswered

LEMMA ServedStep ==
    ServerTyped /\ PageTyped /\ Queued /\ SharedContext /\ Served /\ [RpcNext]_rpcVars /\ SharedContext' => Served'
<1> SUFFICES ASSUME ServerTyped, PageTyped, Queued, SharedContext, Served, [RpcNext]_rpcVars, SharedContext'
             PROVE  Served'
  OBVIOUS
<1>1. CASE xhr' # "served"
  BY <1>1 DEF Served
<1>2. CASE Serves
  BY <1>2, ServesServed
<1>3. CASE Arrives
  <2>1. PageRequest' = PageRequest
    BY <1>3 DEF Arrives, PageRequest, Leaf
  <2>2. OnRequest(<<PageRequest>>, PageOrigin)
    BY <1>3 DEF Arrives
  <2>3. body' = <<PageRequest>>' /\ Unanswered' /\ (phase' = "data" \/ (phase' = "end" /\ status' = 403))
    BY <2>1, <2>2 DEF OnRequest, Unanswered
  <2> QED
    BY <2>3 DEF Served, Finished
<1>4. xhr = "served" => phase # "idle"
  BY DEF Served, Inside, Collected, Finished, Executing
<1>5. ASSUME NEW c \in Calls, NEW m \in Methods \cup Changing, DoCall(c, m), xhr' = "served" PROVE Served'
  <2>1. /\ UNCHANGED <<jvars, batch, xhr, context, leaked>> /\ xhr = "served"
        /\ method' = [method EXCEPT ![c] = m] /\ outcome[c] = "none"
    BY <1>5 DEF DoCall, history
  <2>2. \A i \in 1..Len(batch) : batch[i] \in Calls /\ batch[i] # c
    BY <2>1, BatchIs DEF Queued
  <2>3. \A i \in 1..Len(batch) : method'[batch[i]] = method[batch[i]]
    BY <2>1, <2>2 DEF PageTyped
  <2> QED
    BY <2>1, <2>3, ServedKept
<1>6. CASE UNCHANGED rpcVars /\ xhr' = "served"
  <2>1. UNCHANGED <<jvars, batch, xhr, context, leaked, method>> /\ xhr = "served"
    BY <1>6 DEF rpcVars, page, history
  <2> QED
    BY <2>1, ServedKept
<1>7. SheduleRequest \/ ResponseOk \/ DealOne \/ DealMany \/ DealtAll => xhr' # "served"
  BY DEF SheduleRequest, ResponseOk, DealOne, DealMany, DealtAll
<1>8. Rejects \/ ResponseError \/ ResponseStatus \/ Breaks \/ LoadMethods => xhr' # "served"
  BY DEF Rejects, ResponseError, ResponseStatus, OnConnectionError, Breaks, LoadMethods
<1>9. OthersEnd => xhr' # "served"
  BY DEF OthersEnd, page
<1>10. ASSUME NEW b \in Bodies, NEW origin \in {{}, {"null"}, {"elsewhere"}}, OthersPost(b, origin) PROVE xhr' # "served"
  BY <1>4, <1>10 DEF OthersPost, OnRequest, page
<1>11. ASSUME NEW m \in Changing, MethodsChange(m) PROVE xhr' # "served"
  BY <1>4, <1>11 DEF MethodsChange, RegisterMethod, EraseMethod, page
<1> QED
  BY <1>1, <1>2, <1>3, <1>5, <1>6, <1>7, <1>8, <1>9, <1>10, <1>11 DEF RpcNext, PageNext

LEMMA DealingStep ==
    ServerTyped /\ PageTyped /\ Queued /\ Served /\ Dealing /\ [RpcNext]_rpcVars => Dealing'
<1> SUFFICES ASSUME ServerTyped, PageTyped, Queued, Served, Dealing, [RpcNext]_rpcVars PROVE Dealing'
  OBVIOUS
<1>1. CASE xhr' # "deal" /\ phase' # "dealt"
  BY <1>1 DEF Dealing
<1>2. xhr = "deal" <=> phase = "dealt"
  BY DEF Dealing
<1>3. CASE ResponseOk
  <2>1. /\ xhr = "served" /\ Succeeds /\ xhr' = "deal" /\ phase' = "dealt"
        /\ UNCHANGED <<written, batch, dealt, method, shifted>>
    BY <1>3 DEF ResponseOk, request
  <2>2. PageResponse' = PageResponse /\ ResultFits(PageResponse.result) /\ dealt = [results |-> 0, errors |-> 0]
    BY <2>1, Answered DEF PageResponse, Queued
  <2>3. \A results, errors, g : FitsBy(results, errors, g)' <=> FitsBy(results, errors, g)
    BY <2>1 DEF FitsBy, LeafResult
  <2>4. ResultFits(PageResponse.result)'
    BY <2>1, <2>2, <2>3 DEF ResultFits, Fits, LeafResult
  <2>5. ASSUME Len(batch) > 1
        PROVE  \E g \in [0..Len(batch) -> 0..Len(PageResponse.result[2])] :
                 FitsBy(PageResponse.result[1], PageResponse.result[2], g) /\ g[0] = 0
    BY <2>2, <2>5, BatchIs DEF ResultFits, Fits, FitsBy
  <2>6. dealt'.results = 0 /\ dealt'.errors = 0
    BY <2>1, <2>2
  <2>7. ASSUME Len(batch) > 1
        PROVE  \E g \in [0..Len(batch) -> 0..Len(PageResponse.result[2])] :
                 FitsBy(PageResponse.result[1], PageResponse.result[2], g)' /\ dealt'.errors = g[dealt'.results]
    <3>1. PICK g \in [0..Len(batch) -> 0..Len(PageResponse.result[2])] :
                 FitsBy(PageResponse.result[1], PageResponse.result[2], g) /\ g[0] = 0
      BY <2>5, <2>7
    <3>2. FitsBy(PageResponse.result[1], PageResponse.result[2], g)'
      BY <2>2, <2>3, <3>1
    <3> QED
      BY <2>6, <3>1, <3>2
  <2> QED
    BY <2>1, <2>2, <2>4, <2>7 DEF Dealing
<1>4. CASE DealMany
  BY <1>4, NextResult
<1>5. CASE Serves
  <2>1. xhr' = xhr /\ phase # "dealt" /\ phase' # "dealt"
    BY <1>5 DEF Serves, page, JsonRpcNext, DataGarbage, DataNotObject, ParseRequest, CallMethod, CallUnknown, CallMulticall,
           BadForm, CallReturned, MulticallEnds, Reply, ReplyException, SendReplies, InCall, Raise, Return, Throw
  <2> QED
    BY <1>1, <1>2, <2>1
<1>6. CASE UNCHANGED rpcVars
  BY <1>6 DEF rpcVars, page, jvars, request, history, Dealing, ResultFits, Fits, FitsBy, LeafResult, PageResponse
<1>7. SheduleRequest \/ Rejects => xhr' # "deal" /\ phase' # "dealt"
  BY <1>2 DEF SheduleRequest, Rejects, jvars
<1>8. Arrives \/ DealOne \/ DealtAll \/ ResponseError \/ ResponseStatus => xhr' # "deal" /\ phase' # "dealt"
  BY DEF Arrives, OnRequest, DealOne, DealtAll, ResponseError, ResponseStatus, OnConnectionError, Freed
<1>9. OthersEnd \/ Breaks \/ LoadMethods => xhr' # "deal" /\ phase' # "dealt"
  BY <1>2 DEF OthersEnd, Breaks, LoadMethods, DumpMethods, Freed, page, jvars
<1>10. ASSUME NEW c \in Calls, NEW m \in Methods \cup Changing, DoCall(c, m) PROVE xhr' # "deal" /\ phase' # "dealt"
  BY <1>2, <1>10 DEF DoCall, jvars
<1>11. ASSUME NEW b \in Bodies, NEW origin \in {{}, {"null"}, {"elsewhere"}}, OthersPost(b, origin)
       PROVE  xhr' # "deal" /\ phase' # "dealt"
  BY <1>2, <1>11 DEF OthersPost, OnRequest, page
<1>12. ASSUME NEW m \in Changing, MethodsChange(m) PROVE xhr' # "deal" /\ phase' # "dealt"
  BY <1>2, <1>12 DEF MethodsChange, RegisterMethod, EraseMethod, page
<1> QED
  BY <1>1, <1>3, <1>4, <1>5, <1>6, <1>7, <1>8, <1>9, <1>10, <1>11, <1>12 DEF RpcNext, PageNext

-----------------------------------------------------------------------------
LEMMA RpcInvInit == RpcInit => RpcInv
<1> SUFFICES ASSUME RpcInit PROVE RpcInv
  OBVIOUS
<1>1. phase = "idle" /\ xhr = "idle" /\ requests = <<>> /\ batch = <<>>
  BY DEF RpcInit, JInit
<1>2. AnsweredSoFar /\ RepliesOfRequests /\ NothingReturned /\ SharedContext /\ Served
  BY <1>1 DEF AnsweredSoFar, RepliesOfRequests, NothingReturned, SharedContext, Served, Executing
<1>3. Dealing
  BY <1>1 DEF Dealing
<1>4. Queued
  BY <1>1, NothingIs DEF Queued, RpcInit
<1>5. ListMade /\ Agreed
  BY DEF RpcInit, JInit, ListMade, Agreed
<1>6. OwnOutcome
  BY CallsAre DEF RpcInit, OwnOutcome
<1> QED
  BY <1>2, <1>3, <1>4, <1>5, <1>6, RpcInitTyped DEF RpcInv

LEMMA RpcInvNext == RpcInv /\ [RpcNext]_rpcVars => RpcInv'
<1> SUFFICES ASSUME RpcInv, [RpcNext]_rpcVars PROVE RpcInv'
  OBVIOUS
<1>1. ServerTyped' /\ PageTyped' /\ Queued'
  BY ServerStep, PageStep, QueuesStep DEF RpcInv
<1>2. AnsweredSoFar' /\ RepliesOfRequests' /\ NothingReturned'
  BY AnsweredStep, RepliesStep, ReturnsStep DEF RpcInv
<1>3. SharedContext'
  BY SharedStep DEF RpcInv
<1>4. Served' /\ Dealing'
  BY <1>3, ServedStep, DealingStep DEF RpcInv
<1>5. ListMade' /\ OwnOutcome' /\ Agreed'
  BY ListStep, OwnStep, AgreedStep DEF RpcInv
<1> QED
  BY <1>1, <1>2, <1>3, <1>4, <1>5 DEF RpcInv

LEMMA RpcInvConsistent == RpcInv => RpcConsistent
<1> SUFFICES ASSUME RpcInv PROVE RpcConsistent
  OBVIOUS
<1>1. RpcTypeOK
  <2>1. \A k \in DOMAIN nodes : nodes[k] \in Values
    BY LenProperties DEF RpcInv, ServerTyped
  <2> QED
    BY <2>1 DEF RpcInv, ServerTyped, PageTyped, RpcTypeOK
<1>2. ContextTold
  <2>1. phase = "return" /\ stack = <<>> /\ Item.call.method = "multicall" /\ Item.context # "none"
          /\ ret.error = "null" /\ ~leaked => Told
    BY DEF RpcInv, SharedContext
  <2> QED
    BY <2>1 DEF RpcInv, ContextTold, Agreed, Told
<1>3. ListKnown
  BY DEF RpcInv, ListMade, ListKnown
<1> QED
  BY <1>1, <1>2, <1>3 DEF RpcInv, RpcConsistent

(* What the server answers, what the page and the server make of the       *)
(* context, the list of methods and the outcome of each call are as they   *)
(* should be, whatever is posted, fails or changes (jsonRpc.cpp, rpc.js).  *)
THEOREM RpcAlwaysConsistent == RpcSpec => []RpcConsistent
<1>1. RpcInit => RpcInv
  BY RpcInvInit
<1>2. RpcInv /\ [RpcNext]_rpcVars => RpcInv'
  BY RpcInvNext
<1>3. RpcInv => RpcConsistent
  BY RpcInvConsistent
<1> QED
  BY <1>1, <1>2, <1>3, PTL DEF RpcSpec

LEMMA PromisesStep == RpcInv /\ [RpcNext]_rpcVars => [Promises!Next]_outcome
<1> SUFFICES ASSUME RpcInv, [RpcNext]_rpcVars PROVE Promises!Next \/ outcome' = outcome
  OBVIOUS
<1>1. CASE DealOne \/ DealMany \/ Rejects
  <2>1. PICK c \in Calls : \E o \in {c, "failed"} : SettlesAs(c, o)
    BY <1>1, NextResult, OneSettles DEF Settled, RpcInv
  <2>2. Promises!Settle(c)
    BY <2>1 DEF SettlesAs, Promises!Settle
  <2> QED
    BY <2>2 DEF Promises!Next
<1>2. ASSUME NEW c \in Calls, NEW m \in Methods \cup Changing, DoCall(c, m) PROVE Promises!Next
  BY <1>2 DEF DoCall, Promises!Next, Promises!Make
<1>3. CASE SheduleRequest \/ Arrives \/ ResponseOk \/ DealtAll \/ ResponseError \/ ResponseStatus \/ OthersEnd
  BY <1>3 DEF SheduleRequest, Arrives, ResponseOk, DealtAll, ResponseError, ResponseStatus, OthersEnd, page
<1>4. CASE Serves \/ Breaks \/ LoadMethods \/ UNCHANGED rpcVars
  BY <1>4 DEF Serves, Breaks, LoadMethods, rpcVars, page
<1>5. ASSUME NEW b \in Bodies, NEW origin \in {{}, {"null"}, {"elsewhere"}}, OthersPost(b, origin) PROVE outcome' = outcome
  BY <1>5 DEF OthersPost, page
<1>6. ASSUME NEW m \in Changing, MethodsChange(m) PROVE outcome' = outcome
  BY <1>6 DEF MethodsChange, page
<1> QED
  BY <1>1, <1>2, <1>3, <1>4, <1>5, <1>6 DEF RpcNext, PageNext

(* The page implements the promise of the client's interface: each call is *)
(* settled at most once, by its own result or by a failure.                *)
THEOREM PageSettlesOnce == RpcSpec => EachCallOnce
<1>1. RpcInit => RpcInv /\ Promises!Init
  BY RpcInvInit DEF RpcInit, Promises!Init
<1>2. RpcInv /\ [RpcNext]_rpcVars => RpcInv' /\ [Promises!Next]_outcome
  BY RpcInvNext, PromisesStep
<1> QED
  BY <1>1, <1>2, PTL DEF RpcSpec, EachCallOnce, Promises!Spec
=============================================================================
