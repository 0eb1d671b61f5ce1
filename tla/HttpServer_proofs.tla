------------------------- MODULE HttpServer_proofs -------------------------
(***************************************************************************)
(* Theorems about Sites, Jobs and HttpServer, for any connections, maps of *)
(* sites, behaviours of handlers, requests and first jobs; and at the end  *)
(* about BusyThreads, which limits the handlers at work.                   *)
(***************************************************************************)
EXTENDS HttpServer, BusyThreads, SequenceTheorems, FiniteSetTheorems, NaturalsInduction,
        WellFoundedInduction, TLAPS

SiteHandlers == DOMAIN does
HostMappings == [path : Seq(PathParts), target : Seq(PathParts)]
FrameRecords == [path : Seq(PathParts), below : Nat, h : SiteHandlers \cup {None}]

(* Types of what the threads of connections use.                           *)
Typed ==
    /\ does \in Behaviours
    /\ pathMap \in [Keys -> SiteHandlers] /\ hostMap \in [DOMAIN hostMap -> HostMappings]
    /\ held \in [Threads -> Nat] /\ writers \subseteq Threads
    /\ at \in [Conns -> Places]
    /\ vpath \in [Conns -> Seq(PathParts)] /\ frames \in [Conns -> Seq(FrameRecords)]
    /\ curHandler \in [Conns -> SiteHandlers \cup {None}]
    /\ mapped = [t \in Conns |-> mapped[t]] /\ chain \in [Conns -> Seq(SiteHandlers)]
    /\ requests \in 0..MaxRequests

(* A thread holds the map's lock once for each search it is inside.        *)
Locks == (\A t \in Conns : held[t] = Len(frames[t])) /\ (\A t \in Others : held[t] = 0)

Called == Calls \cup {"stuck"}

(* A search has come down to below: the keys behind it all passed, and the *)
(* handler it stands at is the one of the key there.                       *)
FrameRight(f) ==
    LET keys == Matches(f.path) \cap Keys
    IN  /\ \A k \in keys : Len(k) > f.below => does[pathMap[k]] = "pass"
        /\ f.h = None => f.below = Len(f.path) + 1
        /\ f.h # None => \E k \in keys : Len(k) = f.below /\ pathMap[k] = f.h
(* The map a thread has locked is the map there is, and each search it is  *)
(* inside is right; all but the last stand at a handler.                   *)
LookupOf(t) ==
    /\ frames[t] # <<>> => mapped[t] = pathMap
    /\ \A n \in 1..Len(frames[t]) : FrameRight(frames[t][n]) /\ (n < Len(frames[t]) => frames[t][n].h # None)

(* The first n handlers of the chain are those that forward the request,   *)
(* one for each search.                                                    *)
Forwarders(t, n) == \A i \in 1..n : chain[t][i] = frames[t][i].h
(* Where a thread is tells how many searches it is inside, what its chain  *)
(* of handlers is and which one takes the data.                            *)
ChainOf(t) ==
    LET n == Len(frames[t])
        m == Len(chain[t])
    IN  /\ at[t] \in {"idle", "map", "data"} => n = 0
        /\ at[t] = "map" => m = 0 /\ curHandler[t] = None
        /\ at[t] = "find" => m = n /\ curHandler[t] = None /\ Forwarders(t, n) /\ (n > 0 => frames[t][n].h # None)
        /\ at[t] \in Called \cup {"next"} => n = m + 1 /\ curHandler[t] = None /\ Forwarders(t, m)
        /\ at[t] \in Called => frames[t][n].h # None
        /\ at[t] \in {"pass", "forward"} => does[frames[t][n].h] = at[t]
        /\ at[t] = "next" /\ frames[t][n].h # None => does[frames[t][n].h] = "pass"
        /\ at[t] = "forwarded" =>
             /\ n >= 1 /\ m >= n /\ Forwarders(t, n) /\ frames[t][n].h # None
             /\ curHandler[t] = IF m = n THEN None ELSE chain[t][n + 1]
        /\ at[t] = "data" => m >= 1 /\ curHandler[t] = IF m > 1 THEN chain[t][2] ELSE chain[t][1]

SitesInv == Typed /\ Locks /\ \A t \in Conns : LookupOf(t) /\ ChainOf(t)

(* A set of numbers has a least one.                                       *)
LEMMA LeastNumber ==
    ASSUME NEW I, I \subseteq Nat, I # {}
    PROVE  \E n \in I : \A m \in I : n <= m
<1> DEFINE R == OpToRel(<, Nat)
<1>1. \E n \in I : \A m \in I : ~ (<<m, n>> \in R)
  <2> HIDE DEF R
  <2>1. IsWellFoundedOn(R, Nat)
    BY NatLessThanWellFounded DEF R
  <2> QED
    BY <2>1, WFMin
<1>2. \A m, n \in Nat : ~ (<<m, n>> \in R) => n <= m
  BY DEF OpToRel
<1> QED
  BY <1>1, <1>2

(* A path cut at its query is a path, and not longer.                      *)
LEMMA WithoutQueryShort ==
    ASSUME NEW s \in Seq(PathParts)
    PROVE  WithoutQuery(s) \in Seq(PathParts) /\ Len(WithoutQuery(s)) <= Len(s)
<1> DEFINE I == {i \in 1..Len(s) : s[i] = "?"}
<1>1. CASE I = {}
  <2>1. First(s, "?") = 0
    BY <1>1 DEF First, SelectInSeq
  <2> QED
    BY <2>1 DEF WithoutQuery
<1>2. CASE I # {}
  <2>1. First(s, "?") = Min(I)
    BY <1>2 DEF First, SelectInSeq
  <2>2. Min(I) \in I
    <3> HIDE DEF I
    <3>1. I \subseteq Nat
      BY DEF I
    <3>2. PICK n \in I : \A m \in I : n <= m
      BY <1>2, <3>1, LeastNumber
    <3> QED
      BY <3>2 DEF Min
  <2>3. First(s, "?") \in 1..Len(s)
    BY <2>1, <2>2
  <2>4. WithoutQuery(s) = SubSeq(s, 1, First(s, "?") - 1)
    BY <2>3 DEF WithoutQuery
  <2> QED
    BY <2>3, <2>4
<1> QED
  BY <1>1, <1>2

(* The keys that match a path are its beginnings, and one of them is       *)
(* empty.                                                                  *)
LEMMA MatchesFacts ==
    ASSUME NEW path \in Seq(PathParts)
    PROVE  /\ \A k \in Matches(path) : k \in Seq(PathParts) /\ Len(k) \in Nat /\ Len(k) <= Len(path)
           /\ \A j, k \in Matches(path) : Len(j) = Len(k) => j = k
<1> DEFINE p == WithoutQuery(path)
<1>1. p \in Seq(PathParts) /\ Len(p) <= Len(path) /\ Len(p) \in Nat /\ Len(path) \in Nat
  BY WithoutQueryShort
<1>2. \A k \in Matches(path) : \E n \in 0..Len(p) : k = SubSeq(p, 1, n)
  BY DEF Matches
<1> HIDE DEF p
<1>3. \A n \in 0..Len(p) : SubSeq(p, 1, n) \in Seq(PathParts) /\ Len(SubSeq(p, 1, n)) = n
  BY <1>1
<1> QED
  BY <1>1, <1>2, <1>3

(* nextKey returns the longest matching key that is shorter than the last  *)
(* one, or there is none.                                                  *)
LEMMA NextKeyFacts ==
    ASSUME NEW map, NEW path \in Seq(PathParts), NEW below \in Nat, KeysBelow(map, path, below) # {}
    PROVE  /\ NextKey(map, path, below) \in KeysBelow(map, path, below)
           /\ \A k \in KeysBelow(map, path, below) : Len(k) <= Len(NextKey(map, path, below))
<1> DEFINE keys == KeysBelow(map, path, below)
           I == {m \in Nat : \E k \in keys : m = Len(path) - Len(k)}
<1>1. \A k \in keys : Len(k) \in Nat /\ Len(k) <= Len(path)
  BY MatchesFacts DEF KeysBelow
<1>2. I # {} /\ I \subseteq Nat
  <2>1. PICK k \in keys : TRUE
    OBVIOUS
  <2>2. Len(path) - Len(k) \in I
    BY <1>1, <2>1
  <2> QED
    BY <2>2
<1>3. PICK n \in I : \A m \in I : n <= m
  BY <1>2, LeastNumber
<1>4. PICK k \in keys : n = Len(path) - Len(k)
  BY <1>3
<1>5. \A j \in keys : Len(j) <= Len(k)
  <2> SUFFICES ASSUME NEW j \in keys PROVE Len(j) <= Len(k)
    OBVIOUS
  <2>1. Len(path) - Len(j) \in I
    BY <1>1
  <2> QED
    <3>1. n <= Len(path) - Len(j)
      BY <1>3, <2>1
    <3>2. Len(path) \in Nat /\ Len(j) \in Nat /\ Len(k) \in Nat
      BY <1>1, <1>4
    <3> HIDE DEF keys, I
    <3> QED
      BY <1>4, <3>1, <3>2
<1> QED
  BY <1>4, <1>5 DEF NextKey

(* A frame that is put on a stack, taken from it or changed on its top     *)
(* leaves those below as they are.                                         *)
LEMMA StackFacts ==
    ASSUME NEW S, NEW s \in Seq(S), s # <<>>
    PROVE  /\ Len(s) \in Nat /\ Len(s) >= 1 /\ Last(s) = s[Len(s)] /\ Last(s) \in S
           /\ Front(s) \in Seq(S) /\ Len(Front(s)) = Len(s) - 1
           /\ \A i \in 1..Len(s) - 1 : Front(s)[i] = s[i]
           /\ \A f \in S : /\ Append(Front(s), f) \in Seq(S) /\ Len(Append(Front(s), f)) = Len(s)
                             /\ Append(Front(s), f)[Len(s)] = f
                             /\ \A i \in 1..Len(s) - 1 : Append(Front(s), f)[i] = s[i]
<1> DEFINE n == Len(s) - 1
           r == SubSeq(s, 1, n)
<1>1. Len(s) \in Nat /\ Len(s) >= 1 /\ n \in 0..Len(s)
  OBVIOUS
<1>2. Last(s) = s[Len(s)] /\ s[Len(s)] \in S /\ Front(s) = r
  BY <1>1 DEF Last, Front
<1>3. r \in Seq(S) /\ Len(r) = n /\ \A i \in 1..n : r[i] = s[i]
  <2>1. \A i \in 1..n : s[i] \in S
    BY <1>1
  <2>2. 1 \in Int /\ n \in Int /\ n - 1 + 1 = n
    BY <1>1
  <2>3. /\ r \in Seq(S) /\ Len(r) = IF 1 <= n THEN n - 1 + 1 ELSE 0
        /\ \A i \in 1..n - 1 + 1 : r[i] = s[1 + i - 1]
    <3> HIDE DEF n
    <3> QED
      BY <2>1, <2>2, SubSeqProperties
  <2>4. n \in Nat /\ n - 1 + 1 = n /\ (\A i \in 1..n : 1 + i - 1 = i) /\ (n < 1 => n = 0)
    <3>1. n \in Nat
      BY <1>1
    <3> HIDE DEF n
    <3> QED
      BY <3>1
  <2>5. \A i \in 1..n : r[i] = s[i]
    <3> HIDE DEF r, n
    <3> QED
      BY <2>3, <2>4
  <2>6. Len(r) = n
    <3> HIDE DEF r, n
    <3> QED
      BY <2>3, <2>4
  <2> QED
    BY <2>3, <2>5, <2>6
<1>4. \A f \in S : /\ Append(r, f) \in Seq(S) /\ Len(Append(r, f)) = Len(s) /\ Append(r, f)[Len(s)] = f
                    /\ \A i \in 1..n : Append(r, f)[i] = s[i]
  <2> HIDE DEF r
  <2> QED
    BY <1>1, <1>3
<1> QED
  BY <1>1, <1>2, <1>3, <1>4

LEMMA PushFacts ==
    ASSUME NEW S, NEW s \in Seq(S), NEW f \in S
    PROVE  /\ Append(s, f) \in Seq(S) /\ Len(Append(s, f)) = Len(s) + 1 /\ Len(s) \in Nat
           /\ Append(s, f)[Len(s) + 1] = f
           /\ \A i \in 1..Len(s) : Append(s, f)[i] = s[i]
OBVIOUS

(* A thread's step leaves the others where they are. *)
LEMMA OthersKept ==
    ASSUME SitesInv, NEW t \in Conns, UNCHANGED <<does, pathMap>>,
           \A u \in Conns : u # t => UNCHANGED <<frames[u], at[u], chain[u], curHandler[u], mapped[u]>>,
           LookupOf(t)', ChainOf(t)'
    PROVE  \A u \in Conns : LookupOf(u)' /\ ChainOf(u)'
<1> SUFFICES ASSUME NEW u \in Conns, u # t PROVE LookupOf(u)' /\ ChainOf(u)'
  OBVIOUS
<1>1. LookupOf(u) /\ ChainOf(u)
  BY DEF SitesInv
<1>2. \A f : FrameRight(f) => FrameRight(f)'
  BY DEF FrameRight, Keys
<1>3. LookupOf(u)'
  BY <1>1, <1>2 DEF LookupOf
<1>4. ChainOf(u)'
  <2>1. \A n : Forwarders(u, n) => Forwarders(u, n)'
    BY DEF Forwarders
  <2> QED
    BY <1>1, <2>1 DEF ChainOf
<1> QED
  BY <1>3, <1>4

ConnStep(t) ==
    \/ RequestStep(t)
    \/ /\ at[t] = "cancel" /\ Goto(t, "take")
       /\ UNCHANGED <<does, maps, held, writers, vpath, frames, curHandler, alive, history, requests>>

(* Types.                                                                  *)
LEMMA TypedConn ==
    ASSUME SitesInv, NEW t \in Conns, ConnStep(t)
    PROVE  Typed'
<1> USE DEF SiteHandlers, Threads
<1>0. Typed /\ ChainOf(t)
  BY DEF SitesInv
<1>1. ASSUME UNCHANGED <<does, maps, held, writers, vpath, frames, curHandler, mapped, chain, requests>>,
             NEW p \in Places, Goto(t, p)
      PROVE  Typed'
  BY <1>0, <1>1 DEF Typed, maps, Goto, Keys, FrameRecords
<1>2. ASSUME MapHost(t) PROVE Typed'
  <2>1. Mapping(source[t].host) \in HostMappings
    <3>1. "/" \in PathParts
      BY DEF PathParts
    <3>2. DefaultMapping \in HostMappings
      BY <3>1 DEF DefaultMapping, HostMappings
    <3> QED
      BY <1>0, <3>2 DEF Mapping, Typed
  <2>2. ASSUME NEW m \in HostMappings PROVE MapRequest(m, vpath[t]) \in Seq(PathParts)
    <3>1. vpath[t] \in Seq(PathParts) /\ m.target \in Seq(PathParts) /\ m.path \in Seq(PathParts)
      BY <1>0 DEF Typed, HostMappings
    <3>2. SubSeq(vpath[t], Len(m.path) + 1, Len(vpath[t])) \in Seq(PathParts)
      BY <3>1, SubSeqProperties
    <3> QED
      BY <3>1, <3>2 DEF MapRequest, Offset
  <2> DEFINE m == Mapping(source[t].host)
  <2>3. MapRequest(m, vpath[t]) \in Seq(PathParts) /\ <<>> \in Seq(PathParts)
    BY <2>1, <2>2
  <2> HIDE DEF m
  <2>4. vpath' \in [Conns -> Seq(PathParts)]
    BY <1>0, <1>2, <2>3 DEF MapHost, Typed, m
  <2>5. at' \in [Conns -> Places]
    <3>1. Goto(t, "find") \/ Goto(t, "idle")
      BY <1>2 DEF MapHost
    <3> QED
      BY <1>0, <3>1 DEF Typed, Goto, Places
  <2> QED
    BY <1>0, <1>2, <2>4, <2>5 DEF MapHost, Typed, maps, Keys, FrameRecords
<1>3. ASSUME CallHandler(t) PROVE Typed'
  <2>1. [path |-> vpath[t], below |-> Len(vpath[t]) + 1, h |-> None] \in FrameRecords
    BY <1>0 DEF FrameRecords, Typed
  <2>2. frames' \in [Conns -> Seq(FrameRecords)]
    BY <1>0, <1>3, <2>1, PushFacts DEF CallHandler, Typed
  <2>3. held' \in [Threads -> Nat] /\ at' \in [Conns -> Places]
    BY <1>0, <1>3 DEF CallHandler, Typed, Goto, Places
  <2>4. mapped' = [u \in Conns |-> mapped'[u]]
    BY <1>0, <1>3 DEF CallHandler, Typed
  <2> QED
    BY <1>0, <1>3, <2>2, <2>3, <2>4 DEF CallHandler, Typed, maps, Keys, FrameRecords
<1>4. ASSUME frames[t] # <<>>, NEW h \in SiteHandlers \cup {None}, Return(t, h)
      PROVE  /\ held' \in [Threads -> Nat] /\ at' \in [Conns -> Places]
             /\ frames' \in [Conns -> Seq(FrameRecords)] /\ curHandler' \in [Conns -> SiteHandlers \cup {None}]
  <2>1. held[t] = Len(frames[t]) /\ Len(frames[t]) >= 1 /\ Front(frames[t]) \in Seq(FrameRecords)
    BY <1>0, <1>4, StackFacts DEF SitesInv, Locks, Typed
  <2>2. held' \in [Threads -> Nat]
    BY <1>0, <1>4, <2>1 DEF Return, Typed
  <2>3. at' \in [Conns -> Places]
    BY <1>0, <1>4 DEF Return, Typed, Goto, Places
  <2> QED
    BY <1>0, <1>4, <2>1, <2>2, <2>3 DEF Return, Typed
<1>5. ASSUME frames[t] # <<>> PROVE Top(t) \in FrameRecords
  BY <1>0, <1>5, StackFacts DEF Top, Typed
<1>50. ASSUME at[t] \in Called
       PROVE  frames[t] # <<>> /\ Top(t).h \in SiteHandlers /\ Top(t).h = frames[t][Len(frames[t])].h
  <2>1. Len(frames[t]) = Len(chain[t]) + 1 /\ frames[t][Len(frames[t])].h # None
    BY <1>0, <1>50 DEF ChainOf
  <2>2. frames[t] # <<>>
    BY <1>0, <2>1 DEF Typed
  <2>3. Top(t) = frames[t][Len(frames[t])]
    <3>1. frames[t] \in Seq(FrameRecords)
      BY <1>0 DEF Typed
    <3>2. Last(frames[t]) = frames[t][Len(frames[t])]
      BY <2>2, <3>1, StackFacts
    <3> QED
      BY <3>2 DEF Top
  <2> QED
    BY <1>5, <2>1, <2>2, <2>3 DEF FrameRecords
<1>6. ASSUME NextHandler(t) PROVE Typed'
  <2>1. frames[t] # <<>>
    BY <1>0, <1>6 DEF NextHandler, ChainOf, Typed
  <2> DEFINE keys == KeysBelow(pathMap, Top(t).path, Top(t).below)
  <2>2. CASE keys = {}
    <3>1. Return(t, None)
      BY <1>6, <2>2 DEF NextHandler
    <3> QED
      BY <1>0, <1>4, <1>6, <2>1, <3>1 DEF NextHandler, Typed, maps, Keys, FrameRecords
  <2>3. CASE keys # {}
    <3> DEFINE key == NextKey(pathMap, Top(t).path, Top(t).below)
               f == [Top(t) EXCEPT !.below = Len(key), !.h = pathMap[key]]
    <3>1. key \in Keys /\ Len(key) \in Nat
      BY <1>5, <2>1, <2>3, NextKeyFacts, MatchesFacts DEF KeysBelow, Keys, FrameRecords
    <3>2. pathMap[key] \in SiteHandlers /\ does[pathMap[key]] \in Calls
      BY <1>0, <3>1, SitesAssumption DEF Typed
    <3>3. Frame(t, f) /\ Goto(t, does[pathMap[key]]) /\ UNCHANGED <<held, curHandler>>
      BY <1>6, <2>3 DEF NextHandler
    <3>4. f \in FrameRecords
      BY <1>5, <2>1, <3>1, <3>2 DEF FrameRecords
    <3> HIDE DEF f, key
    <3>5. frames' \in [Conns -> Seq(FrameRecords)]
      BY <1>0, <2>1, <3>3, <3>4, StackFacts DEF Frame, Typed
    <3>6. at' \in [Conns -> Places]
      BY <1>0, <3>2, <3>3 DEF Goto, Typed, Places
    <3> QED
      BY <1>0, <1>6, <3>3, <3>5, <3>6 DEF NextHandler, Typed, maps, Keys, FrameRecords
  <2> QED
    BY <2>2, <2>3
<1>7. ASSUME Take(t) PROVE Typed'
  <2>1. frames[t] # <<>> /\ Top(t).h \in SiteHandlers
    BY <1>7, <1>50 DEF Take, Called, Calls
  <2>2. chain' \in [Conns -> Seq(SiteHandlers)]
    BY <1>0, <1>7, <2>1, PushFacts DEF Take, Typed
  <2> QED
    BY <1>0, <1>4, <1>7, <2>1, <2>2 DEF Take, Typed, maps, Keys, FrameRecords
<1>8. ASSUME Forward(t) PROVE Typed'
  <2>1. frames[t] # <<>> /\ Top(t).h \in SiteHandlers /\ does[Top(t).h] = "forward"
    <3>1. frames[t] # <<>> /\ Top(t).h \in SiteHandlers /\ Top(t).h = frames[t][Len(frames[t])].h
      BY <1>8, <1>50 DEF Forward, Called, Calls
    <3>2. does[frames[t][Len(frames[t])].h] = "forward"
      BY <1>0, <1>8 DEF Forward, ChainOf
    <3> QED
      BY <3>1, <3>2
  <2>2. chain' \in [Conns -> Seq(SiteHandlers)] /\ vpath' \in [Conns -> Seq(PathParts)] /\ at' \in [Conns -> Places]
    BY <1>0, <1>8, <2>1, PushFacts, SitesAssumption DEF Forward, Typed, Goto, Places
  <2> QED
    BY <1>0, <1>8, <2>2 DEF Forward, Typed, maps, Keys, FrameRecords
<1>9. ASSUME Forwarded(t) PROVE Typed'
  <2>1. frames[t] # <<>> /\ Top(t).h \in SiteHandlers \cup {None}
    BY <1>0, <1>5, <1>9 DEF Forwarded, ChainOf, Typed, FrameRecords
  <2> QED
    BY <1>0, <1>4, <1>9, <2>1 DEF Forwarded, Typed, maps, history, Keys, FrameRecords
<1>10. ASSUME EditInside(t) PROVE Typed'
  BY <1>0, <1>10 DEF EditInside, Typed, Goto, Places, maps, history, Keys, FrameRecords
<1>11. ASSUME Data(t) PROVE Typed'
  <2>1. at' \in [Conns -> Places]
    BY <1>0, <1>11 DEF Data, Typed, Goto, Places
  <2>2. vpath' \in [Conns -> Seq(PathParts)] /\ chain' \in [Conns -> Seq(SiteHandlers)]
    <3>1. <<>> \in Seq(PathParts) /\ <<>> \in Seq(SiteHandlers)
      OBVIOUS
    <3> QED
      BY <1>0, <1>11, <3>1 DEF Data, Typed
  <2>3. curHandler' \in [Conns -> SiteHandlers \cup {None}]
    BY <1>0, <1>11 DEF Data, Typed
  <2>4. mapped' = [u \in Conns |-> mapped'[u]]
    BY <1>0, <1>11 DEF Data, Typed
  <2> QED
    BY <1>0, <1>11, <2>1, <2>2, <2>3, <2>4 DEF Data, Typed, maps, Keys, FrameRecords
<1>12. ASSUME Pass(t) PROVE Typed'
  BY <1>1, <1>12 DEF Pass, Places, history
<1>13. ASSUME at[t] = "cancel" /\ Goto(t, "take") /\ UNCHANGED <<does, maps, held, writers, vpath, frames, curHandler, alive, history, requests>>
       PROVE  Typed'
  BY <1>1, <1>13 DEF Places, Calls, history
<1> QED
  BY <1>2, <1>3, <1>6, <1>7, <1>8, <1>9, <1>10, <1>11, <1>12, <1>13 DEF ConnStep, RequestStep

-----------------------------------------------------------------------------
(* The frames stay right when one more handler is looked for, and when the *)
(* next one is called.                                                     *)
LEMMA FirstRight ==
    ASSUME Typed, NEW p \in Seq(PathParts)
    PROVE  FrameRight([path |-> p, below |-> Len(p) + 1, h |-> None])
<1> DEFINE f == [path |-> p, below |-> Len(p) + 1, h |-> None]
<1>1. f.path = p /\ f.below = Len(p) + 1 /\ f.h = None
  OBVIOUS
<1>2. \A k \in Matches(p) : ~ (Len(k) > Len(p) + 1)
  <2>1. \A k \in Matches(p) : Len(k) \in Nat /\ Len(k) <= Len(p)
    BY MatchesFacts
  <2> QED
    BY <2>1
<1> HIDE DEF f
<1> QED
  BY <1>1, <1>2 DEF FrameRight

LEMMA NextRight ==
    ASSUME Typed, NEW f \in FrameRecords, FrameRight(f), f.h # None => does[f.h] = "pass",
           NEW key, key = NextKey(pathMap, f.path, f.below), KeysBelow(pathMap, f.path, f.below) # {}
    PROVE  FrameRight([f EXCEPT !.below = Len(key), !.h = pathMap[key]])
<1> DEFINE keys == KeysBelow(pathMap, f.path, f.below)
           g == [f EXCEPT !.below = Len(key), !.h = pathMap[key]]
<1>1. f.path \in Seq(PathParts) /\ f.below \in Nat
  BY DEF FrameRecords
<1>2. key \in keys /\ \A k \in keys : Len(k) <= Len(key)
  BY <1>1, NextKeyFacts
<1>3. g.path = f.path /\ g.below = Len(key) /\ g.h = pathMap[key]
  BY DEF FrameRecords
<1>4. key \in Matches(f.path) \cap Keys /\ pathMap[key] # None
  <2>1. key \in Matches(f.path) \cap Keys
    BY <1>2 DEF KeysBelow, Keys
  <2> QED
    BY <2>1, SitesAssumption DEF Typed, SiteHandlers
<1>5. ASSUME NEW k \in Matches(f.path) \cap Keys, Len(k) > Len(key) PROVE does[pathMap[k]] = "pass"
  <2>1. /\ Len(k) \in Nat /\ Len(key) \in Nat /\ Len(k) <= Len(f.path) /\ Len(f.path) \in Nat
        /\ \A j \in Matches(f.path) : Len(j) = Len(k) => j = k
    BY <1>1, <1>4, <1>5, MatchesFacts
  <2>2. ~ (Len(k) < f.below)
    BY <1>2, <1>5, <2>1 DEF KeysBelow, Keys
  <2>3. CASE Len(k) > f.below
    BY <2>3 DEF FrameRight
  <2>4. CASE Len(k) = f.below
    <3>1. f.h # None
      BY <2>1, <2>4 DEF FrameRight
    <3>2. PICK j \in Matches(f.path) \cap Keys : Len(j) = f.below /\ pathMap[j] = f.h
      BY <3>1 DEF FrameRight
    <3> QED
      BY <2>1, <2>4, <3>1, <3>2
  <2> QED
    BY <1>1, <2>1, <2>2, <2>3, <2>4
<1> HIDE DEF g
<1> QED
  BY <1>3, <1>4, <1>5 DEF FrameRight

(* callHandler returns. *)
LEMMA Returned ==
    ASSUME SitesInv, NEW t \in Conns, NEW h \in SiteHandlers \cup {None}, Return(t, h), frames[t] # <<>>,
           UNCHANGED <<does, pathMap, mapped>>
    PROVE  /\ LookupOf(t)'
           /\ Len(frames[t]) \in Nat \ {0} /\ Len(frames'[t]) = Len(frames[t]) - 1
           /\ \A i \in 1..Len(frames[t]) - 1 : frames'[t][i] = frames[t][i] /\ frames[t][i].h # None
           /\ curHandler'[t] = IF h # None /\ (Len(frames[t]) > 1 \/ curHandler[t] = None) THEN h ELSE curHandler[t]
           /\ at'[t] = IF Len(frames[t]) > 1 THEN "forwarded" ELSE IF h = None THEN "idle" ELSE "data"
           /\ \A u \in Conns \ {t} : UNCHANGED <<frames[u], at[u], curHandler[u]>>
<1>1. Typed /\ LookupOf(t)
  BY DEF SitesInv
<1>2. frames[t] \in Seq(FrameRecords) /\ frames'[t] = Front(frames[t])
  BY <1>1 DEF Typed, Return
<1>3. /\ Len(frames[t]) \in Nat /\ Len(frames[t]) >= 1 /\ Len(frames'[t]) = Len(frames[t]) - 1
      /\ \A i \in 1..Len(frames[t]) - 1 : frames'[t][i] = frames[t][i]
  BY <1>2, StackFacts
<1>4. \A i \in 1..Len(frames[t]) - 1 : i \in 1..Len(frames[t]) /\ i < Len(frames[t])
  BY <1>3
<1>5. \A f : FrameRight(f) => FrameRight(f)'
  BY DEF FrameRight, Keys
<1>6. LookupOf(t)'
  <2>1. mapped'[t] = pathMap'
    BY <1>1 DEF LookupOf
  <2>2. ASSUME NEW i \in 1..Len(frames'[t]) PROVE FrameRight(frames[t][i])' /\ (frames[t][i].h # None)'
    <3>1. frames'[t][i] = frames[t][i] /\ i \in 1..Len(frames[t]) /\ i < Len(frames[t])
      BY <1>3, <1>4, <2>2
    <3> QED
      BY <1>1, <1>5, <3>1 DEF LookupOf
  <2> QED
    BY <2>1, <2>2 DEF LookupOf
<1>7. /\ curHandler'[t] = IF h # None /\ (Len(frames[t]) > 1 \/ curHandler[t] = None) THEN h ELSE curHandler[t]
      /\ at'[t] = IF Len(frames[t]) > 1 THEN "forwarded" ELSE IF h = None THEN "idle" ELSE "data"
  BY <1>1 DEF Typed, Return, Goto
<1>8. \A u \in Conns \ {t} : UNCHANGED <<frames[u], at[u], curHandler[u]>>
  BY <1>1 DEF Typed, Return, Goto
<1>9. \A i \in 1..Len(frames[t]) - 1 : frames[t][i].h # None
  BY <1>1, <1>4 DEF LookupOf
<1> QED
  BY <1>3, <1>6, <1>7, <1>8, <1>9

(* Each step of a connection's thread keeps its frames and its chain; it   *)
(* leaves the others' alone.                                               *)
LEMMA FramesOfConn ==
    ASSUME SitesInv, NEW t \in Conns, ConnStep(t)
    PROVE  /\ LookupOf(t)' /\ ChainOf(t)'
           /\ \A u \in Conns \ {t} : UNCHANGED <<frames[u], at[u], chain[u], curHandler[u], mapped[u]>>
<1> DEFINE n == Len(frames[t])
           m == Len(chain[t])
           Alone == \A u \in Conns \ {t} : UNCHANGED <<frames[u], at[u], chain[u], curHandler[u], mapped[u]>>
           Goal == LookupOf(t)' /\ ChainOf(t)' /\ Alone
<1>0. /\ Typed /\ LookupOf(t) /\ ChainOf(t) /\ Locks
      /\ n \in Nat /\ m \in Nat /\ frames[t] \in Seq(FrameRecords) /\ chain[t] \in Seq(SiteHandlers)
      /\ (n = 0 <=> frames[t] = <<>>)
  BY DEF SitesInv, Typed
<1>1. \A f : UNCHANGED <<does, pathMap>> /\ FrameRight(f) => FrameRight(f)'
  BY DEF FrameRight, Keys
<1>2. ASSUME UNCHANGED <<does, pathMap, frames, mapped>> PROVE LookupOf(t)'
  BY <1>0, <1>1, <1>2 DEF LookupOf
<1>3. ASSUME UNCHANGED <<frames, chain>>, NEW k PROVE Forwarders(t, k) => Forwarders(t, k)'
  BY <1>3 DEF Forwarders
<1>4. ASSUME n > 0 PROVE Top(t) = frames[t][n] /\ Top(t) \in FrameRecords /\ n \in 1..n
  <2>1. frames[t] # <<>> /\ frames[t] \in Seq(FrameRecords) /\ n \in 1..n
    BY <1>0, <1>4
  <2>2. Last(frames[t]) = frames[t][n] /\ Last(frames[t]) \in FrameRecords
    BY <2>1, StackFacts
  <2> QED
    BY <2>1, <2>2 DEF Top
<1>5. ASSUME MapHost(t) PROVE Goal
  <2>1. /\ UNCHANGED <<does, pathMap, frames, mapped, chain, curHandler>> /\ at[t] = "map"
        /\ at'[t] \in {"find", "idle"} /\ \A u \in Conns \ {t} : at'[u] = at[u]
    BY <1>0, <1>5 DEF MapHost, maps, Goto, Typed
  <2>2. n = 0 /\ m = 0 /\ curHandler[t] = None
    BY <1>0, <2>1 DEF ChainOf
  <2>3. ChainOf(t)'
    BY <1>0, <2>1, <2>2 DEF ChainOf, Forwarders, Called, Calls
  <2> QED
    BY <1>2, <2>1, <2>3
<1>6. ASSUME CallHandler(t) PROVE Goal
  <2> DEFINE f == [path |-> vpath[t], below |-> Len(vpath[t]) + 1, h |-> None]
  <2>1. /\ UNCHANGED <<does, pathMap, chain, curHandler>> /\ at[t] = "find" /\ at'[t] = "next"
        /\ \A u \in Conns \ {t} : at'[u] = at[u] /\ frames'[u] = frames[u] /\ mapped'[u] = mapped[u]
        /\ frames'[t] = Append(frames[t], f)
        /\ mapped'[t] = IF n = 0 THEN pathMap ELSE mapped[t]
    BY <1>0, <1>6 DEF CallHandler, maps, Goto, Typed, Locks
  <2>2. vpath[t] \in Seq(PathParts)
    BY <1>0 DEF Typed
  <2>3. f \in FrameRecords /\ FrameRight(f) /\ f.h = None
    BY <1>0, <2>2, FirstRight DEF FrameRecords
  <2>4. m = n /\ curHandler[t] = None /\ Forwarders(t, n) /\ (n > 0 => frames[t][n].h # None)
    BY <1>0, <2>1 DEF ChainOf
  <2> HIDE DEF f
  <2>5. /\ Len(frames'[t]) = n + 1 /\ frames'[t][n + 1] = f
        /\ \A i \in 1..n : frames'[t][i] = frames[t][i]
    BY <1>0, <2>1, <2>3, PushFacts
  <2>6. mapped'[t] = pathMap'
    BY <1>0, <2>1 DEF LookupOf
  <2>7. ASSUME NEW i \in 1..n + 1
        PROVE  FrameRight(frames[t][i])' /\ (i < n + 1 => (frames[t][i].h # None)')
    <3>1. CASE i = n + 1
      BY <1>1, <2>1, <2>3, <2>5, <3>1
    <3>2. CASE i \in 1..n
      <4>1. FrameRight(frames[t][i]) /\ (i < n => frames[t][i].h # None)
        BY <1>0, <3>2 DEF LookupOf
      <4>2. frames[t][i].h # None
        BY <1>0, <2>4, <3>2, <4>1
      <4> QED
        BY <1>1, <2>1, <2>5, <3>2, <4>1, <4>2
    <3> QED
      BY <1>0, <3>1, <3>2
  <2>8. LookupOf(t)'
    BY <2>5, <2>6, <2>7 DEF LookupOf
  <2>9. Forwarders(t, m)'
    BY <2>1, <2>4, <2>5 DEF Forwarders
  <2>10. ChainOf(t)'
    BY <1>0, <2>1, <2>3, <2>4, <2>5, <2>9 DEF ChainOf, Called, Calls
  <2> QED
    BY <2>1, <2>8, <2>10
<1>7. ASSUME NextHandler(t) PROVE Goal
  <2>1. at[t] = "next" /\ UNCHANGED <<does, pathMap, mapped, chain>>
    BY <1>7 DEF NextHandler, maps
  <2>2. /\ n = m + 1 /\ curHandler[t] = None /\ Forwarders(t, m)
        /\ (frames[t][n].h # None => does[frames[t][n].h] = "pass")
    BY <1>0, <2>1 DEF ChainOf
  <2>3. n > 0 /\ frames[t] # <<>> /\ Top(t) = frames[t][n] /\ Top(t) \in FrameRecords /\ n \in 1..n
    BY <1>0, <1>4, <2>2
  <2> DEFINE keys == KeysBelow(pathMap, Top(t).path, Top(t).below)
  <2>4. CASE keys = {}
    <3>1. Return(t, None)
      BY <1>7, <2>4 DEF NextHandler
    <3>2. /\ LookupOf(t)' /\ Len(frames'[t]) = n - 1
          /\ \A i \in 1..n - 1 : frames'[t][i] = frames[t][i] /\ frames[t][i].h # None
          /\ curHandler'[t] = curHandler[t]
          /\ at'[t] = IF n > 1 THEN "forwarded" ELSE "idle"
          /\ \A u \in Conns \ {t} : UNCHANGED <<frames[u], at[u], curHandler[u]>>
      BY <2>1, <2>3, <3>1, Returned
    <3>3. Forwarders(t, m)' /\ Len(frames'[t]) = m
      BY <1>0, <2>1, <2>2, <3>2 DEF Forwarders
    <3>4. m > 0 => frames'[t][m].h # None
      BY <1>0, <2>2, <3>2
    <3>5. ChainOf(t)'
      BY <1>0, <2>1, <2>2, <3>2, <3>3, <3>4 DEF ChainOf, Called, Calls
    <3> QED
      BY <2>1, <3>2, <3>5
  <2>5. CASE keys # {}
    <3> DEFINE key == NextKey(pathMap, Top(t).path, Top(t).below)
               f == [Top(t) EXCEPT !.below = Len(key), !.h = pathMap[key]]
    <3>1. Frame(t, f) /\ Goto(t, does[pathMap[key]]) /\ UNCHANGED <<held, curHandler>>
      BY <1>7, <2>5 DEF NextHandler
    <3>2. key \in Keys /\ Len(key) \in Nat
      BY <2>3, <2>5, NextKeyFacts, MatchesFacts DEF KeysBelow, Keys, FrameRecords
    <3>3. pathMap[key] \in SiteHandlers /\ pathMap[key] # None /\ does[pathMap[key]] \in Calls
      BY <1>0, <3>2, SitesAssumption DEF Typed, SiteHandlers
    <3>4. f \in FrameRecords /\ f.h = pathMap[key]
      BY <2>3, <3>2, <3>3 DEF FrameRecords
    <3>5. FrameRight(f)
      <4>1. FrameRight(Top(t))
        BY <1>0, <2>3 DEF LookupOf
      <4> HIDE DEF f
      <4> QED
        BY <1>0, <2>2, <2>3, <2>5, <4>1, NextRight DEF f
    <3> HIDE DEF f, key
    <3>6. /\ frames'[t] = Append(Front(frames[t]), f) /\ at'[t] = does[pathMap[key]]
          /\ \A u \in Conns \ {t} : at'[u] = at[u] /\ frames'[u] = frames[u]
          /\ curHandler' = curHandler
      BY <1>0, <3>1 DEF Frame, Goto, Typed
    <3>7. /\ Len(frames'[t]) = n /\ frames'[t][n] = f
          /\ \A i \in 1..n - 1 : frames'[t][i] = frames[t][i]
      <4>1. frames[t] \in Seq(FrameRecords) /\ frames[t] # <<>>
        BY <1>0, <2>3
      <4> DEFINE s == frames[t]
                 r == Append(Front(s), f)
      <4>2. Len(r) = Len(s) /\ r[Len(s)] = f /\ \A i \in 1..Len(s) - 1 : r[i] = s[i]
        <5> HIDE DEF s
        <5>1. s \in Seq(FrameRecords) /\ s # <<>> /\ f \in FrameRecords
          BY <3>4, <4>1 DEF s
        <5> QED
          BY <5>1, StackFacts
      <4> QED
        BY <3>6, <4>2
    <3>8. mapped'[t] = pathMap'
      BY <1>0, <2>1, <2>3 DEF LookupOf
    <3>9. ASSUME NEW i \in 1..n
          PROVE  FrameRight(frames[t][i])' /\ (i < n => (frames[t][i].h # None)')
      <4>1. FrameRight(frames[t][i]) /\ (i < n => frames[t][i].h # None)
        BY <1>0 DEF LookupOf
      <4>2. i = n \/ (i \in 1..n - 1 /\ i < n)
        BY <1>0
      <4> QED
        BY <1>1, <2>1, <3>5, <3>7, <4>1, <4>2
    <3>10. LookupOf(t)'
      BY <3>7, <3>8, <3>9 DEF LookupOf
    <3>11. Forwarders(t, m)'
      BY <1>0, <2>1, <2>2, <3>7 DEF Forwarders
    <3>12. ChainOf(t)'
      BY <1>0, <2>1, <2>2, <3>3, <3>4, <3>6, <3>7, <3>11 DEF ChainOf, Called, Calls
    <3> QED
      BY <2>1, <3>6, <3>10, <3>12
  <2> QED
    BY <2>4, <2>5
<1>8. ASSUME Take(t) PROVE Goal
  <2>1. at[t] \in {"take", "link"} /\ UNCHANGED <<does, pathMap, mapped>> /\ Return(t, Top(t).h)
    BY <1>8 DEF Take, maps
  <2>2. n = m + 1 /\ curHandler[t] = None /\ Forwarders(t, m) /\ frames[t][n].h # None
    BY <1>0, <2>1 DEF ChainOf, Called, Calls
  <2>3. n > 0 /\ frames[t] # <<>> /\ Top(t) = frames[t][n] /\ Top(t) \in FrameRecords
    BY <1>0, <1>4, <2>2
  <2> DEFINE h == Top(t).h
  <2>4. h \in SiteHandlers /\ h # None /\ h = frames[t][n].h
    BY <2>2, <2>3 DEF FrameRecords
  <2>5. /\ chain'[t] = Append(chain[t], h)
        /\ \A u \in Conns \ {t} : chain'[u] = chain[u]
    BY <1>0, <1>8 DEF Take, Typed
  <2> HIDE DEF h
  <2>6. /\ LookupOf(t)' /\ Len(frames'[t]) = n - 1
        /\ \A i \in 1..n - 1 : frames'[t][i] = frames[t][i] /\ frames[t][i].h # None
        /\ curHandler'[t] = h
        /\ at'[t] = IF n > 1 THEN "forwarded" ELSE "data"
        /\ \A u \in Conns \ {t} : UNCHANGED <<frames[u], at[u], curHandler[u]>>
    BY <2>1, <2>2, <2>3, <2>4, Returned DEF h
  <2>7. Len(chain'[t]) = m + 1 /\ chain'[t][m + 1] = h /\ \A i \in 1..m : chain'[t][i] = chain[t][i]
    BY <1>0, <2>4, <2>5, PushFacts
  <2>8. Len(frames'[t]) = m /\ \A i \in 1..m : chain'[t][i] = frames'[t][i].h
    <3>1. n - 1 = m
      BY <1>0, <2>2
    <3> QED
      BY <2>2, <2>6, <2>7, <3>1 DEF Forwarders
  <2>9. m > 0 => frames'[t][m].h # None
    BY <1>0, <2>2, <2>6
  <2>10. CASE m > 0
    <3>1. at'[t] = "forwarded" /\ m + 1 # m /\ m >= 1 /\ m + 1 >= m
      BY <1>0, <2>2, <2>6, <2>10
    <3> HIDE DEF m
    <3>2. ChainOf(t)'
      BY <2>6, <2>7, <2>8, <2>9, <2>10, <3>1 DEF ChainOf, Forwarders, Called, Calls
    <3> QED
      BY <2>1, <2>5, <2>6, <3>2
  <2>11. CASE m = 0
    <3>1. Len(chain'[t]) = 1 /\ chain'[t][1] = h
      BY <2>7, <2>11
    <3>2. at'[t] = "data" /\ Len(frames'[t]) = 0 /\ curHandler'[t] = h
      BY <2>2, <2>6, <2>8, <2>11
    <3> HIDE DEF m, n
    <3>3. 1 >= 1 /\ ~ (1 > 1)
      OBVIOUS
    <3>4. ChainOf(t)'
      BY <3>1, <3>2, <3>3 DEF ChainOf, Called, Calls
    <3> QED
      BY <2>1, <2>5, <2>6, <3>4
  <2> QED
    BY <1>0, <2>10, <2>11
<1>9. ASSUME Pass(t) PROVE Goal
  <2>1. /\ at[t] = "pass" /\ UNCHANGED <<does, pathMap, frames, mapped, chain, curHandler>>
        /\ at'[t] = "next" /\ \A u \in Conns \ {t} : at'[u] = at[u]
    BY <1>0, <1>9 DEF Pass, maps, history, Goto, Typed
  <2>2. /\ n = m + 1 /\ curHandler[t] = None /\ Forwarders(t, m) /\ does[frames[t][n].h] = "pass"
    BY <1>0, <2>1 DEF ChainOf, Called, Calls
  <2>3. ChainOf(t)'
    BY <1>0, <1>3, <2>1, <2>2 DEF ChainOf, Called, Calls
  <2> QED
    BY <1>2, <2>1, <2>3
<1>10. ASSUME Forward(t) PROVE Goal
  <2>1. /\ at[t] = "forward" /\ UNCHANGED <<does, pathMap, frames, mapped, curHandler>>
        /\ at'[t] = "find" /\ \A u \in Conns \ {t} : at'[u] = at[u] /\ chain'[u] = chain[u]
        /\ chain'[t] = Append(chain[t], Top(t).h)
    BY <1>0, <1>10 DEF Forward, maps, Goto, Typed
  <2>2. n = m + 1 /\ curHandler[t] = None /\ Forwarders(t, m) /\ frames[t][n].h # None
    BY <1>0, <2>1 DEF ChainOf, Called, Calls
  <2>3. Top(t) = frames[t][n] /\ Top(t) \in FrameRecords
    BY <1>0, <1>4, <2>2
  <2> DEFINE h == Top(t).h
  <2>4. h \in SiteHandlers /\ h = frames[t][n].h
    BY <2>2, <2>3 DEF FrameRecords
  <2>5. Len(chain'[t]) = m + 1 /\ chain'[t][m + 1] = h /\ \A i \in 1..m : chain'[t][i] = chain[t][i]
    BY <1>0, <2>1, <2>4, PushFacts
  <2> HIDE DEF h
  <2>6. Forwarders(t, n)'
    <3>1. ASSUME NEW i \in 1..n PROVE chain'[t][i] = frames[t][i].h
      <4>1. i \in 1..m \/ i = m + 1
        BY <1>0, <2>2
      <4> QED
        BY <2>2, <2>4, <2>5, <4>1 DEF Forwarders
    <3> QED
      BY <2>1, <3>1 DEF Forwarders
  <2>7. ChainOf(t)'
    BY <1>0, <2>1, <2>2, <2>5, <2>6 DEF ChainOf, Called, Calls
  <2> QED
    BY <1>2, <2>1, <2>7
<1>11. ASSUME Forwarded(t) PROVE Goal
  <2>1. /\ at[t] = "forwarded" /\ UNCHANGED <<does, pathMap, mapped, chain>> /\ Return(t, Top(t).h)
    BY <1>11 DEF Forwarded, maps, history
  <2>2. /\ n >= 1 /\ m >= n /\ Forwarders(t, n) /\ frames[t][n].h # None
        /\ curHandler[t] = IF m = n THEN None ELSE chain[t][n + 1]
    BY <1>0, <2>1 DEF ChainOf
  <2>3. n > 0 /\ frames[t] # <<>> /\ Top(t) = frames[t][n] /\ Top(t) \in FrameRecords
    BY <1>0, <1>4, <2>2
  <2> DEFINE h == Top(t).h
  <2>4. h \in SiteHandlers /\ h # None /\ h = chain[t][n]
    BY <1>0, <2>2, <2>3 DEF FrameRecords, Forwarders
  <2>5. m > n => chain[t][n + 1] # None
    <3>1. \A i \in 1..m : chain[t][i] \in SiteHandlers
      BY <1>0
    <3>2. None \notin SiteHandlers
      BY <1>0, SitesAssumption DEF Typed, SiteHandlers
    <3> QED
      BY <1>0, <2>2, <3>1, <3>2
  <2> HIDE DEF h
  <2>6. /\ LookupOf(t)' /\ Len(frames'[t]) = n - 1
        /\ \A i \in 1..n - 1 : frames'[t][i] = frames[t][i] /\ frames[t][i].h # None
        /\ curHandler'[t] = IF n > 1 \/ curHandler[t] = None THEN h ELSE curHandler[t]
        /\ at'[t] = IF n > 1 THEN "forwarded" ELSE "data"
        /\ \A u \in Conns \ {t} : UNCHANGED <<frames[u], at[u], curHandler[u]>>
    BY <2>1, <2>2, <2>3, <2>4, Returned DEF h
  <2>7. \A i \in 1..n - 1 : chain'[t][i] = frames'[t][i].h
    <3>1. \A i \in 1..n - 1 : i \in 1..n
      BY <1>0
    <3> QED
      BY <2>1, <2>2, <2>6, <3>1 DEF Forwarders
  <2>8. CASE n > 1
    <3>1. n - 1 \in 1..n - 1 /\ n - 1 >= 1 /\ m >= n - 1 /\ m # n - 1 /\ n - 1 + 1 = n
      BY <1>0, <2>2, <2>8
    <3> DEFINE q == n - 1
    <3>2. /\ Len(frames'[t]) = q /\ q >= 1 /\ Len(chain'[t]) >= q /\ Len(chain'[t]) # q /\ (\A i \in 1..q : chain'[t][i] = frames'[t][i].h)
          /\ frames'[t][q].h # None /\ chain'[t][q + 1] = h /\ curHandler'[t] = h /\ at'[t] = "forwarded"
      BY <2>1, <2>4, <2>6, <2>7, <2>8, <3>1
    <3> HIDE DEF q
    <3>3. ChainOf(t)'
      BY <3>2 DEF ChainOf, Forwarders, Called, Calls
    <3> QED
      BY <2>1, <2>6, <3>3
  <2>9. CASE n = 1
    <3>1. curHandler'[t] = IF m > 1 THEN chain[t][2] ELSE chain[t][1]
      BY <1>0, <2>2, <2>4, <2>5, <2>6, <2>9
    <3>2. at'[t] = "data" /\ Len(frames'[t]) = 0 /\ m >= 1
      BY <2>2, <2>6, <2>9
    <3>3. ChainOf(t)'
      BY <1>0, <2>1, <3>1, <3>2 DEF ChainOf, Called, Calls
    <3> QED
      BY <2>1, <2>6, <3>3
  <2>10. n > 1 \/ n = 1
    <3>1. n \in Nat /\ n >= 1
      BY <1>0, <2>2
    <3> HIDE DEF n
    <3> QED
      BY <3>1
  <2> QED
    BY <2>8, <2>9, <2>10
<1>12. ASSUME at[t] \in Called, at'[t] \in {"stuck", "take"}, \A u \in Conns \ {t} : at'[u] = at[u],
              UNCHANGED <<does, pathMap, frames, mapped, chain, curHandler>>
       PROVE  Goal
  <2>1. n = m + 1 /\ curHandler[t] = None /\ Forwarders(t, m) /\ frames[t][n].h # None
    BY <1>0, <1>12 DEF ChainOf
  <2>2. ChainOf(t)'
    BY <1>0, <1>3, <1>12, <2>1 DEF ChainOf, Called, Calls
  <2> QED
    BY <1>2, <1>12, <2>2
<1>13. ASSUME EditInside(t) PROVE Goal
  <2>1. /\ at[t] \in Called /\ at'[t] = "stuck" /\ \A u \in Conns \ {t} : at'[u] = at[u]
        /\ UNCHANGED <<does, pathMap, frames, mapped, chain, curHandler>>
    BY <1>0, <1>13 DEF EditInside, maps, history, Goto, Typed, Called, Calls
  <2> QED
    BY <1>12, <2>1
<1>14. ASSUME Data(t) PROVE Goal
  <2>1. /\ at[t] = "data" /\ UNCHANGED <<does, pathMap, frames>> /\ at'[t] = "idle"
        /\ \A u \in Conns \ {t} : UNCHANGED <<at[u], chain[u], curHandler[u], mapped[u]>>
    BY <1>0, <1>14 DEF Data, maps, Goto, Typed
  <2>2. n = 0
    BY <1>0, <2>1 DEF ChainOf
  <2>3. LookupOf(t)'
    BY <1>0, <2>1, <2>2 DEF LookupOf
  <2>4. ChainOf(t)'
    BY <1>0, <2>1, <2>2 DEF ChainOf, Called, Calls
  <2> QED
    BY <2>1, <2>3, <2>4
<1>15. ASSUME at[t] = "cancel" /\ Goto(t, "take")
                /\ UNCHANGED <<does, maps, held, writers, vpath, frames, curHandler, alive, history, requests>>
       PROVE  Goal
  <2>1. /\ at[t] \in Called /\ at'[t] = "take" /\ \A u \in Conns \ {t} : at'[u] = at[u]
        /\ UNCHANGED <<does, pathMap, frames, mapped, chain, curHandler>>
    BY <1>0, <1>15 DEF maps, history, Goto, Typed, Called, Calls
  <2> QED
    BY <1>12, <2>1
<1> QED
  BY <1>5, <1>6, <1>7, <1>8, <1>9, <1>10, <1>11, <1>13, <1>14, <1>15 DEF ConnStep, RequestStep

(* A connection's thread holds the map's lock as often as it has frames    *)
(* (callHandler's Synchronized).                                           *)
LEMMA LocksOfConn ==
    ASSUME SitesInv, NEW t \in Conns, ConnStep(t)
    PROVE  Locks'
<1>0. /\ Typed /\ ChainOf(t) /\ ChainOf(t)' /\ Locks /\ t \in Threads /\ t \notin Others
      /\ Len(frames[t]) \in Nat /\ Len(chain[t]) \in Nat /\ frames[t] \in Seq(FrameRecords)
      /\ \A u \in Conns \ {t} : UNCHANGED frames[u]
  BY FramesOfConn, ServerAssumption DEF SitesInv, Typed, Threads
<1>1. ASSUME held'[t] = Len(frames'[t]), \A u \in Threads \ {t} : held'[u] = held[u] PROVE Locks'
  BY <1>0, <1>1 DEF Locks, Threads
<1>2. ASSUME UNCHANGED <<held, frames>> PROVE Locks'
  BY <1>0, <1>2 DEF Locks
<1>3. ASSUME NEW h, Return(t, h), frames[t] # <<>> PROVE Locks'
  <2>1. held'[t] = held[t] - 1 /\ frames'[t] = Front(frames[t]) /\ \A u \in Threads \ {t} : held'[u] = held[u]
    BY <1>0, <1>3 DEF Return, Typed
  <2>2. Len(frames'[t]) = Len(frames[t]) - 1
    BY <1>0, <1>3, <2>1, StackFacts
  <2> QED
    BY <1>0, <1>1, <2>1, <2>2 DEF Locks
<1>4. ASSUME at[t] \in Called \cup {"next", "forwarded"} PROVE frames[t] # <<>>
  BY <1>0, <1>4 DEF ChainOf
<1>5. CASE CallHandler(t)
  <2> DEFINE f == [path |-> vpath[t], below |-> Len(vpath[t]) + 1, h |-> None]
  <2>1. /\ held'[t] = held[t] + 1 /\ frames'[t] = Append(frames[t], f)
        /\ \A u \in Threads \ {t} : held'[u] = held[u]
    BY <1>0, <1>5 DEF CallHandler, Typed
  <2>2. f \in FrameRecords
    BY <1>0 DEF FrameRecords, Typed
  <2> HIDE DEF f
  <2>3. Len(frames'[t]) = Len(frames[t]) + 1
    BY <1>0, <2>1, <2>2, PushFacts
  <2> QED
    BY <1>0, <1>1, <2>1, <2>3 DEF Locks
<1>6. CASE NextHandler(t)
  <2>1. at[t] = "next" /\ chain' = chain /\ frames[t] # <<>>
    BY <1>4, <1>6 DEF NextHandler
  <2>2. CASE KeysBelow(pathMap, Top(t).path, Top(t).below) = {}
    BY <1>3, <1>6, <2>1, <2>2 DEF NextHandler
  <2>3. CASE KeysBelow(pathMap, Top(t).path, Top(t).below) # {}
    <3> DEFINE h == pathMap[NextKey(pathMap, Top(t).path, Top(t).below)]
    <3>1. Goto(t, does[h]) /\ held' = held
      BY <1>6, <2>3 DEF NextHandler
    <3>2. h \in SiteHandlers
      <4>1. Top(t) \in FrameRecords
        BY <1>0, <2>1, StackFacts DEF Top
      <4> QED
        BY <1>0, <2>3, <4>1, NextKeyFacts DEF KeysBelow, Keys, FrameRecords, Typed
    <3> HIDE DEF h
    <3>3. at'[t] \in Called
      BY <1>0, <3>1, <3>2, SitesAssumption DEF Typed, SiteHandlers, Goto, Called
    <3>4. Len(frames'[t]) = Len(frames[t])
      BY <1>0, <2>1, <3>3 DEF ChainOf
    <3> QED
      BY <1>0, <1>1, <3>1, <3>4 DEF Locks
  <2> QED
    BY <2>2, <2>3
<1>7. CASE Take(t) \/ Forwarded(t)
  BY <1>3, <1>4, <1>7 DEF Take, Forwarded, Called, Calls
<1>8. CASE MapHost(t) \/ Pass(t) \/ Forward(t) \/ EditInside(t) \/ Data(t)
  BY <1>2, <1>8 DEF MapHost, Pass, Forward, EditInside, Data
<1>9. CASE at[t] = "cancel" /\ Goto(t, "take")
             /\ UNCHANGED <<does, maps, held, writers, vpath, frames, curHandler, alive, history, requests>>
  BY <1>2, <1>9
<1> QED
  BY <1>5, <1>6, <1>7, <1>8, <1>9 DEF ConnStep, RequestStep

(* All of it together.                                                     *)
LEMMA SitesOfConn ==
    ASSUME SitesInv, NEW t \in Conns, ConnStep(t)
    PROVE  SitesInv'
<1>1. UNCHANGED <<does, pathMap>>
  BY DEF ConnStep, RequestStep, MapHost, CallHandler, NextHandler, Take, Pass, Forward, Forwarded, EditInside, Data, maps
<1>2. /\ LookupOf(t)' /\ ChainOf(t)'
      /\ \A u \in Conns \ {t} : UNCHANGED <<frames[u], at[u], chain[u], curHandler[u], mapped[u]>>
  BY FramesOfConn
<1>3. \A u \in Conns : LookupOf(u)' /\ ChainOf(u)'
  BY <1>1, <1>2, OthersKept
<1> QED
  BY <1>3, TypedConn, LocksOfConn DEF SitesInv

(* A request comes. *)
LEMMA SitesOfRequest ==
    ASSUME SitesInv, NEW t \in Conns, NEW s \in Sources, Arrive(t, s)
    PROVE  SitesInv'
<1>0. Typed /\ Locks /\ LookupOf(t) /\ ChainOf(t)
  BY DEF SitesInv
<1>1. /\ at[t] = "idle" /\ at' = [at EXCEPT ![t] = "map"] /\ vpath' = [vpath EXCEPT ![t] = s.path]
      /\ curHandler' = [curHandler EXCEPT ![t] = None] /\ chain' = [chain EXCEPT ![t] = <<>>]
      /\ UNCHANGED <<does, pathMap, hostMap, held, writers, frames, mapped>>
      /\ requests < MaxRequests /\ requests' = requests + 1
  BY DEF Arrive, Goto, maps
<1>2. Typed'
  <2>1. vpath' \in [Conns -> Seq(PathParts)]
    BY <1>0, <1>1, SitesAssumption DEF Typed
  <2>2. chain' \in [Conns -> Seq(SiteHandlers)]
    <3>1. <<>> \in Seq(SiteHandlers)
      OBVIOUS
    <3> QED
      BY <1>0, <1>1, <3>1 DEF Typed
  <2>3. requests' \in 0..MaxRequests
    BY <1>0, <1>1, SitesAssumption DEF Typed
  <2>4. at' \in [Conns -> Places] /\ curHandler' \in [Conns -> SiteHandlers \cup {None}]
    BY <1>0, <1>1 DEF Typed, Places
  <2> QED
    BY <1>0, <1>1, <2>1, <2>2, <2>3, <2>4 DEF Typed, Keys, SiteHandlers, FrameRecords
<1>3. Len(frames[t]) = 0
  BY <1>0, <1>1 DEF ChainOf
<1>4. LookupOf(t)'
  <2>1. \A f : FrameRight(f) => FrameRight(f)'
    BY <1>1 DEF FrameRight, Keys
  <2> QED
    BY <1>0, <1>1, <2>1 DEF LookupOf
<1>5. ChainOf(t)'
  <2>1. at'[t] = "map" /\ curHandler'[t] = None /\ Len(chain'[t]) = 0 /\ Len(frames'[t]) = 0
    BY <1>0, <1>1, <1>3 DEF Typed
  <2> QED
    BY <2>1 DEF ChainOf, Called, Calls
<1>6. \A u \in Conns : u # t => UNCHANGED <<frames[u], at[u], chain[u], curHandler[u], mapped[u]>>
  BY <1>0, <1>1 DEF Typed
<1>7. \A u \in Conns : LookupOf(u)' /\ ChainOf(u)'
  BY <1>1, <1>4, <1>5, <1>6, OthersKept
<1> QED
  BY <1>0, <1>1, <1>2, <1>7 DEF SitesInv, Locks

(* The map is edited while nobody holds its lock, so while no handler runs.*)
LEMMA SitesOfEdit ==
    ASSUME SitesInv, UNCHANGED <<does, held, at, vpath, frames, curHandler, chain, mapped, requests>>,
           pathMap' = pathMap \/ MayWrite,
           pathMap' \in [DOMAIN pathMap' -> SiteHandlers], hostMap' \in [DOMAIN hostMap' -> HostMappings],
           writers' \subseteq Threads
    PROVE  SitesInv'
<1>0. Typed /\ Locks
  BY DEF SitesInv
<1>1. Typed'
  BY <1>0 DEF Typed, Keys, SiteHandlers, FrameRecords
<1>2. ASSUME NEW t \in Conns PROVE LookupOf(t)' /\ ChainOf(t)'
  <2>1. LookupOf(t) /\ ChainOf(t)
    BY DEF SitesInv
  <2>2. ChainOf(t)'
    <3>1. \A n : Forwarders(t, n) => Forwarders(t, n)'
      BY DEF Forwarders
    <3> QED
      BY <2>1, <3>1 DEF ChainOf
  <2>3. CASE pathMap' = pathMap
    <3>1. \A f : FrameRight(f) => FrameRight(f)'
      BY <2>3 DEF FrameRight, Keys
    <3> QED
      BY <2>1, <2>2, <2>3, <3>1 DEF LookupOf
  <2>4. CASE MayWrite
    <3>1. Len(frames[t]) = 0 /\ frames[t] = <<>>
      BY <1>0, <2>4 DEF MayWrite, Locks, Typed, Threads
    <3> QED
      BY <2>2, <3>1 DEF LookupOf
  <2> QED
    BY <2>3, <2>4
<1> QED
  BY <1>0, <1>1, <1>2 DEF SitesInv, Locks

-----------------------------------------------------------------------------
Closed == {"close", "stop", "flush", "release", "end"}
(* Who is alive, and who is used although it is not.                       *)
Dead == alive = (IF main \in Closed THEN SiteHandlers \ {StatsHandler} ELSE SiteHandlers) /\ NoDeadUse

(* Jobs have numbers, given out in order; one dump at most waits or runs,  *)
(* and none before the statistics are there.                               *)
JobsInv ==
    /\ running \in Nat /\ (running = NoJob => doing \notin {"dump", "note"})
    /\ made \in Nat \ {0} /\ dumpJob \in Nat /\ dumpJob <= made /\ victim \in Nat /\ victim <= made
    /\ \A j \in jobs : j[1] \in Nat /\ j[1] # NoJob /\ j[1] <= made /\ j[2] \in {"edit", "dump"}
    /\ \A i, j \in DumpJobs : i = j
    /\ doing = "dump" => DumpJobs = {}
    /\ main \in {"start", "map", "stats", "add", "dump"} => ~DumpScheduled
(* The number that is noted is that of the dump that waits, unless the     *)
(* first dump was faster (scheduleDump, stopDumpJob).                      *)
DumpNoted ==
    /\ main = "note" /\ made = victim => doing # "note" /\ \A j \in DumpJobs : j[1] = victim
    /\ ~overtaken /\ main \in {"serving", "cancel", "destroy"} \cup Closed =>
         \A j \in DumpJobs : j[1] = (IF doing = "note" THEN made ELSE dumpJob)

IInv == SitesInv /\ SitesStay /\ Dead /\ JobsInv /\ DumpNoted /\ DumpStops

(* Handlers are destroyed with the statistics only, and only a thread that *)
(* comes after the port should have been closed calls one of them.         *)
LEMMA DeadKept ==
    ASSUME IInv, [Next]_vars
    PROVE  Dead'
<1> USE DEF SiteHandlers
<1>0. /\ Typed /\ alive = (IF main \in Closed THEN SiteHandlers \ {StatsHandler} ELSE SiteHandlers)
      /\ deadUse # {} => deadUse = {StatsHandler} /\ main \in Closed
  BY DEF IInv, SitesInv, Dead, NoDeadUse, StatsDestroyedInMap, Closed
<1>1. ASSUME UNCHANGED <<does, alive, main>>, NEW h \in SiteHandlers, deadUse' = deadUse \cup ({h} \ alive)
      PROVE  Dead'
  <2>1. deadUse' # {} => deadUse' = {StatsHandler} /\ main \in Closed
    <3>1. CASE main \in Closed
      <4>1. {h} \ alive \subseteq {StatsHandler} /\ deadUse \subseteq {StatsHandler}
        BY <1>0, <3>1
      <4> QED
        BY <1>1, <3>1, <4>1
    <3>2. CASE main \notin Closed
      <4>1. {h} \ alive = {} /\ deadUse = {}
        BY <1>0, <3>2
      <4> QED
        BY <1>1, <4>1
    <3> QED
      BY <3>1, <3>2
  <2> QED
    BY <1>0, <1>1, <2>1 DEF Dead, NoDeadUse, StatsDestroyedInMap, Closed
<1>2. ASSUME UNCHANGED <<does, alive, deadUse>>, main \in Closed <=> main' \in Closed PROVE Dead'
  BY <1>0, <1>2 DEF Dead, NoDeadUse, StatsDestroyedInMap, Closed
<1>3. ASSUME MainStep \/ EndService PROVE Dead'
  <2>1. CASE DestroyStats
    <3>1. main = "destroy" /\ main' = "close" /\ alive' = alive \ {StatsHandler} /\ UNCHANGED <<does, deadUse>>
      BY <2>1 DEF DestroyStats, Main, history
    <3> QED
      BY <1>0, <3>1 DEF Dead, NoDeadUse, StatsDestroyedInMap, Closed
  <2>2. CASE ReleaseHandlers
    <3>1. /\ main = "release" /\ main' = "end" /\ UNCHANGED <<does, alive>>
          /\ deadUse' = deadUse \cup {h \in Range(pathMap) : h \notin alive}
      BY <2>2 DEF ReleaseHandlers, Main
    <3>2. Range(pathMap) \subseteq SiteHandlers
      BY <1>0 DEF Typed, Keys, Range
    <3>3. {h \in Range(pathMap) : h \notin alive} \subseteq {StatsHandler} /\ deadUse \subseteq {StatsHandler}
      BY <1>0, <3>1, <3>2 DEF Closed
    <3>4. deadUse' \subseteq {StatsHandler}
      BY <3>1, <3>3
    <3> QED
      BY <1>0, <3>1, <3>4 DEF Dead, NoDeadUse, StatsDestroyedInMap, Closed
  <2>3. CASE OpenPort \/ MapHosts \/ NewStats \/ AddStats \/ StartDump \/ DumpStarted \/ EndService \/ CancelCarried
    <3>1. UNCHANGED <<does, alive, deadUse>> /\ main \notin Closed /\ main' \notin Closed
      BY <2>3 DEF OpenPort, MapHosts, NewStats, AddStats, StartDump, DumpStarted, EndService, CancelCarried, Main, Closed,
                  svars, history
    <3> QED
      BY <1>2, <3>1
  <2>4. CASE ClosePort \/ StopJobs \/ FlushJobs
    <3>1. UNCHANGED <<does, alive, deadUse>> /\ main \in Closed /\ main' \in Closed
      BY <2>4 DEF ClosePort, StopJobs, FlushJobs, Main, Closed, svars, history
    <3> QED
      BY <1>2, <3>1
  <2> QED
    BY <1>3, <2>1, <2>2, <2>3, <2>4 DEF MainStep
<1>4. ASSUME RunJob \/ FinishJob PROVE Dead'
  <2>1. UNCHANGED <<does, alive, deadUse, main>>
    BY <1>4 DEF RunJob, FinishJob, RunEdit, Edit, svars, history
  <2> QED
    BY <1>2, <2>1
<1>5. ASSUME NEW t \in Conns, NextHandler(t), UNCHANGED main PROVE Dead'
  <2>1. CASE KeysBelow(pathMap, Top(t).path, Top(t).below) = {}
    BY <1>2, <1>5, <2>1 DEF NextHandler
  <2>2. CASE KeysBelow(pathMap, Top(t).path, Top(t).below) # {}
    <3> DEFINE h == pathMap[NextKey(pathMap, Top(t).path, Top(t).below)]
    <3>1. deadUse' = deadUse \cup ({h} \ alive) /\ UNCHANGED <<does, alive>>
      BY <1>5, <2>2 DEF NextHandler
    <3>2. h \in SiteHandlers
      <4>1. at[t] = "next" /\ ChainOf(t)
        BY <1>5 DEF IInv, SitesInv, NextHandler
      <4>2. frames[t] \in Seq(FrameRecords) /\ Len(frames[t]) = Len(chain[t]) + 1 /\ Len(chain[t]) \in Nat
        BY <1>0, <4>1 DEF ChainOf, Typed
      <4>3. frames[t] # <<>>
        BY <4>2
      <4>4. Top(t) \in FrameRecords
        BY <4>2, <4>3, StackFacts DEF Top
      <4> QED
        BY <1>0, <2>2, <4>4, NextKeyFacts DEF KeysBelow, Keys, FrameRecords, Typed
    <3> HIDE DEF h
    <3> QED
      BY <1>1, <1>5, <3>1, <3>2
  <2> QED
    BY <2>1, <2>2
<1>6. ASSUME NEW t \in Conns, Data(t), UNCHANGED main PROVE Dead'
  <2>1. at[t] = "data" /\ deadUse' = deadUse \cup ({curHandler[t]} \ alive) /\ UNCHANGED <<does, alive>>
    BY <1>6 DEF Data
  <2>2. curHandler[t] \in SiteHandlers
    <3>1. chain[t] \in Seq(SiteHandlers) /\ Len(chain[t]) \in Nat /\ ChainOf(t)
      BY <1>0 DEF Typed, IInv, SitesInv
    <3>2. Len(chain[t]) >= 1 /\ curHandler[t] = IF Len(chain[t]) > 1 THEN chain[t][2] ELSE chain[t][1]
      BY <2>1, <3>1 DEF ChainOf
    <3> QED
      BY <3>1, <3>2
  <2> QED
    BY <1>1, <1>6, <2>1, <2>2
<1>7. ASSUME NEW t \in Conns, Request(t) \/ Connection(t) PROVE Dead'
  <2>1. CASE Request(t)
    <3>1. UNCHANGED <<does, alive, deadUse, main>>
      BY <2>1 DEF Request, Arrive
    <3> QED
      BY <1>2, <3>1
  <2>2. CASE RequestStep(t) /\ UNCHANGED <<jvars, main, victim>>
    <3>1. CASE NextHandler(t) \/ Data(t)
      BY <1>5, <1>6, <2>2, <3>1
    <3>2. CASE MapHost(t) \/ CallHandler(t) \/ Take(t) \/ Pass(t) \/ Forward(t) \/ Forwarded(t) \/ EditInside(t)
      <4>1. UNCHANGED <<does, alive, deadUse, main>>
        BY <2>2, <3>2 DEF MapHost, CallHandler, Take, Pass, Forward, Forwarded, EditInside, history
      <4> QED
        BY <1>2, <4>1
    <3> QED
      BY <2>2, <3>1, <3>2 DEF RequestStep
  <2>3. CASE HandlerCancels(t)
    <3>1. UNCHANGED <<does, alive, deadUse, main>>
      BY <2>3 DEF HandlerCancels, history
    <3> QED
      BY <1>2, <3>1
  <2> QED
    BY <1>7, <2>1, <2>2, <2>3 DEF Connection
<1>8. CASE UNCHANGED vars
  <2>1. UNCHANGED <<does, alive, deadUse, main>>
    BY <1>8 DEF vars, svars, history
  <2> QED
    BY <1>2, <2>1
<1> QED
  BY <1>3, <1>4, <1>7, <1>8 DEF Next

(* A step of the main program, of the scheduler or of a connection keeps   *)
(* what is said of the lookup.                                             *)
LEMMA SitesKept ==
    ASSUME IInv, [Next]_vars
    PROVE  SitesInv'
<1>0. SitesInv /\ Typed
  BY DEF IInv, SitesInv
<1>1. ASSUME UNCHANGED <<does, held, at, vpath, frames, curHandler, chain, mapped, requests, pathMap, hostMap>>,
             writers' \subseteq Threads
      PROVE  SitesInv'
  BY <1>0, <1>1, SitesOfEdit DEF Typed, Keys, SiteHandlers
<1>2. {"main", "worker"} \subseteq Threads
  BY ServerAssumption DEF Threads
<1>3. ASSUME NEW k, NEW h \in SiteHandlers, NEW t \in Threads, AddSite(t, k, h) \/ RemoveSite(t, k),
             UNCHANGED <<does, held, at, vpath, frames, curHandler, chain, mapped, requests>>
      PROVE  SitesInv'
  <2>1. MayWrite /\ writers' \subseteq Threads /\ hostMap' = hostMap
    BY <1>0, <1>3 DEF AddSite, RemoveSite, Enter, Typed
  <2>2. pathMap' \in [DOMAIN pathMap' -> SiteHandlers]
    BY <1>0, <1>3 DEF AddSite, RemoveSite, Restrict, Keys, Typed
  <2> QED
    BY <1>0, <1>3, <2>1, <2>2, SitesOfEdit DEF Typed, SiteHandlers
<1>4. StatsHandler \in SiteHandlers /\ NewHandler \in SiteHandlers
  BY <1>0, ServerAssumption DEF Typed, SiteHandlers
<1>5. ASSUME MapHosts PROVE SitesInv'
  <2>1. /\ MapUrl("main", Mapped[1], Mapped[2])
        /\ UNCHANGED <<does, held, at, vpath, frames, curHandler, chain, mapped, requests>>
    BY <1>5 DEF MapHosts, history
  <2>2. UrlMapping(Mapped[2]) \in HostMappings
    <3>1. "/" \in PathParts /\ Mapped[2] \in Seq(PathParts)
      BY ServerAssumption DEF PathParts
    <3> QED
      BY <3>1 DEF UrlMapping, HostMappings
  <2>3. hostMap' \in [DOMAIN hostMap' -> HostMappings]
    BY <1>0, <2>1, <2>2 DEF MapUrl, Typed
  <2>4. writers' \subseteq Threads /\ pathMap' = pathMap
    BY <1>0, <2>1 DEF MapUrl, Enter, Typed
  <2> QED
    BY <1>0, <2>1, <2>3, <2>4, SitesOfEdit DEF Typed, Keys, SiteHandlers
<1>6. ASSUME MainStep \/ EndService PROVE SitesInv'
  <2>1. CASE MapHosts
    BY <1>5, <2>1
  <2>2. CASE AddStats
    BY <1>2, <1>3, <1>4, <2>2 DEF AddStats, history
  <2>3. CASE OpenPort \/ NewStats
    BY <1>0, <1>1, <1>2, <2>3 DEF OpenPort, NewStats, Wait, history, maps, Typed
  <2>4. CASE StartDump \/ DumpStarted \/ CancelCarried \/ ClosePort \/ StopJobs \/ FlushJobs \/ EndService
    BY <1>0, <1>1, <2>4 DEF StartDump, DumpStarted, CancelCarried, ClosePort, StopJobs, FlushJobs, EndService,
                            svars, history, maps, Typed
  <2>5. CASE DestroyStats \/ ReleaseHandlers
    BY <1>0, <1>1, <2>5 DEF DestroyStats, ReleaseHandlers, history, maps, Typed
  <2> QED
    BY <1>6, <2>1, <2>2, <2>3, <2>4, <2>5 DEF MainStep
<1>7. ASSUME RunJob \/ FinishJob PROVE SitesInv'
  <2>1. CASE Edit
    BY <1>2, <1>3, <1>4, <2>1 DEF Edit, history
  <2>2. CASE RunEdit
    BY <1>0, <1>1, <1>2, <2>2 DEF RunEdit, Wait, history, maps, Typed
  <2>3. CASE UNCHANGED svars
    BY <1>0, <1>1, <2>3 DEF svars, history, maps, Typed
  <2> QED
    BY <1>7, <2>1, <2>2, <2>3 DEF RunJob, FinishJob
<1>8. ASSUME NEW t \in Conns, Request(t) \/ Connection(t) PROVE SitesInv'
  BY <1>0, <1>8, SitesOfConn, SitesOfRequest DEF Request, Connection, HandlerCancels, ConnStep
<1>9. CASE UNCHANGED vars
  BY <1>0, <1>1, <1>9 DEF vars, svars, history, maps, Typed
<1> QED
  BY <1>6, <1>7, <1>8, <1>9 DEF Next

(* Sites stay: only addSite and removeSite touch the map.                  *)
LEMMA StayKept ==
    ASSUME SitesStay, [Next]_vars
    PROVE  SitesStay'
<1>1. ASSUME UNCHANGED <<pathMap, registered>> PROVE SitesStay'
  BY <1>1 DEF SitesStay, PutOut, Keys
<1>2. ASSUME NEW u, NEW k, NEW g, AddSite(u, k, g) PROVE SitesStay'
  <2>1. /\ pathMap' = [j \in Keys \cup {k} |-> IF j = k THEN g ELSE pathMap[j]]
        /\ registered' = registered \cup {<<k, g>>}
    BY <1>2 DEF AddSite
  <2>2. ASSUME NEW r \in registered', ~PutOut(r)' PROVE r[1] \in Keys' /\ pathMap'[r[1]] = r[2]
    <3>1. CASE r = <<k, g>>
      BY <2>1, <3>1 DEF Keys
    <3>2. CASE r # <<k, g>>
      <4>1. r \in registered /\ ~PutOut(r) /\ r[1] # k
        <5>1. <<k, g>> \in registered' /\ <<k, g>>[1] = k
          BY <2>1
        <5> QED
          BY <2>1, <2>2, <3>2, <5>1 DEF PutOut
      <4> QED
        BY <2>1, <4>1 DEF SitesStay, Keys
    <3> QED
      BY <3>1, <3>2
  <2> QED
    BY <2>2 DEF SitesStay
<1>3. ASSUME NEW u, NEW k, RemoveSite(u, k) PROVE SitesStay'
  <2>1. /\ pathMap' = [j \in Keys \cap (Keys \ {k}) |-> pathMap[j]]
        /\ registered' = {r \in registered : r[1] # k}
    BY <1>3 DEF RemoveSite, Restrict, Keys
  <2>2. ASSUME NEW r \in registered', ~PutOut(r)' PROVE r[1] \in Keys' /\ pathMap'[r[1]] = r[2]
    <3>1. r \in registered /\ r[1] # k /\ ~PutOut(r)
      BY <2>1, <2>2 DEF PutOut
    <3> QED
      BY <2>1, <3>1 DEF SitesStay, Keys
  <2> QED
    BY <2>2 DEF SitesStay
<1>4. CASE AddStats \/ Edit
  BY <1>2, <1>3, <1>4 DEF AddStats, Edit
<1>5. CASE MapHosts
  BY <1>1, <1>5 DEF MapHosts, MapUrl
<1>6. ASSUME MainStep \/ EndService PROVE SitesStay'
  BY <1>1, <1>4, <1>5, <1>6 DEF MainStep, OpenPort, NewStats, StartDump, DumpStarted, CancelCarried, DestroyStats,
                                ClosePort, StopJobs, FlushJobs, ReleaseHandlers, EndService, svars, maps
<1>7. ASSUME RunJob \/ FinishJob PROVE SitesStay'
  BY <1>1, <1>4, <1>7 DEF RunJob, FinishJob, RunEdit, svars, maps
<1>8. ASSUME NEW t \in Conns, Request(t) \/ Connection(t) PROVE SitesStay'
  <2>1. CASE Request(t) \/ HandlerCancels(t)
    BY <1>1, <2>1 DEF Request, Arrive, HandlerCancels, maps
  <2>2. CASE RequestStep(t)
    BY <1>1, <2>2 DEF RequestStep, MapHost, CallHandler, NextHandler, Take, Pass, Forward, Forwarded,
                      EditInside, Data, maps
  <2> QED
    BY <1>8, <2>1, <2>2 DEF Connection
<1>9. CASE UNCHANGED vars
  BY <1>1, <1>9 DEF vars, svars, maps
<1> QED
  BY <1>6, <1>7, <1>8, <1>9 DEF Next

(* The dump is there at most once: as a job, or as the job that runs; and  *)
(* stopDumpJob takes away the one there is.                                *)
LEMMA JobsKept ==
    ASSUME IInv, [Next]_vars
    PROVE  JobsInv' /\ DumpNoted' /\ DumpStops'
<1> DEFINE Early == {"start", "map", "stats", "add", "dump"}
           Gone == {"destroy"} \cup Closed
           Goal == JobsInv' /\ DumpNoted' /\ DumpStops'
<1>0. JobsInv /\ DumpNoted /\ DumpStops /\ \A i, j \in DumpJobs : i = j /\ doing # "dump"
  BY DEF IInv, DumpStops
<1>1. main \in Gone => ~DumpScheduled \/ overtaken
  BY <1>0 DEF DumpStops, Closed
<1>2. ASSUME jobs' \subseteq jobs, UNCHANGED <<running, dumpJob, made, victim, main, overtaken>>,
             doing' = doing \/ (doing \notin {"dump", "note"} /\ doing' \notin {"dump", "note"})
      PROVE  Goal
  <2>1. DumpJobs' \subseteq DumpJobs
    BY <1>2 DEF DumpJobs
  <2>2. DumpScheduled' => DumpScheduled
    BY <1>2, <2>1 DEF DumpScheduled
  <2>3. JobsInv'
    BY <1>0, <1>2, <2>1, <2>2 DEF JobsInv
  <2>4. DumpNoted'
    BY <1>0, <1>2, <2>1 DEF DumpNoted
  <2>5. DumpStops'
    BY <1>0, <1>2, <2>1, <2>2 DEF DumpStops
  <2> QED
    BY <2>3, <2>4, <2>5
<1>3. ASSUME UNCHANGED <<scheduler, jobs, running, doing, dumpJob, made, overtaken, victim>>,
             main' \in Early => main \in Early, main' # "note",
             main' \in {"serving", "cancel"} \cup Gone => main \in {"serving", "cancel"} \cup Gone,
             main' \in Gone => main \in Gone
      PROVE  Goal
  <2>1. DumpJobs' = DumpJobs /\ (DumpScheduled' <=> DumpScheduled)
    BY <1>3 DEF DumpJobs, DumpScheduled
  <2>2. JobsInv'
    BY <1>0, <1>3, <2>1 DEF JobsInv
  <2>3. DumpNoted'
    BY <1>0, <1>3, <2>1 DEF DumpNoted
  <2>4. DumpStops'
    <3>1. main' \in Gone => ~DumpScheduled' \/ overtaken'
      BY <1>1, <1>3, <2>1
    <3> QED
      BY <1>0, <1>3, <2>1, <3>1 DEF DumpStops, Closed
  <2> QED
    BY <2>2, <2>3, <2>4
<1>4. ASSUME Main("dump", "note"), ScheduleDump, victim' = made + 1, UNCHANGED <<running, doing, dumpJob, overtaken>>
      PROVE  Goal
  <2>1. main = "dump" /\ main' = "note" /\ ~DumpScheduled
    BY <1>0, <1>4 DEF Main, JobsInv
  <2>2. DumpJobs = {} /\ doing \notin {"dump", "note"} /\ doing' = doing
    BY <1>4, <2>1 DEF DumpScheduled
  <2>3. made' = made + 1 /\ made \in Nat \ {0} /\ jobs' = jobs \cup {<<made + 1, "dump">>}
    BY <1>0, <1>4 DEF ScheduleDump, JobsInv
  <2>4. DumpJobs' = {<<made + 1, "dump">>}
    BY <2>2, <2>3 DEF DumpJobs
  <2>5. \A j \in jobs' : j[1] \in Nat /\ j[1] # NoJob /\ j[1] <= made' /\ j[2] \in {"edit", "dump"}
    BY <1>0, <2>3 DEF JobsInv, NoJob
  <2>6. JobsInv'
    BY <1>0, <1>4, <2>1, <2>2, <2>3, <2>4, <2>5 DEF JobsInv
  <2>7. DumpNoted' /\ DumpStops'
    BY <1>4, <2>1, <2>2, <2>3, <2>4 DEF DumpNoted, DumpStops, Closed
  <2> QED
    BY <2>6, <2>7
<1>5. ASSUME Main("note", "serving"), NoteFirst(victim), UNCHANGED victim PROVE Goal
  <2>1. /\ main = "note" /\ main' = "serving" /\ dumpJob' = victim /\ overtaken' = (made # victim)
        /\ UNCHANGED <<jobs, running, doing, made, victim>>
    BY <1>5 DEF Main, NoteFirst
  <2>2. DumpJobs' = DumpJobs
    BY <2>1 DEF DumpJobs
  <2> QED
    BY <1>0, <2>1, <2>2 DEF JobsInv, DumpNoted, DumpStops, Closed
<1>6. ASSUME CancelCarried PROVE Goal
  <2>1. /\ main = "cancel" /\ running = NoJob /\ jobs' = {j \in jobs : j[1] # victim}
        /\ main' = (IF dumpJob = victim THEN "destroy" ELSE "cancel") /\ victim' = dumpJob
        /\ UNCHANGED <<running, doing, dumpJob, made, overtaken>>
    BY <1>6 DEF CancelCarried, Carried
  <2>2. DumpJobs' = {j \in DumpJobs : j[1] # victim} /\ doing \notin {"dump", "note"}
    BY <1>0, <2>1 DEF DumpJobs, JobsInv
  <2>3. main' = "destroy" => overtaken \/ DumpJobs' = {}
    BY <1>0, <2>1, <2>2 DEF DumpNoted
  <2>4. JobsInv'
    BY <1>0, <2>1, <2>2 DEF JobsInv
  <2>5. DumpNoted'
    BY <1>0, <2>1, <2>2 DEF DumpNoted
  <2>6. DumpStops'
    BY <1>0, <2>1, <2>2, <2>3 DEF DumpStops, DumpScheduled
  <2> QED
    BY <2>4, <2>5, <2>6
<1>7. ASSUME EndService PROVE Goal
  <2>1. /\ main = "serving" /\ main' = "cancel" /\ victim' = dumpJob
        /\ UNCHANGED <<jobs, running, doing, dumpJob, made, overtaken>>
    BY <1>7 DEF EndService, Main, jvars
  <2>2. DumpJobs' = DumpJobs
    BY <2>1 DEF DumpJobs
  <2> QED
    BY <1>0, <2>1, <2>2 DEF JobsInv, DumpNoted, DumpStops, Closed
<1>8. ASSUME FlushJobs PROVE Goal
  <2>1. /\ main = "flush" /\ main' = "release" /\ jobs' = {}
        /\ UNCHANGED <<running, doing, dumpJob, made, overtaken, victim>>
    BY <1>8 DEF FlushJobs, Flush, Main
  <2>2. DumpJobs' = {} /\ (DumpScheduled' => DumpScheduled)
    BY <2>1 DEF DumpJobs, DumpScheduled
  <2> QED
    BY <1>0, <2>1, <2>2 DEF JobsInv, DumpNoted, DumpStops, Closed
<1>9. ASSUME MainStep PROVE Goal
  <2>1. CASE OpenPort \/ MapHosts \/ NewStats \/ AddStats \/ DestroyStats \/ ClosePort \/ ReleaseHandlers
    <3>1. UNCHANGED <<scheduler, jobs, running, doing, dumpJob, made, overtaken, victim>>
      BY <2>1 DEF OpenPort, MapHosts, NewStats, AddStats, DestroyStats, ClosePort, ReleaseHandlers, jvars
    <3>2. \/ main \in Early /\ main' \in Early
          \/ main \in Gone /\ main' \in Gone
      BY <2>1 DEF OpenPort, MapHosts, NewStats, AddStats, DestroyStats, ClosePort, ReleaseHandlers, Main, Closed
    <3> QED
      BY <1>3, <3>1, <3>2 DEF Closed
  <2>2. CASE StopJobs
    <3>1. main = "stop" /\ main' = "flush" /\ UNCHANGED <<jobs, running, doing, dumpJob, made, overtaken, victim>>
      BY <2>2 DEF StopJobs, StopScheduler, Main
    <3>2. DumpJobs' = DumpJobs /\ (DumpScheduled' <=> DumpScheduled)
      BY <3>1 DEF DumpJobs, DumpScheduled
    <3> QED
      BY <1>0, <3>1, <3>2 DEF JobsInv, DumpNoted, DumpStops, Closed
  <2>3. CASE StartDump
    BY <1>4, <2>3 DEF StartDump
  <2>4. CASE DumpStarted
    BY <1>5, <2>4 DEF DumpStarted
  <2> QED
    BY <1>6, <1>8, <1>9, <2>1, <2>2, <2>3, <2>4 DEF MainStep
<1>10. ASSUME NEW j \in jobs, Run(j), UNCHANGED <<main, victim>> PROVE Goal
  <2>1. /\ jobs' = jobs \ {j} /\ running = NoJob /\ running' = j[1] /\ doing' = j[2]
        /\ UNCHANGED <<dumpJob, made, overtaken, main, victim>>
    BY <1>10 DEF Run
  <2>2. /\ doing \notin {"dump", "note"} /\ j[1] \in Nat /\ j[1] # NoJob
    BY <1>0, <2>1 DEF JobsInv
  <2>3. CASE j[2] = "dump"
    <3>1. j \in DumpJobs /\ DumpJobs' = {} /\ doing' = "dump"
      BY <1>0, <2>1, <2>3 DEF DumpJobs, JobsInv
    <3>2. DumpScheduled
      BY <3>1 DEF DumpScheduled
    <3> QED
      BY <1>0, <2>1, <2>2, <3>1, <3>2 DEF JobsInv, DumpNoted, DumpStops, Closed
  <2>4. CASE j[2] # "dump"
    <3>1. DumpJobs' = DumpJobs /\ doing' # "dump"
      BY <2>1, <2>4 DEF DumpJobs
    <3>2. doing' # "note"
      BY <1>0, <2>1 DEF JobsInv
    <3>3. DumpScheduled' <=> DumpScheduled
      BY <2>2, <3>1, <3>2 DEF DumpScheduled
    <3> QED
      BY <1>0, <2>1, <2>2, <3>1, <3>2, <3>3 DEF JobsInv, DumpNoted, DumpStops, Closed
  <2> QED
    BY <2>3, <2>4
<1>11. ASSUME Dump, UNCHANGED <<main, victim>> PROVE Goal
  <2>1. /\ doing = "dump" /\ doing' = "note" /\ made' = made + 1 /\ jobs' = jobs \cup {<<made + 1, "dump">>}
        /\ UNCHANGED <<running, dumpJob, overtaken, main, victim>>
    BY <1>11 DEF Dump, ScheduleDump
  <2>2. /\ made \in Nat \ {0} /\ DumpJobs = {} /\ running # NoJob /\ main \notin Early
    BY <1>0, <2>1 DEF JobsInv, DumpScheduled
  <2>3. DumpJobs' = {<<made + 1, "dump">>}
    BY <2>1, <2>2 DEF DumpJobs
  <2>4. \A j \in jobs' : j[1] \in Nat /\ j[1] # NoJob /\ j[1] <= made' /\ j[2] \in {"edit", "dump"}
    BY <1>0, <2>1, <2>2 DEF JobsInv, NoJob
  <2>5. dumpJob <= made' /\ victim <= made' /\ made' # victim
    BY <1>0, <2>1, <2>2 DEF JobsInv
  <2>6. JobsInv'
    BY <1>0, <2>1, <2>2, <2>3, <2>4, <2>5 DEF JobsInv
  <2>7. DumpNoted'
    BY <2>1, <2>3, <2>5 DEF DumpNoted
  <2>8. DumpStops'
    <3>1. DumpScheduled
      BY <2>1 DEF DumpScheduled
    <3> QED
      BY <1>0, <2>1, <2>3, <3>1 DEF DumpStops
  <2> QED
    BY <2>6, <2>7, <2>8
<1>12. ASSUME NoteDump, UNCHANGED <<main, victim>> PROVE Goal
  <2>1. /\ doing = "note" /\ doing' = "none" /\ dumpJob' = made /\ running' = NoJob
        /\ UNCHANGED <<jobs, made, overtaken, main, victim>>
    BY <1>12 DEF NoteDump, JobEnds
  <2>2. DumpJobs' = DumpJobs /\ DumpScheduled
    BY <2>1 DEF DumpJobs, DumpScheduled
  <2> QED
    BY <1>0, <2>1, <2>2 DEF JobsInv, DumpNoted, DumpStops, Closed, NoJob
<1>13. ASSUME RunEdit PROVE Goal
  BY <1>2, <1>13 DEF RunEdit
<1>14. ASSUME Edit PROVE Goal
  <2>1. /\ doing = "write" /\ doing' = "none" /\ running' = NoJob
        /\ UNCHANGED <<jobs, dumpJob, made, overtaken, main, victim>>
    BY <1>14 DEF Edit, JobEnds
  <2>2. DumpJobs' = DumpJobs /\ (DumpScheduled' <=> DumpScheduled)
    BY <2>1 DEF DumpJobs, DumpScheduled
  <2> QED
    BY <1>0, <2>1, <2>2 DEF JobsInv, DumpNoted, DumpStops, Closed, NoJob
<1>15. ASSUME RunJob \/ FinishJob PROVE Goal
  BY <1>10, <1>11, <1>12, <1>13, <1>14, <1>15 DEF RunJob, FinishJob
<1>16. ASSUME NEW t \in Conns, Request(t) \/ Connection(t) PROVE Goal
  <2>1. jobs' \subseteq jobs /\ UNCHANGED <<running, doing, dumpJob, made, victim, main, overtaken>>
    BY <1>16 DEF Request, Connection, HandlerCancels, Carried, jvars
  <2> QED
    BY <1>2, <2>1
<1>17. CASE UNCHANGED vars
  BY <1>2, <1>17 DEF vars, jvars
<1> QED
  BY <1>7, <1>9, <1>15, <1>16, <1>17 DEF Next

LEMMA InitHolds == Init => IInv
<1> SUFFICES ASSUME Init PROVE IInv
  OBVIOUS
<1> USE DEF SiteHandlers
<1>1. SitesInit /\ JobsInit /\ main = "start" /\ victim = NoJob
  BY DEF Init
<1>2. \A t \in Conns : at[t] = "idle" /\ frames[t] = <<>> /\ chain[t] = <<>>
  BY <1>1 DEF SitesInit
<1>3. Typed
  <2>1. <<>> \in Seq(PathParts) /\ <<>> \in Seq(FrameRecords) /\ <<>> \in Seq(SiteHandlers)
    OBVIOUS
  <2>2. pathMap \in [Keys -> SiteHandlers]
    BY <1>1, SitesAssumption DEF SitesInit, Keys, Range
  <2>3. hostMap \in [DOMAIN hostMap -> HostMappings]
    BY <1>1 DEF SitesInit
  <2>4. /\ held \in [Threads -> Nat] /\ writers \subseteq Threads /\ at \in [Conns -> Places]
        /\ requests \in 0..MaxRequests
    BY <1>1, SitesAssumption DEF SitesInit, Places
  <2>5. vpath \in [Conns -> Seq(PathParts)] /\ frames \in [Conns -> Seq(FrameRecords)] /\ chain \in [Conns -> Seq(SiteHandlers)]
    BY <1>1, <2>1 DEF SitesInit
  <2> QED
    BY <1>1, <2>2, <2>3, <2>4, <2>5 DEF Typed, SitesInit
<1>4. Locks
  BY <1>1, <1>2 DEF Locks, SitesInit, Threads
<1>5. \A t \in Conns : LookupOf(t) /\ ChainOf(t)
  BY <1>2 DEF LookupOf, ChainOf, Called, Calls
<1>6. Dead
  BY <1>1 DEF SitesInit, Dead, NoDeadUse, StatsDestroyedInMap, Closed
<1>7. DumpJobs = {}
  BY <1>1, JobsAssumption DEF JobsInit, DumpJobs
<1>8. \A j \in jobs : j[1] = 1 /\ j[2] = "edit"
  BY <1>1, JobsAssumption DEF JobsInit
<1>9. JobsInv /\ DumpNoted /\ DumpStops
  BY <1>1, <1>7, <1>8 DEF JobsInit, JobsInv, DumpNoted, DumpStops, DumpScheduled, Closed, NoJob
<1>10. SitesStay
  BY <1>1 DEF SitesInit, SitesStay, Keys
<1> QED
  BY <1>3, <1>4, <1>5, <1>6, <1>9, <1>10 DEF IInv, SitesInv

LEMMA Inductive == Spec => []IInv
<1>1. IInv /\ [Next]_vars => IInv'
  BY SitesKept, StayKept, DeadKept, JobsKept DEF IInv
<1> QED
  BY InitHolds, <1>1, PTL DEF Spec

-----------------------------------------------------------------------------
(* The handlers on the stack of a thread are the nearest willing ones of   *)
(* the map the thread has locked.                                          *)
LEMMA LookupSays == SitesInv => NearestCalled
<1> SUFFICES ASSUME SitesInv, NEW t \in Conns, NEW n \in 1..Len(frames[t]), frames[t][n].h # None
             PROVE  LET f == frames[t][n]
                        keys == Matches(f.path) \cap DOMAIN mapped[t]
                    IN  /\ \E k \in keys : Len(k) = f.below /\ mapped[t][k] = f.h
                        /\ \A k \in keys : Len(k) > f.below => does[mapped[t][k]] = "pass"
  BY DEF NearestCalled
<1>1. LookupOf(t) /\ Typed
  BY DEF SitesInv
<1>2. frames[t] # <<>>
  BY <1>1 DEF Typed
<1>3. mapped[t] = pathMap /\ FrameRight(frames[t][n])
  BY <1>1, <1>2 DEF LookupOf
<1> QED
  BY <1>3 DEF FrameRight, Keys

LEMMA ChainSays == SitesInv => DataGoesToTaker
<1> SUFFICES ASSUME SitesInv, NEW t \in Conns, at[t] = "data"
             PROVE  KeptBetween(t) \/ curHandler[t] = Last(chain[t])
  BY DEF DataGoesToTaker
<1>1. ChainOf(t) /\ chain[t] \in Seq(SiteHandlers) /\ Len(chain[t]) \in Nat
  BY DEF SitesInv, Typed
<1>2. Len(chain[t]) >= 1 /\ curHandler[t] = IF Len(chain[t]) > 1 THEN chain[t][2] ELSE chain[t][1]
  BY <1>1 DEF ChainOf
<1>3. Last(chain[t]) = chain[t][Len(chain[t])]
  BY DEF Last
<1> DEFINE m == Len(chain[t])
<1>4. m = 1 \/ m = 2 \/ m > 2
  <2>1. m \in Nat /\ m >= 1
    BY <1>1, <1>2
  <2> HIDE DEF m
  <2> QED
    BY <2>1
<1> QED
  BY <1>2, <1>3, <1>4 DEF KeptBetween

LEMMA TypesSay == IInv => TypeOK
<1> SUFFICES ASSUME IInv PROVE TypeOK
  OBVIOUS
<1>1. Typed /\ Locks /\ JobsInv
  BY DEF IInv, SitesInv
<1>2. \A t \in Conns : held[t] = Len(frames[t]) /\ (frames[t] = <<>> => at[t] \in {"idle", "map", "find", "data"})
  <2> SUFFICES ASSUME NEW t \in Conns, frames[t] = <<>> PROVE at[t] \in {"idle", "map", "find", "data"}
    BY <1>1 DEF Locks
  <2>1. ChainOf(t) /\ Len(chain[t]) \in Nat /\ at[t] \in Places
    BY <1>1 DEF IInv, SitesInv, Typed
  <2> QED
    BY <2>1 DEF ChainOf, Called, Calls, Places
<1>3. requests <= MaxRequests
  BY <1>1, SitesAssumption DEF Typed
<1> QED
  BY <1>1, <1>2, <1>3 DEF TypeOK, Typed, JobsInv

(* A server keeps its types, from the start of the main program to the end *)
(* of its destructors.                                                     *)
THEOREM TypeCorrect == Spec => []TypeOK
  BY Inductive, TypesSay, PTL

(* A request is offered to the willing handlers of its path, the nearest   *)
(* one first, while sites are added and removed (callHandler, MappingIter).*)
THEOREM NearestAlways == Spec => []NearestCalled
<1>1. IInv => NearestCalled
  BY LookupSays DEF IInv
<1> QED
  BY Inductive, <1>1, PTL

(* Data goes to the handler that took the request in the end, but for the  *)
(* defect named (forwardRequest, callHandler, onData).                     *)
THEOREM TakerAlways == Spec => []DataGoesToTaker
<1>1. IInv => DataGoesToTaker
  BY ChainSays DEF IInv
<1> QED
  BY Inductive, <1>1, PTL

(* There is one dump of the statistics at a time, and none once            *)
(* stopDumpJob has returned, but when the first was faster than the number *)
(* noted for it (StatHandler, JobSchedulerImpl::cancel).                   *)
THEOREM DumpStopsAlways == Spec => []DumpStops
<1>1. IInv => DumpStops
  BY DEF IInv
<1> QED
  BY Inductive, <1>1, PTL

(* What the run checks: these, sites stay where they were added, and       *)
(* destroyed handlers are not used, but for the defects named (addSite,    *)
(* startService).                                                          *)
THEOREM AlwaysConsistent == Spec => []Consistent
<1>1. IInv => Consistent
  BY TypesSay, LookupSays, ChainSays DEF IInv, Dead, Consistent
<1> QED
  BY Inductive, <1>1, PTL

-----------------------------------------------------------------------------
(* BusyThreads, for any threads, depth and limit: the semaphore of         *)
(* busyThreadsControl.cpp with every use that a handler may make of it.    *)

(* The two sets that the accounting counts are finite. *)
LEMMA CountedSetsFinite ==
    /\ IsFiniteSet(Busy) /\ Cardinality(Busy) \in Nat
    /\ IsFiniteSet(DoubleReleased) /\ Cardinality(DoubleReleased) \in Nat
<1>1. IsFiniteSet(Users)
  BY BusyAssumption, FS_Union DEF Admissible, Users
<1>2. Busy \in SUBSET Handlers
  BY DEF Busy
<1>3. DoubleReleased \in SUBSET Users
  BY DEF DoubleReleased
<1>4. IsFiniteSet(Busy) /\ IsFiniteSet(DoubleReleased)
  BY BusyAssumption, <1>1, <1>2, <1>3, FS_Subset DEF Admissible
<1> QED
  BY <1>4, FS_CardinalityType

(* Every variable keeps its type; an outsider never enters an event.       *)
LEMMA LimitTypeStep ==
    BusyTypeOK /\ [BusyNext]_busyVars => BusyTypeOK'
<1> SUFFICES ASSUME BusyTypeOK, [BusyNext]_busyVars
             PROVE  BusyTypeOK'
  OBVIOUS
<1> USE BusyAssumption DEF Admissible, BusyTypeOK, Users, States, Become, Lock, Unlock
<1>1. ASSUME NEW t \in Handlers, EventArrives(t) PROVE BusyTypeOK'
  BY <1>1 DEF EventArrives
<1>2. ASSUME NEW t \in Handlers, EnterBusy(t) PROVE BusyTypeOK'
  BY <1>2 DEF EnterBusy
<1>3. ASSUME NEW t \in Handlers, Leave(t) PROVE BusyTypeOK'
  BY <1>3 DEF Leave
<1>4. ASSUME NEW t \in Handlers, BeginIO(t) PROVE BusyTypeOK'
  BY <1>4 DEF BeginIO
<1>5. ASSUME NEW t \in Handlers, EndIO(t) PROVE BusyTypeOK'
  BY <1>5 DEF EndIO
<1>6. ASSUME NEW t \in Handlers, Relock(t) PROVE BusyTypeOK'
  BY <1>6 DEF Relock
<1>7. ASSUME NEW t \in Users, BeginWait(t) PROVE BusyTypeOK'
  BY <1>7 DEF BeginWait
<1>8. ASSUME NEW t \in Users, EndPoll(t) PROVE BusyTypeOK'
  BY <1>8 DEF EndPoll
<1>9. ASSUME NEW t \in Users, EndWait(t) PROVE BusyTypeOK'
  BY <1>9 DEF EndWait
<1>10. CASE UNCHANGED busyVars
  BY <1>10 DEF busyVars
<1> QED
  BY <1>1, <1>2, <1>3, <1>4, <1>5, <1>6, <1>7, <1>8, <1>9, <1>10
  DEF BusyNext, Handle, WaitForNetwork

(* The type invariant of the semaphore, its users and the counters.        *)
THEOREM LimitTypeCorrect == BusySpec => []BusyTypeOK
<1>1. BusyInit => BusyTypeOK
  BY BusyAssumption DEF Admissible, BusyInit, BusyTypeOK, Users, States
<1> QED
  BY <1>1, LimitTypeStep, PTL DEF BusySpec


(* What Accounting needs beside the types: where a thread stands decides   *)
(* whether it can have a section open.                                     *)
LEMMA LimitSectionsStep ==
    BusyTypeOK /\ SectionsClosed /\ [BusyNext]_busyVars => SectionsClosed'
<1> SUFFICES ASSUME BusyTypeOK, SectionsClosed, [BusyNext]_busyVars
             PROVE  SectionsClosed'
  OBVIOUS
<1> USE BusyAssumption DEF Admissible, BusyTypeOK, SectionsClosed, Users, States, Become, Lock, Unlock
<1>1. ASSUME NEW t \in Handlers, EventArrives(t) PROVE SectionsClosed'
  BY <1>1 DEF EventArrives
<1>2. ASSUME NEW t \in Handlers, EnterBusy(t) PROVE SectionsClosed'
  BY <1>2 DEF EnterBusy
<1>3. ASSUME NEW t \in Handlers, Leave(t) PROVE SectionsClosed'
  BY <1>3 DEF Leave
<1>4. ASSUME NEW t \in Handlers, BeginIO(t) PROVE SectionsClosed'
  BY <1>4 DEF BeginIO
<1>5. ASSUME NEW t \in Handlers, EndIO(t) PROVE SectionsClosed'
  BY <1>5 DEF EndIO
<1>6. ASSUME NEW t \in Handlers, Relock(t) PROVE SectionsClosed'
  BY <1>6 DEF Relock
<1>7. ASSUME NEW t \in Users, BeginWait(t) PROVE SectionsClosed'
  BY <1>7 DEF BeginWait
<1>8. ASSUME NEW t \in Users, EndPoll(t) PROVE SectionsClosed'
  BY <1>8 DEF EndPoll
<1>9. ASSUME NEW t \in Users, EndWait(t) PROVE SectionsClosed'
  BY <1>9 DEF EndWait
<1>10. CASE UNCHANGED busyVars
  BY <1>10 DEF busyVars
<1> QED
  BY <1>1, <1>2, <1>3, <1>4, <1>5, <1>6, <1>7, <1>8, <1>9, <1>10
  DEF BusyNext, Handle, WaitForNetwork

(* How the two counts follow their sets when one thread joins or leaves.   *)
LEMMA CountingOne ==
    ASSUME NEW t
    PROVE  /\ Busy' = Busy => Cardinality(Busy') = Cardinality(Busy)
           /\ t \notin Busy /\ Busy' = Busy \cup {t}
                => Cardinality(Busy') = Cardinality(Busy) + 1
           /\ t \in Busy /\ Busy' = Busy \ {t}
                => Cardinality(Busy') = Cardinality(Busy) - 1
           /\ DoubleReleased' = DoubleReleased
                => Cardinality(DoubleReleased') = Cardinality(DoubleReleased)
           /\ t \notin DoubleReleased /\ DoubleReleased' = DoubleReleased \cup {t}
                => Cardinality(DoubleReleased') = Cardinality(DoubleReleased) + 1
           /\ t \in DoubleReleased /\ DoubleReleased' = DoubleReleased \ {t}
                => Cardinality(DoubleReleased') = Cardinality(DoubleReleased) - 1
<1>1. /\ t \notin Busy /\ Busy' = Busy \cup {t}
           => Cardinality(Busy') = Cardinality(Busy) + 1
      /\ t \in Busy /\ Busy' = Busy \ {t}
           => Cardinality(Busy') = Cardinality(Busy) - 1
  BY CountedSetsFinite, FS_AddElement, FS_RemoveElement
<1>2. /\ t \notin DoubleReleased /\ DoubleReleased' = DoubleReleased \cup {t}
           => Cardinality(DoubleReleased') = Cardinality(DoubleReleased) + 1
      /\ t \in DoubleReleased /\ DoubleReleased' = DoubleReleased \ {t}
           => Cardinality(DoubleReleased') = Cardinality(DoubleReleased) - 1
  BY CountedSetsFinite, FS_AddElement, FS_RemoveElement
<1> QED
  BY <1>1, <1>2

(* Every step keeps the books: the permits, the busy threads and the       *)
(* double releases change together.                                        *)
LEMMA AccountingStep ==
    BusyTypeOK /\ SectionsClosed /\ Accounting /\ [BusyNext]_busyVars => Accounting'
<1> SUFFICES ASSUME BusyTypeOK, SectionsClosed, Accounting, [BusyNext]_busyVars
             PROVE  Accounting'
  OBVIOUS
<1>a. /\ Cardinality(Busy) \in Nat /\ Cardinality(DoubleReleased) \in Nat
      /\ permits \in Nat /\ MaxBusy \in Nat
  BY BusyAssumption, CountedSetsFinite DEF Admissible, BusyTypeOK
<1>b. ASSUME NEW t,
             \/ Busy' = Busy /\ DoubleReleased' = DoubleReleased /\ permits' = permits
             \/ /\ t \notin Busy /\ Busy' = Busy \cup {t}
                /\ DoubleReleased' = DoubleReleased /\ permits' = permits - 1
             \/ /\ t \in Busy /\ Busy' = Busy \ {t}
                /\ DoubleReleased' = DoubleReleased /\ permits' = permits + 1
             \/ /\ t \notin DoubleReleased /\ DoubleReleased' = DoubleReleased \cup {t}
                /\ Busy' = Busy /\ permits' = permits + 1
             \/ /\ t \in DoubleReleased /\ DoubleReleased' = DoubleReleased \ {t}
                /\ Busy' = Busy /\ permits' = permits - 1
      PROVE  Accounting'
  <2> DEFINE b == Cardinality(Busy)     bn == Cardinality(Busy')
             d == Cardinality(DoubleReleased)  dn == Cardinality(DoubleReleased')
  <2>1. \/ bn = b /\ dn = d /\ permits' = permits
        \/ bn = b + 1 /\ dn = d /\ permits' = permits - 1
        \/ bn = b - 1 /\ dn = d /\ permits' = permits + 1
        \/ bn = b /\ dn = d + 1 /\ permits' = permits + 1
        \/ bn = b /\ dn = d - 1 /\ permits' = permits - 1
    BY <1>b, CountingOne
  <2>2. permits + b = MaxBusy + d
    BY DEF Accounting
  <2>3. SUFFICES permits' + bn = MaxBusy + dn
    BY DEF Accounting
  <2> HIDE DEF b, bn, d, dn
  <2>4. b \in Nat /\ d \in Nat
    BY <1>a DEF b, d
  <2> QED
    BY <1>a, <2>1, <2>2, <2>4
<1> USE BusyAssumption DEF Admissible, BusyTypeOK, SectionsClosed, Users, States, Become, Lock, Unlock
<1>1. ASSUME NEW t \in Handlers, EventArrives(t) PROVE Accounting'
  <2>1. Busy' = Busy /\ DoubleReleased' = DoubleReleased
    BY <1>1 DEF EventArrives, Busy, DoubleReleased
  <2> QED BY <1>1, <1>b, <2>1 DEF EventArrives
<1>2. ASSUME NEW t \in Handlers, EnterBusy(t) PROVE Accounting'
  <2>1. t \notin Busy /\ Busy' = Busy \cup {t}
    BY <1>2 DEF EnterBusy, Busy
  <2>2. DoubleReleased' = DoubleReleased
    BY <1>2 DEF EnterBusy, DoubleReleased
  <2> QED BY <1>2, <1>b, <2>1, <2>2 DEF EnterBusy
<1>3. ASSUME NEW t \in Handlers, Leave(t) PROVE Accounting'
  <2>1. t \in Busy /\ Busy' = Busy \ {t}
    BY <1>3 DEF Leave, Busy
  <2>2. DoubleReleased' = DoubleReleased
    BY <1>3 DEF Leave, DoubleReleased
  <2> QED BY <1>3, <1>b, <2>1, <2>2 DEF Leave
<1>4. ASSUME NEW t \in Handlers, BeginIO(t) PROVE Accounting'
  <2>1. DoubleReleased' = DoubleReleased
    BY <1>4 DEF BeginIO, DoubleReleased
  <2>2. CASE depth[t] = 0
    <3>1. t \in Busy /\ Busy' = Busy \ {t}
      BY <1>4, <2>2 DEF BeginIO, Busy
    <3> QED BY <1>4, <1>b, <2>1, <2>2, <3>1 DEF BeginIO
  <2>3. CASE depth[t] # 0
    <3>1. Busy' = Busy
      BY <1>4, <2>3 DEF BeginIO, Busy
    <3> QED BY <1>4, <1>b, <2>1, <2>3, <3>1 DEF BeginIO
  <2> QED BY <2>2, <2>3
<1>5. ASSUME NEW t \in Handlers, EndIO(t) PROVE Accounting'
  <2>1. Busy' = Busy /\ DoubleReleased' = DoubleReleased
    BY <1>5 DEF EndIO, Busy, DoubleReleased
  <2> QED BY <1>5, <1>b, <2>1 DEF EndIO
<1>6. ASSUME NEW t \in Handlers, Relock(t) PROVE Accounting'
  <2>1. t \notin Busy /\ Busy' = Busy \cup {t}
    BY <1>6 DEF Relock, Busy
  <2>2. DoubleReleased' = DoubleReleased
    BY <1>6 DEF Relock, DoubleReleased
  <2> QED BY <1>6, <1>b, <2>1, <2>2 DEF Relock
<1>7. ASSUME NEW t \in Users, BeginWait(t) PROVE Accounting'
  <2>1. CASE t \in Handlers /\ depth[t] = 0
    <3>1. t \in Busy /\ Busy' = Busy \ {t}
      BY <1>7, <2>1 DEF BeginWait, Busy
    <3>2. DoubleReleased' = DoubleReleased
      BY <1>7, <2>1 DEF BeginWait, DoubleReleased
    <3> QED BY <1>7, <1>b, <3>1, <3>2 DEF BeginWait
  <2>2. CASE ~ (t \in Handlers /\ depth[t] = 0)
    <3>1. Busy' = Busy
      BY <1>7, <2>2 DEF BeginWait, Busy
    <3>2. t \notin DoubleReleased /\ DoubleReleased' = DoubleReleased \cup {t}
      BY <1>7, <2>2 DEF BeginWait, DoubleReleased
    <3> QED BY <1>7, <1>b, <3>1, <3>2 DEF BeginWait
  <2> QED BY <2>1, <2>2
<1>8. ASSUME NEW t \in Users, EndPoll(t) PROVE Accounting'
  <2>1. Busy' = Busy /\ DoubleReleased' = DoubleReleased
    BY <1>8 DEF EndPoll, Busy, DoubleReleased
  <2> QED BY <1>8, <1>b, <2>1 DEF EndPoll
<1>9. ASSUME NEW t \in Users, EndWait(t) PROVE Accounting'
  <2>1. CASE t \in Handlers /\ depth[t] = 0
    <3>1. t \notin Busy /\ Busy' = Busy \cup {t}
      BY <1>9, <2>1 DEF EndWait, Busy
    <3>2. DoubleReleased' = DoubleReleased
      BY <1>9, <2>1 DEF EndWait, DoubleReleased
    <3> QED BY <1>9, <1>b, <3>1, <3>2 DEF EndWait
  <2>2. CASE ~ (t \in Handlers /\ depth[t] = 0)
    <3>1. Busy' = Busy
      BY <1>9, <2>2 DEF EndWait, Busy
    <3>2. t \in DoubleReleased /\ DoubleReleased' = DoubleReleased \ {t}
      BY <1>9, <2>2 DEF EndWait, DoubleReleased
    <3> QED BY <1>9, <1>b, <3>1, <3>2 DEF EndWait
  <2> QED BY <2>1, <2>2
<1>10. CASE UNCHANGED busyVars
  <2>1. Busy' = Busy /\ DoubleReleased' = DoubleReleased
    BY <1>10 DEF busyVars, Busy, DoubleReleased
  <2> QED BY <1>10, <1>b, <2>1 DEF busyVars
<1> QED
  BY <1>1, <1>2, <1>3, <1>4, <1>5, <1>6, <1>7, <1>8, <1>9, <1>10
  DEF BusyNext, Handle, WaitForNetwork

(* No permit is lost or invented, for any number of threads, permits and   *)
(* nested sections.                                                        *)
THEOREM PermitsAccounted == BusySpec => []Accounting
<1> DEFINE Books == BusyTypeOK /\ SectionsClosed /\ Accounting
<1>1. BusyInit => Books
  <2> SUFFICES ASSUME BusyInit PROVE Books
    OBVIOUS
  <2>1. BusyTypeOK /\ SectionsClosed
    BY BusyAssumption DEF Admissible, BusyInit, BusyTypeOK, SectionsClosed, Users, States
  <2>2. Busy = {} /\ DoubleReleased = {}
    BY BusyAssumption DEF Admissible, BusyInit, Busy, DoubleReleased, Users
  <2> QED
    BY BusyAssumption, <2>1, <2>2, FS_EmptySet DEF Admissible, BusyInit, Accounting
<1>2. Books /\ [BusyNext]_busyVars => Books'
  BY LimitTypeStep, LimitSectionsStep, AccountingStep
<1> QED
  BY <1>1, <1>2, PTL DEF BusySpec

(* Whatever threads do, the number of busy threads exceeds the configured  *)
(* limit at most by the number of threads inside a wait they entered       *)
(* without a permit.                                                       *)
THEOREM BusyExcessBounded == BusySpec => [](Cardinality(Busy) <= MaxBusy + Cardinality(DoubleReleased))
<1>1. BusyTypeOK /\ Accounting
        => Cardinality(Busy) <= MaxBusy + Cardinality(DoubleReleased)
  BY BusyAssumption, CountedSetsFinite DEF Admissible, BusyTypeOK, Accounting
<1> QED
  BY <1>1, LimitTypeCorrect, PermitsAccounted, PTL

(* When handlers stay away from the network inside their I/O sections and  *)
(* nobody else writes to the connections, the documented limit holds.      *)
THEOREM LimitHolds ==
    ASSUME WaitInSection = FALSE, Outsiders = {}
    PROVE  BusySpec => []BusyLimit
<1> DEFINE NoDouble == DoubleReleased = {}
           Books == BusyTypeOK /\ NoDouble
<1>1. BusyInit => Books
  BY BusyAssumption DEF Admissible, BusyInit, BusyTypeOK, Users, States, DoubleReleased
<1>2. Books /\ [BusyNext]_busyVars => Books'
  <2> SUFFICES ASSUME BusyTypeOK, NoDouble, [BusyNext]_busyVars PROVE NoDouble'
    BY LimitTypeStep
  <2> USE BusyAssumption
      DEF Admissible, BusyTypeOK, Users, States, Become, Lock, Unlock, DoubleReleased
  <2>1. ASSUME NEW t \in Handlers, Handle(t) PROVE NoDouble'
    BY <2>1 DEF Handle, EventArrives, EnterBusy, Leave, BeginIO, EndIO, Relock
  <2>2. ASSUME NEW t \in Users, WaitForNetwork(t) PROVE NoDouble'
    BY <2>2 DEF WaitForNetwork, BeginWait, EndPoll, EndWait
  <2>3. CASE UNCHANGED busyVars
    BY <2>3 DEF busyVars
  <2> QED BY <2>1, <2>2, <2>3 DEF BusyNext
<1>3. BusyTypeOK /\ NoDouble /\ Accounting => BusyLimit
  BY BusyAssumption, CountedSetsFinite, FS_EmptySet
  DEF Admissible, BusyTypeOK, Accounting, BusyLimit
<1> QED
  BY <1>1, <1>2, <1>3, PermitsAccounted, PTL DEF BusySpec

(* What the run of BusyThreads checks as one invariant: the types, and     *)
(* permits that add up, for any threads, nesting and limit.                *)
THEOREM LimitAlwaysConsistent == BusySpec => []PermitsConsistent
<1>1. BusyTypeOK /\ Accounting => PermitsConsistent
  BY DEF PermitsConsistent
<1> QED
  BY <1>1, LimitTypeCorrect, PermitsAccounted, PTL
=============================================================================
