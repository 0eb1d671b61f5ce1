------------------------------- MODULE Sites --------------------------------
(***************************************************************************)
(* How a request finds its handler (ConnHandler, HttpReqImpl): the host is *)
(* mapped, then the handlers of the path are called, the longest key       *)
(* first, until one takes the request - all this while the thread holds    *)
(* the map's lock for reading, so what a handler does is done under it.    *)
(*                                                                         *)
(* A handler takes or passes; forwards the request to another path; asks   *)
(* for a link, which locks again; adds a site, which would write; or waits *)
(* for the scheduler. It may be destroyed while it is in the map.          *)
(***************************************************************************)
EXTENDS Naturals, Sequences, FiniteSets, Functions, Urls

CONSTANTS Conns,          \* threads of connections
          Others,         \* threads that edit the maps
          Sources,        \* the requests' hosts and paths
          Behaviours,     \* of the handlers
          FirstMap,       \* sites at the start
          Targets,        \* where a handler forwards to
          MaxRequests     \* bound: requests

Threads == Conns \cup Others
None == "none"

(* Paths consist of these. *)
PathParts == {"/", "?"} \cup STRING

(* What a handler may do, and where its thread may be besides. *)
Calls == {"take", "link", "pass", "forward", "edit", "cancel"}
Places == Calls \cup {"idle", "map", "find", "next", "forwarded", "data", "stuck"}

ASSUME SitesAssumption ==
    /\ MaxRequests \in Nat
    /\ \A s \in Sources : s.path \in Seq(PathParts)
    /\ FirstMap = [k \in DOMAIN FirstMap |-> FirstMap[k]]
    /\ \A d \in Behaviours :
          /\ None \notin DOMAIN d /\ d \in [DOMAIN d -> Calls]
          /\ Range(FirstMap) \subseteq DOMAIN d
          /\ \A h \in DOMAIN d : d[h] = "forward" => Targets[h] \in Seq(PathParts)

VARIABLES
    does,        \* what each handler does
    pathMap,     \* key |-> handler
    hostMap,     \* host |-> mapping
    registered,  \* history: sites added and not removed, <<key, handler>>
    held,        \* how often the thread holds the lock for reading
    writers,     \* threads that wait to write
    at,          \* where a connection's thread is
    vpath,       \* the path to look up
    frames,      \* calls of callHandler: the path, the key and the handler called
    curHandler,
    alive,       \* handlers not destroyed
    source,      \* host and path of the request
    mapped,      \* history: the map when the first handler was looked for
    chain,       \* history: who took the request in turn
    deadUse,     \* history: destroyed handlers that were called
    requests

maps == <<pathMap, hostMap, registered>>
history == <<source, mapped, chain, deadUse>>
svars == <<does, maps, held, writers, at, vpath, frames, curHandler, alive, history, requests>>

Keys == DOMAIN pathMap

SitesInit ==
    /\ does \in Behaviours
    /\ pathMap = FirstMap /\ hostMap = <<>> /\ registered = {<<k, FirstMap[k]>> : k \in DOMAIN FirstMap}
    /\ held = [t \in Threads |-> 0] /\ writers = {}
    /\ at = [t \in Conns |-> "idle"]
    /\ vpath = [t \in Conns |-> <<>>] /\ frames = [t \in Conns |-> <<>>]
    /\ curHandler = [t \in Conns |-> None]
    /\ alive = DOMAIN does
    /\ source = [t \in Conns |-> None] /\ mapped = [t \in Conns |-> FirstMap] /\ chain = [t \in Conns |-> <<>>]
    /\ deadUse = {} /\ requests = 0

Goto(t, where) == at' = [at EXCEPT ![t] = where]

(* RWLock: one that waits to write keeps those out that come to read. If   *)
(* it did not, they would only read as if it had come later.               *)
MayRead == writers = {}
MayWrite == \A t \in Threads : held[t] = 0

-----------------------------------------------------------------------------
(* finishReadHeader, to where the host is mapped. *)
Arrive(t, s) ==
    /\ at[t] = "idle" /\ requests < MaxRequests /\ requests' = requests + 1
    /\ Goto(t, "map")
    /\ source' = [source EXCEPT ![t] = s] /\ vpath' = [vpath EXCEPT ![t] = s.path]
    /\ curHandler' = [curHandler EXCEPT ![t] = None] /\ chain' = [chain EXCEPT ![t] = <<>>]
    /\ UNCHANGED <<does, maps, held, writers, frames, alive, mapped, deadUse>>

Mapping(host) == IF host \in DOMAIN hostMap THEN hostMap[host] ELSE DefaultMapping

(* mapHost: an error page without a mapping, a redirection for an empty    *)
(* path.                                                                   *)
MapHost(t) ==
    /\ at[t] = "map" /\ MayRead
    /\ LET m == Mapping(source[t].host)
       IN  IF IsMapped(m, vpath[t]) /\ MapRequest(m, vpath[t]) # <<>>
           THEN Goto(t, "find") /\ vpath' = [vpath EXCEPT ![t] = MapRequest(m, @)]
           ELSE Goto(t, "idle") /\ vpath' = [vpath EXCEPT ![t] = <<>>]
    /\ source' = [source EXCEPT ![t] = None]
    /\ UNCHANGED <<does, maps, held, writers, frames, curHandler, alive, mapped, chain, deadUse, requests>>

(* callHandler locks the map; a forwarded request does so once more. *)
CallHandler(t) ==
    /\ at[t] = "find" /\ MayRead
    /\ held' = [held EXCEPT ![t] = @ + 1]
    /\ frames' = [frames EXCEPT ![t] = Append(@, [path |-> vpath[t], below |-> Len(vpath[t]) + 1, h |-> None])]
    /\ mapped' = IF held[t] = 0 THEN [mapped EXCEPT ![t] = pathMap] ELSE mapped
    /\ Goto(t, "next")
    /\ UNCHANGED <<does, maps, writers, vpath, curHandler, alive, source, chain, deadUse, requests>>

Top(t) == Last(frames[t])
Frame(t, frame) == frames' = [frames EXCEPT ![t] = Append(Front(@), frame)]

(* callHandler returns to a handler that forwarded, which returns what it  *)
(* is given and so takes the request, or to finishReadHeader; h is null if *)
(* nobody took it.                                                         *)
Return(t, h) ==
    /\ held' = [held EXCEPT ![t] = @ - 1]
    /\ frames' = [frames EXCEPT ![t] = Front(@)]
    /\ curHandler' = [curHandler EXCEPT ![t] =
                         IF h # None /\ (Len(frames[t]) > 1 \/ @ = None) THEN h ELSE @]
    /\ Goto(t, IF Len(frames[t]) > 1 THEN "forwarded" ELSE IF h = None THEN "idle" ELSE "data")

(* The next handler of the path is called, or none is left. *)
NextHandler(t) ==
    /\ at[t] = "next"
    /\ IF KeysBelow(pathMap, Top(t).path, Top(t).below) = {}
       THEN Return(t, None) /\ UNCHANGED deadUse
       ELSE LET key == NextKey(pathMap, Top(t).path, Top(t).below)
            IN  /\ Frame(t, [Top(t) EXCEPT !.below = Len(key), !.h = pathMap[key]])
                /\ Goto(t, does[pathMap[key]])
                /\ deadUse' = deadUse \cup ({pathMap[key]} \ alive)
                /\ UNCHANGED <<held, curHandler>>
    /\ UNCHANGED <<does, maps, writers, vpath, alive, source, mapped, chain, requests>>

Take(t) ==
    /\ at[t] \in {"take", "link"} /\ (at[t] = "link" => MayRead)
    /\ chain' = [chain EXCEPT ![t] = Append(@, Top(t).h)]
    /\ Return(t, Top(t).h)
    /\ UNCHANGED <<does, maps, writers, vpath, alive, source, mapped, deadUse, requests>>

Pass(t) ==
    /\ at[t] = "pass" /\ Goto(t, "next")
    /\ UNCHANGED <<does, maps, held, writers, vpath, frames, curHandler, alive, history, requests>>

(* forwardRequest *)
Forward(t) ==
    /\ at[t] = "forward" /\ Goto(t, "find")
    /\ vpath' = [vpath EXCEPT ![t] = Targets[Top(t).h]]
    /\ chain' = [chain EXCEPT ![t] = Append(@, Top(t).h)]
    /\ UNCHANGED <<does, maps, held, writers, frames, curHandler, alive, source, mapped, deadUse, requests>>

Forwarded(t) ==
    /\ at[t] = "forwarded"
    /\ Return(t, Top(t).h)
    /\ UNCHANGED <<does, maps, writers, vpath, alive, history, requests>>

(* A handler calls addSite: it waits for its own lock. *)
EditInside(t) ==
    /\ at[t] = "edit" /\ Goto(t, "stuck") /\ writers' = writers \cup {t}
    /\ UNCHANGED <<does, maps, held, vpath, frames, curHandler, alive, history, requests>>

(* More of the request comes, or the handler asked to be called again:     *)
(* onData of the current handler, without the lock.                        *)
Data(t) ==
    /\ at[t] = "data" /\ Goto(t, "idle")
    /\ deadUse' = deadUse \cup ({curHandler[t]} \ alive)
    /\ vpath' = [vpath EXCEPT ![t] = <<>>] /\ mapped' = [mapped EXCEPT ![t] = FirstMap]
    /\ chain' = [chain EXCEPT ![t] = <<>>] /\ curHandler' = [curHandler EXCEPT ![t] = None]
    /\ UNCHANGED <<does, maps, held, writers, frames, alive, source, requests>>

RequestStep(t) ==
    \/ MapHost(t) \/ CallHandler(t) \/ NextHandler(t) \/ Take(t) \/ Pass(t)
    \/ Forward(t) \/ Forwarded(t) \/ EditInside(t) \/ Data(t)

-----------------------------------------------------------------------------
(* A thread that waits to write, and writes: addSite, which takes the      *)
(* place of a handler that is there already; removeSite; mapHost. None of  *)
(* them releases a handler.                                                *)
Wait(t) == writers' = writers \cup {t}
(* Mutant: the lock is not given back. *)
EnterForGood(t) == t \in writers /\ MayWrite /\ UNCHANGED writers

Enter(t) == t \in writers /\ MayWrite /\ writers' = writers \ {t}

AddSite(t, key, h) ==
    /\ Enter(t) /\ pathMap' = [k \in Keys \cup {key} |-> IF k = key THEN h ELSE pathMap[k]]
    /\ registered' = registered \cup {<<key, h>>}
    /\ UNCHANGED hostMap
RemoveSite(t, key) ==
    /\ Enter(t) /\ pathMap' = Restrict(pathMap, Keys \ {key})
    /\ registered' = {r \in registered : r[1] # key}
    /\ UNCHANGED hostMap
MapUrl(t, host, path) ==
    /\ Enter(t)
    /\ hostMap' = [g \in DOMAIN hostMap \cup {host} |-> IF g = host THEN UrlMapping(path) ELSE hostMap[g]]
    /\ UNCHANGED <<pathMap, registered>>

-----------------------------------------------------------------------------
(* A handler that is called is the nearest that is willing, for the path   *)
(* that is looked up and in the map as it was when the request was given   *)
(* to the first one: edits wait until the last has returned.               *)
NearestCalled ==
    \A t \in Conns : \A n \in 1..Len(frames[t]) :
        LET f == frames[t][n]
            keys == Matches(f.path) \cap DOMAIN mapped[t]
        IN  f.h # None =>
              /\ \E k \in keys : Len(k) = f.below /\ mapped[t][k] = f.h
              /\ \A k \in keys : Len(k) > f.below => does[mapped[t][k]] = "pass"

(* The rest of a request goes to the handler that took it in the end: to   *)
(* the new one, if it was forwarded (httprequest.h:425-426).               *)
(* Known defect: of a request that was forwarded twice the rest goes to    *)
(* the handler between, since forwardRequest notes the outer search's      *)
(* handler last (HttpReqImpl.cpp:481).                                     *)
KeptBetween(t) == Len(chain[t]) > 2 /\ curHandler[t] = chain[t][2]
DataGoesToTaker ==
    \A t \in Conns : at[t] = "data" => KeptBetween(t) \/ curHandler[t] = Last(chain[t])

(* A site that was added is there until it is removed.                     *)
(* Known defect: to add a second one at its path should fail               *)
(* (httprequest.h:729-730), but puts it out without a word, and releases   *)
(* it no more than removeSite does (pathMapper.cpp:18-32).                 *)
PutOut(site) == \E r \in registered : r[1] = site[1] /\ r # site
SitesStay == \A r \in registered : PutOut(r) \/ (r[1] \in Keys /\ pathMap[r[1]] = r[2])
=============================================================================
