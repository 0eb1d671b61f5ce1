----------------------------- MODULE HttpServer -----------------------------
(***************************************************************************)
(* The server and its main program (HttpServer, AbstractServerMain): the   *)
(* port is opened, then hosts are mapped, the site of the statistics is    *)
(* added and its dump started; at the end the handler of the statistics is *)
(* destroyed, the port closed, the scheduler stopped and the handlers      *)
(* released. Meanwhile requests are served and jobs run, and each may wait *)
(* for the other.                                                          *)
(***************************************************************************)
EXTENDS Sites, Jobs

CONSTANTS Mapped,      \* <<host, path>> that the main program maps
          StatsKey, StatsHandler,
          EditedKey, NewHandler,  \* what a job adds to the map, or removes
          EditJob      \* the job which does, and which a handler cancels

VARIABLES main,        \* where the main program is
          victim       \* the dump it is cancelling

vars == <<svars, jvars, main, victim>>
ASSUME ServerAssumption ==
    /\ Others = {"main", "worker"} /\ Others \cap Conns = {}
    /\ Mapped[2] \in Seq(PathParts)
    /\ \A d \in Behaviours : {StatsHandler, NewHandler} \subseteq DOMAIN d

Init ==
    /\ SitesInit /\ JobsInit
    /\ main = "start" /\ victim = NoJob

Main(from, to) == main = from /\ main' = to

-----------------------------------------------------------------------------
(* startService, to the time the server is ready. *)
OpenPort ==
    /\ Main("start", "map") /\ Wait("main")
    /\ UNCHANGED <<does, maps, held, at, vpath, frames, curHandler, alive, history, requests, jvars, victim>>

MapHosts ==
    /\ Main("map", "stats") /\ MapUrl("main", Mapped[1], Mapped[2])
    /\ UNCHANGED <<does, held, at, vpath, frames, curHandler, alive, history, requests, jvars, victim>>

NewStats ==
    /\ Main("stats", "add") /\ Wait("main")
    /\ UNCHANGED <<does, maps, held, at, vpath, frames, curHandler, alive, history, requests, jvars, victim>>

AddStats ==
    /\ Main("add", "dump") /\ AddSite("main", StatsKey, StatsHandler)
    /\ UNCHANGED <<does, held, at, vpath, frames, curHandler, alive, history, requests, jvars, victim>>

StartDump ==
    /\ Main("dump", "note") /\ ScheduleDump /\ victim' = made + 1
    /\ UNCHANGED <<svars, scheduler, running, doing, dumpJob, dumps, overtaken>>

DumpStarted == Main("note", "serving") /\ NoteFirst(victim) /\ UNCHANGED <<svars, victim>>

-----------------------------------------------------------------------------
(* Mutant: stopDumpJob does not look whether the job has scheduled itself  *)
(* anew.                                                                   *)
CancelCarriedOnce ==
    /\ main = "cancel" /\ Carried(victim)
    /\ main' = "destroy" /\ UNCHANGED <<svars, victim>>

(* The service ends: ~StatHandler, stopDumpJob. *)
EndService == Main("serving", "cancel") /\ victim' = dumpJob /\ UNCHANGED <<svars, jvars>>

CancelCarried ==
    /\ main = "cancel" /\ Carried(victim)
    /\ main' = IF dumpJob = victim THEN "destroy" ELSE "cancel"
    /\ victim' = dumpJob /\ UNCHANGED svars

DestroyStats ==
    /\ Main("destroy", "close") /\ alive' = alive \ {StatsHandler}
    /\ UNCHANGED <<does, maps, held, writers, at, vpath, frames, curHandler, history, requests, jvars, victim>>

(* stop() lets the connections' threads end. *)
ClosePort ==
    /\ Main("close", "stop") /\ \A t \in Conns : at[t] = "idle"
    /\ UNCHANGED <<svars, jvars, victim>>

(* The members of the server are destroyed, its scheduler before the map,  *)
(* which releases the handlers in it.                                      *)
StopJobs == Main("stop", "flush") /\ StopScheduler /\ UNCHANGED <<svars, victim>>
FlushJobs == Main("flush", "release") /\ Flush /\ UNCHANGED <<svars, victim>>
ReleaseHandlers ==
    /\ Main("release", "end")
    /\ deadUse' = deadUse \cup {h \in Range(pathMap) : h \notin alive}
    /\ UNCHANGED <<does, maps, held, writers, at, vpath, frames, curHandler, alive, source, mapped, chain,
                   requests, jvars, victim>>

MainStep ==
    \/ OpenPort \/ MapHosts \/ NewStats \/ AddStats \/ StartDump \/ DumpStarted
    \/ CancelCarried \/ DestroyStats \/ ClosePort \/ StopJobs \/ FlushJobs \/ ReleaseHandlers

-----------------------------------------------------------------------------
(* The scheduler's thread. *)
RunEdit ==
    /\ doing = "edit" /\ doing' = "write" /\ Wait("worker")
    /\ UNCHANGED <<does, maps, held, at, vpath, frames, curHandler, alive, history, requests,
                   scheduler, jobs, running, dumpJob, made, dumps, overtaken, main, victim>>

Edit ==
    /\ doing = "write" /\ JobEnds
    /\ AddSite("worker", EditedKey, NewHandler) \/ RemoveSite("worker", EditedKey)
    /\ UNCHANGED <<does, held, at, vpath, frames, curHandler, alive, history, requests,
                   scheduler, jobs, dumpJob, made, dumps, overtaken, main, victim>>

RunJob == (\E j \in jobs : Run(j)) /\ UNCHANGED <<svars, main, victim>>
FinishJob ==
    \/ (Dump \/ NoteDump) /\ UNCHANGED <<svars, main, victim>>
    \/ RunEdit \/ Edit

(* A handler that cancels a job waits for this thread. *)
HandlerCancels(t) ==
    /\ at[t] = "cancel" /\ Carried(EditJob) /\ Goto(t, "take")
    /\ UNCHANGED <<does, maps, held, writers, vpath, frames, curHandler, alive, history, requests, main, victim>>

Connection(t) ==
    \/ RequestStep(t) /\ UNCHANGED <<jvars, main, victim>>
    \/ HandlerCancels(t)

PortOpen == main \notin {"start", "close", "stop", "flush", "release", "end"}
Request(t) ==
    /\ PortOpen
    /\ \E s \in Sources : Arrive(t, s)
    /\ UNCHANGED <<jvars, main, victim>>

Next ==
    \/ MainStep \/ EndService \/ RunJob \/ FinishJob
    \/ \E t \in Conns : Request(t) \/ Connection(t)

Spec == Init /\ [][Next]_vars

(* Threads run on; requests need not come, jobs' times need not. *)
FairSpec ==
    /\ Spec
    /\ WF_vars(MainStep) /\ WF_vars(FinishJob)
    /\ \A t \in Conns : WF_vars(Connection(t))

-----------------------------------------------------------------------------
TypeOK ==
    /\ \A t \in Conns : held[t] = Len(frames[t]) /\ (frames[t] = <<>> => at[t] \in {"idle", "map", "find", "data"})
    /\ at \in [Conns -> Places] /\ dumpJob <= made
    /\ writers \subseteq Threads /\ requests <= MaxRequests

(* There is one dump at a time, and once stopDumpJob has returned it does  *)
(* not run again, unless the first one has run before its number was noted.*)
DumpStops ==
    /\ \A i, j \in DumpJobs : i = j /\ doing # "dump"
    /\ main \in {"destroy", "close", "stop", "flush", "release", "end"} => ~DumpScheduled \/ overtaken

(* Nobody uses a destroyed handler: a site's is released when it is no     *)
(* longer needed (httprequest.h:727-728).                                  *)
(* Known defect: the main program destroys the handler of the statistics   *)
(* itself, at the end of a block, while it is in the map and the port is   *)
(* open; requests that come before srv.stop() call it, and the map         *)
(* releases it once more (serverMain.cpp:168-185).                         *)
StatsDestroyedInMap == deadUse = {StatsHandler} /\ main \in {"close", "stop", "flush", "release", "end"}
NoDeadUse == deadUse = {} \/ StatsDestroyedInMap

(* Requests find the handler they should, sites stay where they were added *)
(* and destroyed handlers are left alone, but for the defects named; and   *)
(* the dump stops.                                                         *)
Consistent == TypeOK /\ NearestCalled /\ DataGoesToTaker /\ SitesStay /\ DumpStops /\ NoDeadUse

(* A thread waits for itself, or two for each other: a handler that edits  *)
(* the map, or that locks it again while someone waits to edit it, or that *)
(* waits for a job which edits it.                                         *)
EditsInside(t) == at[t] = "stuck"
LocksAgain(t) == held[t] > 0 /\ at[t] \in {"find", "link"} /\ ~MayRead
WaitsForEdit(t) == at[t] = "cancel" /\ doing = "write"
Blocked == \E t \in Conns : EditsInside(t) \/ LocksAgain(t) \/ WaitsForEdit(t)

(* Each request is served and the program ends once told to, unless        *)
(* threads block each other in one of these ways.                          *)
AllServed ==
    /\ \A t \in Conns : at[t] # "idle" ~> at[t] = "idle" \/ Blocked
    /\ main = "cancel" ~> main = "end" \/ Blocked
=============================================================================
