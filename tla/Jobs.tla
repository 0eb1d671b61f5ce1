-------------------------------- MODULE Jobs --------------------------------
(***************************************************************************)
(* The scheduler (JobSchedulerImpl) and a job that schedules itself anew:  *)
(* the dump of the statistics (StatHandler). One thread runs the jobs;     *)
(* cancel() waits until this thread carries it, between two jobs.          *)
(***************************************************************************)
EXTENDS Naturals, FiniteSets

CONSTANTS FirstJobs,   \* jobs of others, by their kinds: sets of pairs <<job, kind>>
          MaxDumps     \* bound: runs of the dump

NoJob == 0
ASSUME JobsAssumption == MaxDumps \in Nat /\ \A js \in FirstJobs : js \subseteq {<<1, "edit">>}

VARIABLES
    scheduler,   \* "running", "stopping", "stopped"
    jobs,        \* jobs that wait for their time: <<job, kind>>
    running,     \* job the thread runs, or NoJob
    doing,       \* where the job is
    dumpJob,     \* StatHandler's
    made,        \* the number of the last job
    dumps,       \* runs of the dump
    overtaken    \* history: the first dump ran before its number was noted

jvars == <<scheduler, jobs, running, doing, dumpJob, made, dumps, overtaken>>

JobsInit ==
    /\ scheduler = "running" /\ jobs \in FirstJobs
    /\ running = NoJob /\ doing = "none" /\ dumpJob = NoJob
    /\ made = 1 /\ dumps = 0 /\ overtaken = FALSE

(* The job's time has come. *)
Run(j) ==
    /\ scheduler = "running" /\ running = NoJob /\ j \in jobs
    /\ j[2] = "dump" => dumps < MaxDumps
    /\ jobs' = jobs \ {j} /\ running' = j[1]
    /\ doing' = j[2] /\ dumps' = dumps + (IF j[2] = "dump" THEN 1 ELSE 0)
    /\ UNCHANGED <<scheduler, dumpJob, made, overtaken>>

JobEnds == running' = NoJob /\ doing' = "none"

(* scheduleDump: the job is scheduled, then noted. *)
ScheduleDump ==
    /\ made' = made + 1 /\ jobs' = jobs \cup {<<made + 1, "dump">>}

(* dumpNow, which writes the statistics and calls scheduleDump. *)
Dump ==
    /\ doing = "dump" /\ ScheduleDump /\ doing' = "note"
    /\ UNCHANGED <<scheduler, running, dumpJob, dumps, overtaken>>
NoteDump ==
    /\ doing = "note" /\ dumpJob' = made /\ JobEnds
    /\ UNCHANGED <<scheduler, jobs, made, dumps, overtaken>>

(* dumpStatsToFile *)
NoteFirst(job) ==
    /\ dumpJob' = job /\ overtaken' = (made # job)
    /\ UNCHANGED <<scheduler, jobs, running, doing, made, dumps>>

(* cancel, carried: a job that runs or has run is left alone. *)
Carried(job) ==
    /\ running = NoJob /\ jobs' = {j \in jobs : j[1] # job}
    /\ UNCHANGED <<scheduler, running, doing, dumpJob, made, dumps, overtaken>>

(* The destructor: the thread ends after the job it runs, the others are   *)
(* rejected (wtFlush).                                                     *)
StopScheduler ==
    /\ scheduler = "running" /\ scheduler' = "stopping"
    /\ UNCHANGED <<jobs, running, doing, dumpJob, made, dumps, overtaken>>
Flush ==
    /\ scheduler = "stopping" /\ running = NoJob
    /\ scheduler' = "stopped" /\ jobs' = {}
    /\ UNCHANGED <<running, doing, dumpJob, made, dumps, overtaken>>

DumpJobs == {j \in jobs : j[2] = "dump"}
DumpScheduled == doing \in {"dump", "note"} \/ DumpJobs # {}
=============================================================================
