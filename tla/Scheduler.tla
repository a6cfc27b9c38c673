------------------------------ MODULE Scheduler ------------------------------
(***************************************************************************)
(* scheduler.py: the jobs of one serve process and the lock that keeps     *)
(* their runs apart, its shutdown, and the commands that run connectors    *)
(* beside it without the lock.                                             *)
(*                                                                         *)
(* The process is one asyncio loop.  An action is a stretch of one task    *)
(* between two awaits; asyncio.Lock hands over in two of them: release     *)
(* unlocks and makes the first waiter runnable, which locks when it runs.  *)
(***************************************************************************)
EXTENDS FetchRuns, Sequences

CONSTANTS
    Job,  \* the scheduled tasks; every other task is a command
    Serve \* the main task of the process, as a waiter for the lock

ASSUME SchedulerAssumption ==
    /\ Job \subseteq Task
    /\ Serve \notin Task

VARIABLES
    job,      \* where run_scheduled is
    locked,   \* _RUN_LOCK
    waiters,  \* its waiters, in arrival order
    main,     \* where serve is
    timedOut, \* the drain ran into SHUTDOWN_DRAIN_SECONDS
    owed      \* history: jobs queued for the lock when the drain started

process == <<job, locked, waiters, main, timedOut, owed>>
schedulerVars == <<vars, process>>

SchedulerInit ==
    /\ Init
    /\ job = [j \in Job |-> "idle"]
    /\ locked = FALSE
    /\ waiters = <<>>
    /\ main = "serving"
    /\ timedOut = FALSE
    /\ owed = {}

-----------------------------------------------------------------------------
(***************************************************************************)
(* run_scheduled                                                           *)
(***************************************************************************)

\* A cron fire: max_instances = 1 skips it while the job's last one is going, and
\* the fires missed meanwhile collapse to one.  pause() stops them.
Fire(j) ==
    /\ main \in {"serving", "signalled"}
    /\ job[j] = "idle"
    /\ job' = [job EXCEPT ![j] = "fired"]
    /\ UNCHANGED <<vars, locked, waiters, main, timedOut, owed>>

\* The connector cannot be built from the configuration: logged, no run.
Unbuildable(j) ==
    /\ job[j] = "fired"
    /\ job' = [job EXCEPT ![j] = "idle"]
    /\ UNCHANGED <<vars, locked, waiters, main, timedOut, owed>>

\* Mutant of LockFree: one lock per connector, as many runs as connectors.
OwnLockFree == TRUE

\* acquire() returns at once: unlocked, and nobody waits.
LockFree == ~ locked /\ waiters = <<>>

Start(j) ==
    /\ locked' = TRUE
    /\ job' = [job EXCEPT ![j] = "running"]
    /\ \E c \in Connector : Begin(j, c)

\* async with _RUN_LOCK.
Acquire(j) ==
    /\ job[j] = "fired"
    /\ \/ LockFree /\ Start(j) /\ UNCHANGED waiters
       \/ /\ ~ LockFree
          /\ waiters' = Append(waiters, j)
          /\ job' = [job EXCEPT ![j] = "queued"]
          /\ UNCHANGED <<vars, locked>>
    /\ UNCHANGED <<main, timedOut, owed>>

\* The first waiter runs after a release.
Wake(j) ==
    /\ job[j] = "queued"
    /\ ~ locked /\ waiters[1] = j
    /\ waiters' = Tail(waiters)
    /\ Start(j)
    /\ UNCHANGED <<main, timedOut, owed>>

\* Mutant of Unlock: a run that fails is returned from before release().
UnlockOnSuccess(j) == locked' = (run[j].outcome = "error")

\* The lock goes with the async with block, however it is left.
Unlock(j) == locked' = FALSE

\* A step of the run; when the run leaves run_one, the lock is released, and a run
\* that ended in error is asked for its streak.  Between the end of the drain and
\* the cancellation there is one turn of the loop: too short for _start_run.
Proceed(j) ==
    /\ job[j] = "running"
    /\ \/ main # "cancelling" /\ Open(j) /\ UNCHANGED <<job, locked>>
       \/ (Scan(j) \/ FetchFails(j)) /\ UNCHANGED <<job, locked>>
       \/ /\ Finish(j)
          /\ Unlock(j)
          /\ job' = [job EXCEPT ![j] = IF run[j].outcome = "error" THEN "alerting" ELSE "idle"]
       \/ /\ OpenFails(j) \/ FinishFails(j)
          /\ Unlock(j)
          /\ job' = [job EXCEPT ![j] = "idle"]
    /\ UNCHANGED <<waiters, main, timedOut, owed>>

\* alert_on_failure_streak: a query and a log line, outside the lock.
Alert(j) ==
    /\ job[j] = "alerting"
    /\ job' = [job EXCEPT ![j] = "idle"]
    /\ UNCHANGED <<vars, locked, waiters, main, timedOut, owed>>

JobStep(j) == Unbuildable(j) \/ Acquire(j) \/ Wake(j) \/ Proceed(j) \/ Alert(j)

-----------------------------------------------------------------------------
(***************************************************************************)
(* serve                                                                   *)
(***************************************************************************)

\* SIGTERM or SIGINT sets the event serve waits for.
Signal ==
    /\ main = "serving"
    /\ main' = "signalled"
    /\ UNCHANGED <<vars, job, locked, waiters, timedOut, owed>>

Queued == {j \in Job : job[j] = "queued"}

\* Mutant of Drain: shutdown(wait=True), which waits for nothing.
ShutDownAtOnce ==
    /\ main = "signalled"
    /\ owed' = Queued
    /\ main' = "cancelling"
    /\ UNCHANGED <<vars, job, locked, waiters, timedOut>>

\* pause(), then drain_runs: it returns if the lock is not held, else it queues.
Drain ==
    /\ main = "signalled"
    /\ owed' = Queued
    /\ IF locked
       THEN main' = "draining" /\ waiters' = Append(waiters, Serve)
       ELSE main' = "cancelling" /\ UNCHANGED waiters
    /\ UNCHANGED <<vars, job, locked, timedOut>>

\* serve gets the lock and releases it again.
Drained ==
    /\ main = "draining"
    /\ ~ locked /\ waiters[1] = Serve
    /\ waiters' = Tail(waiters)
    /\ main' = "cancelling"
    /\ UNCHANGED <<vars, job, locked, timedOut, owed>>

\* Mutant of DrainTimesOut: the acquire is shielded from the timeout, and goes on.
ShieldedTimesOut ==
    /\ main = "draining"
    /\ main' = "cancelling"
    /\ timedOut' = TRUE
    /\ UNCHANGED <<vars, job, locked, waiters, owed>>

\* SHUTDOWN_DRAIN_SECONDS have passed.
DrainTimesOut ==
    /\ main = "draining"
    /\ waiters' = SelectSeq(waiters, LAMBDA w : w # Serve)
    /\ main' = "cancelling"
    /\ timedOut' = TRUE
    /\ UNCHANGED <<vars, job, locked, owed>>

\* The jobs of the process end where they are.
StopJobs ==
    /\ IF \E j \in Job : pc[j] # "idle" THEN Die(Job) ELSE UNCHANGED vars
    /\ job' = [j \in Job |-> "idle"]
    /\ locked' = FALSE
    /\ waiters' = <<>>
    /\ main' = "down"
    /\ timedOut' = FALSE
    /\ owed' = {}

\* scheduler.shutdown cancels every job; a run's finally may not reach the database.
Teardown == main = "cancelling" /\ StopJobs

\* SIGKILL, or a crash of the process.
Kill == main # "down" /\ StopJobs

Restart ==
    /\ main = "down"
    /\ main' = "serving"
    /\ UNCHANGED <<vars, job, locked, waiters, timedOut, owed>>

ServeStep == Drain \/ Drained \/ Teardown

-----------------------------------------------------------------------------
\* refresh and seed: a process of their own, one run after the other.
CommandStep(t) ==
    /\ RunStep(t) \/ (\E c \in Connector : Begin(t, c)) \/ Die({t})
    /\ UNCHANGED process

World == (Tick \/ Publish) /\ UNCHANGED process

SchedulerNext ==
    \/ \E j \in Job : Fire(j) \/ JobStep(j)
    \/ Signal \/ ServeStep \/ DrainTimesOut \/ Kill \/ Restart
    \/ \E t \in Task \ Job : CommandStep(t)
    \/ World

\* The loop runs every task that is ready: a job whose next await has returned,
\* and serve.  Every await of a run returns: the HTTP client has time-outs, and a
\* statement of the database is taken to return, for none is set on it.  Cron
\* fires, signals, kills and commands are up to nobody.
SchedulerFairness ==
    /\ \A j \in Job : WF_schedulerVars(JobStep(j))
    /\ WF_schedulerVars(ServeStep)

SchedulerSpec == SchedulerInit /\ [][SchedulerNext]_schedulerVars
FairSchedulerSpec == SchedulerSpec /\ SchedulerFairness

-----------------------------------------------------------------------------
(***************************************************************************)
(* Properties                                                              *)
(***************************************************************************)

\* The type of every variable; who is queued is in the queue, once.
SchedulerTypeOK ==
    /\ job \in [Job -> {"idle", "fired", "queued", "running", "alerting"}]
    /\ locked \in BOOLEAN
    /\ waiters \in Seq(Job \cup {Serve})
    /\ main \in {"serving", "signalled", "draining", "cancelling", "down"}
    /\ timedOut \in BOOLEAN
    /\ owed \subseteq Job
    /\ \A a, b \in DOMAIN waiters : waiters[a] = waiters[b] => a = b
    /\ {waiters[a] : a \in DOMAIN waiters} =
          Queued \cup (IF main = "draining" THEN {Serve} ELSE {})

\* At most one scheduled run at a time: what the lock is for, since the spacing
\* of requests to one host is kept per run (the comment of _RUN_LOCK).
SerializedRuns == \A i, j \in Job : pc[i] # "idle" /\ pc[j] # "idle" => i = j

\* A shutdown that did not run out of time leaves no run between the fetch_runs
\* row it inserted and the finally that finishes it (drain_runs).
DrainIsClean ==
    main = "cancelling" /\ ~ timedOut => \A j \in Job : pc[j] \in {"idle", "starting"}

\* A fire that found the lock taken gets its run in the end, and the run ends;
\* nobody is left waiting for a lock whose holder is gone.
EveryFireEnds == \A j \in Job : job[j] # "idle" ~> job[j] = "idle"

\* What SerializedRuns and DrainIsClean rest on.
HoldsLock(j) == job[j] = "running"
LockInv ==
    /\ \A j \in Job : pc[j] # "idle" <=> HoldsLock(j)
    /\ \A i, j \in Job : HoldsLock(i) /\ HoldsLock(j) => i = j
    /\ \A j \in Job : HoldsLock(j) => locked
    /\ locked => \E j \in Job : HoldsLock(j)
=============================================================================
