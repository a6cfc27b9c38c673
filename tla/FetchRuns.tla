------------------------------ MODULE FetchRuns ------------------------------
(***************************************************************************)
(* The life of a connector run (ingest/pipeline.py run_connector) and what *)
(* is read back from fetch_runs: the anchor of the incremental window      *)
(* (db/queries.py last_successful_run_started_at, sec_edgar.py window) and *)
(* the failure streak (consecutive_failure_counts).                        *)
(*                                                                         *)
(* Runs of one connector may overlap: a command does not take the lock of  *)
(* the scheduler.  Each action is one transaction, or the fetch between    *)
(* two of them; a run may end, or its process be killed, at every one.     *)
(* A filing whose fetch, parse or upsert fails makes its run partial, and  *)
(* a partial run anchors the next window as an ok one does.                *)
(***************************************************************************)
EXTENDS Integers, FiniteSets

CONSTANTS
    Task,         \* what executes runs: jobs of the scheduler, commands
    Connector,
    MayRun,       \* MayRun[t]: the connectors task t runs
    SinceOf,      \* SinceOf[t]: the --since times it is given, or Null
    Filing,       \* what the sources publish
    SourceOf,     \* SourceOf[f]: the connector of filing f
    MaxTime,      \* bound: the last point in time
    Date,         \* Date[t]: the day time t is on
    OverlapDays,  \* overlap_days, and how late a source indexes a filing
    BackfillDays, \* backfill_months of the first run, in days
    HitCap,       \* MAX_HITS_PER_QUERY
    MaxRows,      \* bound: rows of fetch_runs
    Null

Time == 0..MaxTime
RowId == 1..MaxRows
Status == {"ok", "partial", "error"}

\* A row of fetch_runs.
RowType == [conn: Connector, started: Time, finished: BOOLEAN, status: Status]

\* COMPLETED_RUN_STATUSES.
Completed == {"ok", "partial"}

ASSUME FetchAssumption ==
    /\ MaxTime \in Nat /\ MaxRows \in Nat /\ HitCap \in Nat
    /\ OverlapDays \in Nat /\ BackfillDays \in Nat
    /\ Date \in [Time -> Nat]
    /\ \A t, u \in Time : t <= u => Date[t] <= Date[u]
    /\ MayRun \in [Task -> SUBSET Connector]
    /\ SinceOf \in [Task -> SUBSET (Time \cup {Null})]
    /\ SourceOf \in [Filing -> Connector]
    /\ Null \notin Int
    /\ Null \notin [at: Time, date: Nat]
    /\ Null \notin RowType
    /\ Null \notin Connector

VARIABLES
    clock,   \* utc_now()
    filed,   \* filed[f]: when the source first showed f, and its file date
    row,     \* fetch_runs
    nextRow, \* its id sequence
    pc,      \* where the run of a task is
    run,     \* the run of a task
    taken,   \* filings a run got through the upsert step (or to_records left out)
    reported \* history: filings that failed in a run which ended partial

vars == <<clock, filed, row, nextRow, pc, run, taken, reported>>

NoRun == [conn |-> Null, now |-> Null, since |-> Null, id |-> Null,
          anchor |-> Null, outcome |-> "error", failed |-> {}]

Init ==
    /\ clock = 0
    /\ filed = [f \in Filing |-> Null]
    /\ row = [i \in RowId |-> Null]
    /\ nextRow = 1
    /\ pc = [t \in Task |-> "idle"]
    /\ run = [t \in Task |-> NoRun]
    /\ taken = {}
    /\ reported = {}

-----------------------------------------------------------------------------
Tick ==
    /\ clock < MaxTime
    /\ clock' = clock + 1
    /\ UNCHANGED <<filed, row, nextRow, pc, run, taken, reported>>

\* A filing shows up in the search, up to OverlapDays after its file date.
Publish ==
    /\ \E f \in Filing : \E d \in 0..Date[clock] :
        /\ filed[f] = Null
        /\ Date[clock] - d <= OverlapDays
        /\ filed' = [filed EXCEPT ![f] = [at |-> clock, date |-> d]]
    /\ UNCHANGED <<clock, row, nextRow, pc, run, taken, reported>>

-----------------------------------------------------------------------------
\* run_connector starts: the time is read before anything else.
Begin(t, c) ==
    /\ pc[t] = "idle"
    /\ c \in MayRun[t]
    /\ pc' = [pc EXCEPT ![t] = "starting"]
    /\ \E since \in SinceOf[t] :
        run' = [run EXCEPT ![t] = [NoRun EXCEPT !.conn = c, !.now = clock, !.since = since]]
    /\ UNCHANGED <<clock, filed, row, nextRow, taken, reported>>

RowsOf(c) == {i \in RowId : row[i] # Null /\ row[i].conn = c}

\* The started_at of the runs of c whose scan completed.
CompletedStarts(c) == {row[i].started : i \in {j \in RowsOf(c) : row[j].status \in Completed}}

\* Mutant of IsAnchor: the newest run anchors the next window, a failed one too.
IsNewestStart(c, a) ==
    LET starts == {row[i].started : i \in RowsOf(c)} IN
    \/ a = Null /\ starts = {}
    \/ a \in starts /\ \A s \in starts : s <= a

\* last_successful_run_started_at: the newest of them, if there is one.
IsAnchor(c, a) ==
    \/ a = Null /\ CompletedStarts(c) = {}
    \/ a \in CompletedStarts(c) /\ \A s \in CompletedStarts(c) : s <= a

\* _start_run: the anchor is read and the row inserted, status error, unfinished.
Open(t) ==
    /\ pc[t] = "starting"
    /\ nextRow \in RowId
    /\ pc' = [pc EXCEPT ![t] = "fetching"]
    /\ \E a \in Time \cup {Null} :
        /\ IsAnchor(run[t].conn, a)
        /\ run' = [run EXCEPT ![t].id = nextRow, ![t].anchor = a]
    /\ row' = [row EXCEPT ![nextRow] = [conn |-> run[t].conn, started |-> run[t].now,
                                        finished |-> FALSE, status |-> "error"]]
    /\ nextRow' = nextRow + 1
    /\ UNCHANGED <<clock, filed, taken, reported>>

\* Nothing is left of the run in its task.
Leave(t) ==
    /\ pc' = [pc EXCEPT ![t] = "idle"]
    /\ run' = [run EXCEPT ![t] = NoRun]

\* Mutant of OpenFails: _start_run inside the try whose finally finishes the row.
OpenFailsFinalizing(t) ==
    /\ pc[t] = "starting"
    /\ pc' = [pc EXCEPT ![t] = "finishing"]
    /\ UNCHANGED <<clock, filed, row, nextRow, run, taken, reported>>

\* The row could not be inserted: the exception leaves run_connector.
OpenFails(t) ==
    /\ pc[t] = "starting"
    /\ Leave(t)
    /\ UNCHANGED <<clock, filed, row, nextRow, taken, reported>>

\* Mutant of WindowStart: the window restarts at the anchor itself.
WindowWithoutOverlap(x) ==
    IF x.since # Null THEN Date[x.since]
    ELSE IF x.anchor # Null THEN Date[x.anchor]
    ELSE Date[x.now] - BackfillDays

\* window of sec_edgar.
WindowStart(x) ==
    IF x.since # Null THEN Date[x.since]
    ELSE IF x.anchor # Null THEN Date[x.anchor] - OverlapDays
    ELSE Date[x.now] - BackfillDays

\* What a search of run x can find by now, and what it does for certain: filings
\* shown after the run started may be on a page it has already read.
Visible(x) ==
    {f \in Filing : /\ SourceOf[f] = x.conn
                    /\ filed[f] # Null
                    /\ WindowStart(x) <= filed[f].date /\ filed[f].date <= Date[x.now]}
Certain(x) == {f \in Visible(x) : filed[f].at < x.now}

\* A search may have more hits than the source lets a client page through.
Capped(x) == Cardinality(Visible(x)) > HitCap

\* fetch completes: each hit is stored (F) or fails (G: malformed, its XML not
\* fetched or not parsed, to_records or the upsert raised); those of a search
\* beyond the cap are not even hits.  Either is a problem that makes the run partial.
Scan(t) ==
    /\ pc[t] = "fetching"
    /\ \E F \in SUBSET Visible(run[t]) : \E G \in SUBSET Visible(run[t]) :
       \E outcome \in Completed :
        /\ F \cap G = {}
        /\ \/ Certain(run[t]) \subseteq F \cup G
           \/ Capped(run[t]) /\ outcome = "partial"
        /\ G # {} => outcome = "partial"
        /\ taken' = taken \cup F
        /\ run' = [run EXCEPT ![t].outcome = outcome, ![t].failed = G]
    /\ pc' = [pc EXCEPT ![t] = "finishing"]
    /\ UNCHANGED <<clock, filed, row, nextRow, reported>>

\* fetch raises, or is cancelled, or the targets could not be loaded: some
\* filings may have been stored by then.
FetchFails(t) ==
    /\ pc[t] = "fetching"
    /\ \E F \in SUBSET Visible(run[t]) : taken' = taken \cup F
    /\ pc' = [pc EXCEPT ![t] = "finishing"]
    /\ UNCHANGED <<clock, filed, row, nextRow, run, reported>>

\* _finish_run: the status, and the failures in error_text.
Finish(t) ==
    /\ pc[t] = "finishing"
    /\ row' = [row EXCEPT ![run[t].id].finished = TRUE, ![run[t].id].status = run[t].outcome]
    /\ reported' = reported \cup run[t].failed
    /\ Leave(t)
    /\ UNCHANGED <<clock, filed, nextRow, taken>>

\* It fails: the row keeps its default status and is never finished.
FinishFails(t) ==
    /\ pc[t] = "finishing"
    /\ Leave(t)
    /\ UNCHANGED <<clock, filed, row, nextRow, taken, reported>>

\* The tasks of a process die with it.
Die(S) ==
    /\ \E t \in S : pc[t] # "idle"
    /\ pc' = [t \in Task |-> IF t \in S THEN "idle" ELSE pc[t]]
    /\ run' = [t \in Task |-> IF t \in S THEN NoRun ELSE run[t]]
    /\ UNCHANGED <<clock, filed, row, nextRow, taken, reported>>

-----------------------------------------------------------------------------
RunStep(t) ==
    \/ Open(t) \/ OpenFails(t)
    \/ Scan(t) \/ FetchFails(t)
    \/ Finish(t) \/ FinishFails(t)

RunNext ==
    \/ Tick \/ Publish
    \/ \E t \in Task : RunStep(t) \/ \E c \in Connector : Begin(t, c)
    \/ \E S \in SUBSET Task : Die(S)

RunSpec == Init /\ [][RunNext]_vars

-----------------------------------------------------------------------------
\* A connector's finished runs, and those at or above row i in the order newest
\* first (started_at DESC, id DESC).
Finished(c) == {i \in RowsOf(c) : row[i].finished}
AtOrAbove(c, i) ==
    {j \in Finished(c) : \/ row[j].started > row[i].started
                         \/ row[j].started = row[i].started /\ j >= i}

\* Mutant of Streak: the open row of a run in flight counts as the error it says.
StreakWithOpenRows(c) ==
    Cardinality({i \in RowsOf(c) : \A j \in AtOrAbove(c, i) : row[j].status = "error"})

\* consecutive_failure_counts: the rows whose running count of completed runs is 0.
Streak(c) ==
    Cardinality({i \in Finished(c) : \A j \in AtOrAbove(c, i) : row[j].status = "error"})

-----------------------------------------------------------------------------
(***************************************************************************)
(* Properties                                                              *)
(***************************************************************************)

RunType == [conn: Connector \cup {Null}, now: Time \cup {Null},
            since: Time \cup {Null}, id: RowId \cup {Null},
            anchor: Time \cup {Null}, outcome: Status, failed: SUBSET Filing]

\* The type of every variable; a run past _start_run has its row.
TypeOK ==
    /\ clock \in Time
    /\ filed \in [Filing -> [at: Time, date: Nat] \cup {Null}]
    /\ row \in [RowId -> RowType \cup {Null}]
    /\ nextRow \in 1..MaxRows + 1
    /\ pc \in [Task -> {"idle", "starting", "fetching", "finishing"}]
    /\ run \in [Task -> RunType]
    /\ taken \subseteq Filing /\ reported \subseteq Filing
    /\ \A t \in Task :
        /\ pc[t] # "idle" => run[t].conn # Null /\ run[t].now # Null
        /\ pc[t] \in {"fetching", "finishing"} => run[t].id # Null /\ row[run[t].id] # Null

\* What connector c showed before time h, and that all of it is accounted for.
Behind(c, h) == {f \in Filing : SourceOf[f] = c /\ filed[f] # Null /\ filed[f].at < h}
UpTo(c, h) == Behind(c, h) \subseteq taken \cup reported

\* No filing is lost in silence, or between two windows: whatever runs of a
\* connector overlapped, failed or were killed, all its source showed before a
\* completed run started, a filing indexed late included, was stored by a run, or
\* failed in a run that ended partial with the failure on its row.
NothingMissed == \A c \in Connector : \A s \in CompletedStarts(c) : UpTo(c, s)

\* The order newest first, and the finished runs of a connector from the newest down to i.
Newer(i, j) ==
    row[i].started > row[j].started \/ (row[i].started = row[j].started /\ i > j)
UpToRun(c, i) == {j \in Finished(c) : j = i \/ Newer(j, i)}

\* The failure streak counts the finished runs of a connector, newest first, up
\* to the first that is not an error, and no run that is open or was killed
\* (consecutive_failure_counts, SPEC section 7.2): the k-th newest is within it
\* exactly if none of the k newest is anything else.
StreakIsNewestErrors ==
    \A c \in Connector : \A i \in Finished(c) :
        Cardinality(UpToRun(c, i)) <= Streak(c)
            <=> \A j \in UpToRun(c, i) : row[j].status = "error"

\* When NothingMissed is due: no --since that narrows the scan, no search beyond
\* the hit cap, and a backfill that reaches back to the first day.
Uncut ==
    /\ \A t \in Task : SinceOf[t] \subseteq {Null, 0}
    /\ \A F \in SUBSET Filing : ~ (Cardinality(F) > HitCap)
    /\ Date[0] = 0 /\ Date[MaxTime] <= BackfillDays

\* What NothingMissed rests on, inductive together with TypeOK: nothing is dated
\* in the future, ids are fresh, everything up to an anchor is accounted for, and a
\* run about to finish as completed has stored the rest, or is partial and about to
\* report it.
NotYet ==
    /\ \A i \in RowId : row[i] # Null => row[i].started <= clock /\ i < nextRow
    /\ \A t \in Task : pc[t] # "idle" => run[t].now <= clock
    /\ \A f \in Filing : filed[f] # Null =>
          /\ filed[f].at <= clock
          /\ filed[f].date <= Date[filed[f].at]
          /\ Date[filed[f].at] <= filed[f].date + OverlapDays
OpenRow(t) ==
    pc[t] \in {"fetching", "finishing"} =>
        /\ row[run[t].id].conn = run[t].conn
        /\ row[run[t].id].started = run[t].now
WindowSafe(t) ==
    /\ pc[t] \notin {"idle", "starting"} /\ run[t].anchor # Null =>
          run[t].anchor <= clock /\ UpTo(run[t].conn, run[t].anchor)
    /\ pc[t] = "finishing" /\ run[t].outcome \in Completed =>
          Behind(run[t].conn, run[t].now) \subseteq taken \cup reported \cup run[t].failed
    /\ pc[t] # "finishing" => run[t].outcome = "error"
    /\ run[t].failed # {} => run[t].outcome = "partial"
    /\ run[t].since \in SinceOf[t] \cup {Null}
FetchInv ==
    /\ TypeOK
    /\ NotYet
    /\ \A t \in Task : OpenRow(t) /\ WindowSafe(t)
    /\ NothingMissed

\* The points in time the completed runs of c scanned up to, each with its status.
ScannedTo(c) ==
    {[upTo |-> row[i].started, status |-> row[i].status] :
        i \in {j \in RowsOf(c) : row[j].status \in Completed}}

\* What the window of a connector promises, implemented by the rows of fetch_runs.
Promise == INSTANCE Intake WITH
    filed <- [f \in Filing |-> IF filed[f] = Null THEN Null ELSE filed[f].at],
    reached <- [c \in Connector |-> ScannedTo(c)]
PromiseKept == Promise!Spec
=============================================================================
