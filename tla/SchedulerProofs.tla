--------------------------- MODULE SchedulerProofs ---------------------------
(***************************************************************************)
(* Proofs about the runs and the process that makes them. Of FetchRuns: no *)
(* filing is lost in silence or between two windows, a failure streak is   *)
(* the errors since the newest run that was none, and the rows of          *)
(* fetch_runs implement Intake. Of Scheduler: its lock keeps the runs      *)
(* of its jobs apart, a shutdown in time interrupts none of them, and what *)
(* the process and the commands do to fetch_runs is what FetchRuns         *)
(* describes. Of Rounds: a scan taken apart is the scan of FetchRuns, and  *)
(* a round stays as the newest filing left it, whatever runs beside it.    *)
(***************************************************************************)
EXTENDS Scheduler, Rounds, FiniteSetTheorems, TLAPS

USE FetchAssumption DEF Time, RowId


(***************************************************************************)
(* Types                                                                   *)
(***************************************************************************)

\* The types hold of the empty database.
LEMMA TypeInit == Init => TypeOK
BY DEF Init, TypeOK, NoRun, RunType, Status

\* The steps that only drop the run of a task keep every type.
LEMMA LeaveType ==
    ASSUME TypeOK, NEW S \in SUBSET Task,
           pc' = [t \in Task |-> IF t \in S THEN "idle" ELSE pc[t]],
           run' = [t \in Task |-> IF t \in S THEN NoRun ELSE run[t]],
           UNCHANGED <<clock, filed, row, nextRow, taken, reported>>
    PROVE  TypeOK'
<1>1. NoRun \in RunType
  BY DEF NoRun, RunType, Status
<1>2. run' \in [Task -> RunType]
  BY <1>1 DEF TypeOK
<1>3. pc' \in [Task -> {"idle", "starting", "fetching", "finishing"}]
  BY DEF TypeOK
<1>4. \A t \in Task : pc'[t] # "idle" => pc'[t] = pc[t] /\ run'[t] = run[t]
  BY DEF TypeOK
<1> QED BY <1>2, <1>3, <1>4 DEF TypeOK

\* A task that leaves its run is a task that dies alone.
LEMMA LeaveIsDeath ==
    ASSUME TypeOK, NEW t \in Task, Leave(t)
    PROVE  /\ pc' = [q \in Task |-> IF q \in {t} THEN "idle" ELSE pc[q]]
           /\ run' = [q \in Task |-> IF q \in {t} THEN NoRun ELSE run[q]]
BY DEF TypeOK, Leave

\* A scan leaves its run with an outcome and the filings that failed.
LEMMA ScanRun ==
    ASSUME TypeOK, NEW t \in Task, Scan(t)
    PROVE  /\ run' \in [Task -> RunType]
           /\ \A q \in Task : /\ run'[q].id = run[q].id /\ run'[q].conn = run[q].conn
                              /\ run'[q].now = run[q].now
           /\ \A q \in Task \ {t} : run'[q] = run[q]
<1>1. PICK F \in SUBSET Visible(run[t]), G \in SUBSET Visible(run[t]), outcome \in Completed :
          run' = [run EXCEPT ![t].outcome = outcome, ![t].failed = G]
  BY DEF Scan
<1>2. outcome \in Status /\ G \in SUBSET Filing /\ run[t] \in RunType /\ DOMAIN run = Task
  BY <1>1 DEF Completed, Status, Visible, TypeOK
<1> DEFINE x == [run[t] EXCEPT !.outcome = outcome, !.failed = G]
<1>3. x \in RunType /\ x.id = run[t].id /\ x.conn = run[t].conn /\ x.now = run[t].now
  BY <1>2 DEF RunType
<1>4. run' = [run EXCEPT ![t] = x]
  BY <1>1, <1>2 DEF RunType
<1> HIDE DEF x
<1> QED BY <1>3, <1>4 DEF TypeOK

\* Every step of a run, of the clock and of the sources keeps the types.
LEMMA TypeStep == TypeOK /\ [RunNext]_vars => TypeOK'
<1> SUFFICES ASSUME TypeOK, [RunNext]_vars PROVE TypeOK'
  OBVIOUS
<1> USE DEF TypeOK
<1>1. CASE Tick
  BY <1>1 DEF Tick
<1>2. CASE Publish
  <2>1. PICK f \in Filing, d \in 0..Date[clock] :
            filed' = [filed EXCEPT ![f] = [at |-> clock, date |-> d]]
    BY <1>2 DEF Publish
  <2>2. d \in Nat
    BY <2>1
  <2>3. filed' \in [Filing -> [at: Time, date: Nat] \cup {Null}]
    BY <2>1, <2>2
  <2> QED BY <1>2, <2>3 DEF Publish
<1>3. ASSUME NEW t \in Task, NEW c \in Connector, Begin(t, c) PROVE TypeOK'
  <2>1. PICK since \in SinceOf[t] :
            run' = [run EXCEPT ![t] = [NoRun EXCEPT !.conn = c, !.now = clock, !.since = since]]
    BY <1>3 DEF Begin
  <2> DEFINE new == [NoRun EXCEPT !.conn = c, !.now = clock, !.since = since]
  <2>2. since \in Time \cup {Null}
    OBVIOUS
  <2>3. new \in RunType /\ new.conn = c /\ new.now = clock
    BY <2>2 DEF NoRun, RunType, Status
  <2>4. run' = [run EXCEPT ![t] = new]
    BY <2>1
  <2> HIDE DEF new
  <2>5. c # Null /\ clock # Null
    OBVIOUS
  <2>6. run' \in [Task -> RunType] /\ \A q \in Task \ {t} : run'[q] = run[q]
    BY <2>3, <2>4
  <2>7. run'[t].conn # Null /\ run'[t].now # Null
    BY <2>3, <2>4, <2>5
  <2>8. pc' \in [Task -> {"idle", "starting", "fetching", "finishing"}]
        /\ pc'[t] = "starting" /\ \A q \in Task \ {t} : pc'[q] = pc[q]
    BY <1>3 DEF Begin
  <2> QED BY <1>3, <2>6, <2>7, <2>8 DEF Begin
<1>4. ASSUME NEW t \in Task, Open(t) PROVE TypeOK'
  <2>1. PICK a \in Time \cup {Null} : run' = [run EXCEPT ![t].id = nextRow, ![t].anchor = a]
    BY <1>4 DEF Open
  <2> DEFINE x == [run[t] EXCEPT !.id = nextRow, !.anchor = a]
  <2>12. run[t] \in RunType /\ nextRow \in RowId
    BY <1>4 DEF Open
  <2>13. x \in RunType /\ x.id = nextRow /\ x.conn = run[t].conn /\ x.now = run[t].now
    BY <2>12 DEF RunType
  <2>14. run' = [run EXCEPT ![t] = x]
    BY <2>1, <2>12 DEF RunType
  <2> HIDE DEF x
  <2>2. run' \in [Task -> RunType] /\ \A q \in Task \ {t} : run'[q] = run[q]
    BY <2>13, <2>14
  <2>3. run'[t].id = nextRow /\ run'[t].conn = run[t].conn /\ run'[t].now = run[t].now
    BY <2>13, <2>14
  <2> DEFINE new == [conn |-> run[t].conn, started |-> run[t].now, finished |-> FALSE,
                     status |-> "error"]
  <2>4. run[t].conn \in Connector /\ run[t].now \in Time
    BY <1>4 DEF Open, RunType
  <2>15. new \in RowType
    BY <2>4 DEF RowType, Status
  <2>5. new \in RowType /\ row' = [row EXCEPT ![nextRow] = new] /\ new # Null
    BY <1>4, <2>15 DEF Open
  <2> HIDE DEF new
  <2>6. nextRow \in RowId /\ nextRow' = nextRow + 1 /\ nextRow # Null
    BY <1>4 DEF Open
  <2>7. row' \in [RowId -> RowType \cup {Null}] /\ row'[nextRow] # Null
        /\ \A i \in RowId : row[i] # Null => row'[i] # Null
    BY <2>5, <2>6
  <2>8. pc' \in [Task -> {"idle", "starting", "fetching", "finishing"}]
        /\ pc'[t] = "fetching" /\ \A q \in Task \ {t} : pc'[q] = pc[q]
    BY <1>4 DEF Open
  <2>9. \A q \in Task : run[q].id \in RowId \cup {Null}
    BY DEF RunType
  <2>10. ASSUME NEW q \in Task
         PROVE  /\ pc'[q] # "idle" => run'[q].conn # Null /\ run'[q].now # Null
                /\ pc'[q] \in {"fetching", "finishing"} =>
                      run'[q].id # Null /\ row'[run'[q].id] # Null
    <3>1. CASE q = t
      BY <2>3, <2>4, <2>6, <2>7, <3>1
    <3>2. CASE q # t
      BY <2>2, <2>7, <2>8, <2>9, <3>2
    <3> QED BY <3>1, <3>2
  <2>11. nextRow' \in 1..MaxRows + 1 /\ clock' = clock /\ filed' = filed
        /\ taken' = taken /\ reported' = reported
    BY <1>4, <2>6 DEF Open
  <2> QED BY <2>2, <2>7, <2>8, <2>10, <2>11
<1>5. ASSUME NEW t \in Task, Leave(t), UNCHANGED <<clock, filed, row, nextRow, taken, reported>>
      PROVE  TypeOK'
  <2>1. {t} \in SUBSET Task
    OBVIOUS
  <2>2. /\ pc' = [q \in Task |-> IF q \in {t} THEN "idle" ELSE pc[q]]
        /\ run' = [q \in Task |-> IF q \in {t} THEN NoRun ELSE run[q]]
    BY <1>5, LeaveIsDeath
  <2> HIDE DEF TypeOK
  <2> QED BY <1>5, <2>1, <2>2, LeaveType
<1>6. ASSUME NEW S \in SUBSET Task, Die(S) PROVE TypeOK'
  BY <1>6, LeaveType DEF Die
<1>7. ASSUME NEW t \in Task, Scan(t) PROVE TypeOK'
  <2>1. taken' \subseteq Filing
    BY <1>7 DEF Scan, Visible
  <2> QED BY <1>7, <2>1, ScanRun DEF Scan
<1>8. ASSUME NEW t \in Task, FetchFails(t) PROVE TypeOK'
  <2>1. taken' \subseteq Filing
    BY <1>8 DEF FetchFails, Visible
  <2> QED BY <1>8, <2>1 DEF FetchFails
<1>9. ASSUME NEW t \in Task, Finish(t) PROVE TypeOK'
  <2> DEFINE i == run[t].id
             new == [row[i] EXCEPT !.finished = TRUE, !.status = run[t].outcome]
  <2>1. i \in RowId /\ row[i] \in RowType /\ run[t].outcome \in Status
    BY <1>9 DEF Finish, RunType
  <2>2. new \in RowType /\ new # Null
    BY <2>1 DEF RowType
  <2>3. row' = [row EXCEPT ![i] = new]
    BY <1>9, <2>1 DEF Finish, RowType
  <2> HIDE DEF new
  <2>4. row' \in [RowId -> RowType \cup {Null}] /\ \A j \in RowId : row[j] # Null => row'[j] # Null
    BY <2>1, <2>2, <2>3
  <2>5. /\ pc' = [q \in Task |-> IF q \in {t} THEN "idle" ELSE pc[q]]
        /\ run' = [q \in Task |-> IF q \in {t} THEN NoRun ELSE run[q]]
    BY <1>9, LeaveIsDeath DEF Finish
  <2>6. NoRun \in RunType
    BY DEF NoRun, RunType, Status
  <2>7. run' \in [Task -> RunType] /\ \A q \in Task : run[q].id \in RowId \cup {Null}
    BY <2>5, <2>6 DEF RunType
  <2>8. reported' \subseteq Filing
    BY <1>9 DEF Finish, RunType
  <2> QED BY <1>9, <2>4, <2>5, <2>7, <2>8 DEF Finish
<1>10. CASE UNCHANGED vars
  BY <1>10 DEF vars
<1> QED BY <1>1, <1>2, <1>3, <1>4, <1>5, <1>6, <1>7, <1>8, <1>9, <1>10
    DEF RunNext, RunStep, OpenFails, FinishFails

(***************************************************************************)
(* What is accounted for stays so                                          *)
(***************************************************************************)

\* What a filing shown now, stored or reported does to "everything up to h is
\* accounted for" while h is not in the future.
Grows ==
    /\ taken \subseteq taken' /\ reported \subseteq reported'
    /\ clock' \in Int /\ clock <= clock'
    /\ \A f \in Filing : filed'[f] = filed[f] \/ filed'[f].at = clock

\* What a connector showed up to a time in the past is all it ever showed up to it.
LEMMA BehindKept ==
    ASSUME TypeOK, Grows, NEW c, NEW h \in Time, h <= clock
    PROVE  Behind(c, h)' \subseteq Behind(c, h)
<1> SUFFICES ASSUME NEW f \in Filing, SourceOf[f] = c, filed'[f] # Null, filed'[f].at < h
             PROVE  f \in Behind(c, h)
  BY DEF Behind
<1>1. clock \in Int /\ h \in Int
  BY DEF TypeOK
<1>2. filed'[f] = filed[f]
  BY <1>1 DEF Grows
<1> QED BY <1>2 DEF Behind

\* What is accounted for up to a time in the past stays accounted for.
LEMMA UpToKept ==
    ASSUME TypeOK, Grows, NEW c, NEW h \in Time, h <= clock, UpTo(c, h)
    PROVE  UpTo(c, h)'
BY BehindKept DEF UpTo, Grows

\* The rows that count as completed have a start in the past.
LEMMA StartsAreTimes ==
    ASSUME TypeOK, NotYet, NEW c, NEW s \in CompletedStarts(c)
    PROVE  s \in Time /\ s <= clock
BY DEF CompletedStarts, RowsOf, TypeOK, NotYet, RowType

\* Runs and rows that stay as they are keep what is said of them.
SameRuns(S) == \A q \in S : pc'[q] = pc[q] /\ run'[q] = run[q]
SameStarts ==
    \A i \in RowId : row[i] # Null =>
        row'[i] # Null /\ row'[i].conn = row[i].conn /\ row'[i].started = row[i].started

\* A run that does not move keeps its row and its window.
LEMMA SameRunsKept ==
    ASSUME FetchInv, Grows, SameStarts, NEW S \in SUBSET Task, SameRuns(S)
    PROVE  \A q \in S : /\ OpenRow(q)' /\ WindowSafe(q)'
                        /\ pc'[q] # "idle" => run'[q].now <= clock'
<1> SUFFICES ASSUME NEW q \in S
             PROVE  /\ OpenRow(q)' /\ WindowSafe(q)'
                    /\ pc'[q] # "idle" => run'[q].now <= clock'
  OBVIOUS
<1>1. pc'[q] = pc[q] /\ run'[q] = run[q] /\ q \in Task
  BY DEF SameRuns
<1>2. run[q] \in RunType /\ TypeOK /\ NotYet /\ OpenRow(q) /\ WindowSafe(q)
  BY <1>1 DEF FetchInv, TypeOK
<1>3. pc[q] # "idle" => run[q].now \in Time /\ run[q].now <= clock
  BY <1>1, <1>2 DEF RunType, NotYet, TypeOK
<1>4. pc'[q] # "idle" => run'[q].now <= clock'
  <2>1. clock \in Int /\ clock' \in Int /\ clock <= clock'
    BY <1>2 DEF Grows, TypeOK
  <2> QED BY <1>1, <1>3, <2>1
<1>5. OpenRow(q)'
  <2>1. pc[q] \in {"fetching", "finishing"} => run[q].id \in RowId /\ row[run[q].id] # Null
    BY <1>1, <1>2 DEF TypeOK, RunType
  <2> QED BY <1>1, <1>2, <2>1 DEF OpenRow, SameStarts
<1>6. WindowSafe(q)'
  <2>1. PICK c, h, a : c = run[q].conn /\ h = run[q].now /\ a = run[q].anchor
    OBVIOUS
  <2>2. pc'[q] = "finishing" /\ run'[q].outcome \in Completed =>
            Behind(c, h)' \subseteq taken' \cup reported' \cup run[q].failed
    <3>1. SUFFICES ASSUME pc[q] = "finishing" /\ run[q].outcome \in Completed
                   PROVE  Behind(c, h)' \subseteq taken' \cup reported' \cup run[q].failed
      BY <1>1, <2>1
    <3>2. /\ Behind(c, h) \subseteq taken \cup reported \cup run[q].failed
          /\ h \in Time /\ h <= clock
      BY <1>2, <1>3, <2>1, <3>1 DEF WindowSafe
    <3>3. Behind(c, h)' \subseteq Behind(c, h)
      BY <1>2, <3>2, BehindKept
    <3> QED BY <3>2, <3>3 DEF Grows
  <2>3. pc'[q] \notin {"idle", "starting"} /\ run'[q].anchor # Null =>
            run'[q].anchor <= clock' /\ UpTo(c, a)'
    <3>1. SUFFICES ASSUME pc[q] \notin {"idle", "starting"} /\ run[q].anchor # Null
                   PROVE  a <= clock' /\ UpTo(c, a)'
      BY <1>1, <2>1
    <3>2. UpTo(c, a) /\ a \in Time /\ a <= clock
      BY <1>2, <2>1, <3>1 DEF WindowSafe, RunType
    <3>3. clock \in Int /\ clock' \in Int /\ clock <= clock'
      BY <1>2 DEF Grows, TypeOK
    <3> QED BY <1>2, <3>2, <3>3, UpToKept
  <2> QED BY <1>1, <1>2, <2>1, <2>2, <2>3 DEF WindowSafe, UpTo, Behind
<1> QED BY <1>4, <1>5, <1>6

\* A step that completes no run misses nothing.
LEMMA StartsKept ==
    ASSUME FetchInv, Grows, \A c \in Connector : CompletedStarts(c)' \subseteq CompletedStarts(c)
    PROVE  NothingMissed'
<1> SUFFICES ASSUME NEW c \in Connector, NEW s, s \in CompletedStarts(c)' PROVE UpTo(c, s)'
  BY DEF NothingMissed
<1>1. s \in CompletedStarts(c) /\ TypeOK /\ NotYet
  BY DEF FetchInv
<1>2. UpTo(c, s)
  BY <1>1 DEF FetchInv, NothingMissed
<1>3. s \in Time /\ s <= clock
  BY <1>1, StartsAreTimes
<1> QED BY <1>1, <1>2, <1>3, UpToKept

(***************************************************************************)
(* The window                                                              *)
(***************************************************************************)

\* The overlap reaches a date that is late by no more than the overlap.
LEMMA Overlap == \A a, b, c, d \in Int : a <= b /\ b <= c + d => a - d <= c
OBVIOUS

\* A run sees in its window all that its source showed between its anchor and its
\* start; what the source showed earlier is accounted for already.
LEMMA WindowReaches ==
    ASSUME Uncut, FetchInv, NEW t \in Task, pc[t] = "fetching",
           NEW f \in Filing, SourceOf[f] = run[t].conn, filed[f] # Null,
           filed[f].at < run[t].now
    PROVE  f \in taken \cup reported \/ f \in Certain(run[t])
<1> DEFINE x == run[t]
<1>1. /\ x \in RunType /\ x.now \in Time /\ clock \in Time /\ x.now <= clock
      /\ filed[f] \in [at: Time, date: Nat]
  BY DEF FetchInv, TypeOK, RunType, NotYet
<1>2. /\ filed[f].at \in Time /\ filed[f].date \in Nat
      /\ filed[f].date <= Date[filed[f].at]
      /\ Date[filed[f].at] <= filed[f].date + OverlapDays
  BY <1>1 DEF FetchInv, NotYet
<1>3. Date[filed[f].at] \in Nat /\ Date[x.now] \in Nat /\ Date[MaxTime] \in Nat
      /\ Date[filed[f].at] <= Date[x.now] /\ Date[x.now] <= Date[MaxTime]
  BY <1>1, <1>2, SMTT(30)
<1>4. filed[f].date <= Date[x.now]
  BY <1>2, <1>3
<1>5. SUFFICES ASSUME f \notin taken \cup reported PROVE WindowStart(x) <= filed[f].date
  BY <1>4 DEF Certain, Visible
<1>6. CASE x.since # Null
  <2>1. x.since = 0
    BY <1>6 DEF FetchInv, WindowSafe, Uncut
  <2> QED BY <1>2, <1>6, <2>1 DEF WindowStart, Uncut
<1>7. CASE x.since = Null /\ x.anchor # Null
  <2>1. x.anchor \in Time /\ UpTo(x.conn, x.anchor)
    BY <1>1, <1>7 DEF FetchInv, WindowSafe, RunType
  <2>2. x.anchor <= filed[f].at
    BY <1>1, <1>2, <1>5, <2>1 DEF UpTo, Behind
  <2>3. Date[x.anchor] <= Date[filed[f].at] /\ Date[x.anchor] \in Nat
    BY <1>2, <2>1, <2>2
  <2>4. Date[x.anchor] - OverlapDays <= filed[f].date
    BY <1>2, <1>3, <2>3, Overlap, SMTT(30)
  <2> QED BY <1>7, <2>4 DEF WindowStart
<1>8. CASE x.since = Null /\ x.anchor = Null
  BY <1>2, <1>3, <1>8 DEF WindowStart, Uncut
<1> QED BY <1>6, <1>7, <1>8

(***************************************************************************)
(* The invariant                                                           *)
(***************************************************************************)

\* What is left to show of a step that keeps types, rows and most runs.
LEMMA KeptStep ==
    ASSUME FetchInv, TypeOK', NotYet', Grows, SameStarts, NothingMissed',
           NEW S \in SUBSET Task, SameRuns(Task \ S),
           \A t \in S : OpenRow(t)' /\ WindowSafe(t)'
    PROVE  FetchInv'
<1>1. \A t \in Task \ S : OpenRow(t)' /\ WindowSafe(t)'
  BY SameRunsKept
<1> QED BY <1>1 DEF FetchInv

\* Time passes, or nothing happens.
LEMMA TickInv == FetchInv /\ TypeOK' /\ (Tick \/ UNCHANGED vars) => FetchInv'
<1> SUFFICES ASSUME FetchInv, TypeOK', Tick \/ UNCHANGED vars PROVE FetchInv'
  OBVIOUS
<1>1. UNCHANGED <<filed, row, nextRow, pc, run, taken, reported>> /\ clock <= clock'
      /\ clock \in Int /\ clock' \in Int
  BY DEF Tick, vars, FetchInv, TypeOK
<1>2. Grows /\ SameStarts /\ SameRuns(Task)
  BY <1>1 DEF Grows, SameStarts, SameRuns
<1>3. NotYet'
  <2>1. \A i \in RowId : row[i] # Null => row[i].started \in Int
    BY DEF FetchInv, TypeOK, RowType
  <2>2. \A f \in Filing : filed[f] # Null => filed[f].at \in Int
    BY DEF FetchInv, TypeOK
  <2>3. \A t \in Task : pc'[t] # "idle" => run'[t].now <= clock'
    BY <1>1, <1>2, SameRunsKept
  <2> QED BY <1>1, <2>1, <2>2, <2>3 DEF FetchInv, NotYet
<1>4. NothingMissed'
  BY <1>1, <1>2, StartsKept DEF CompletedStarts, RowsOf
<1>5. SameRuns(Task \ {}) /\ {} \in SUBSET Task
  BY <1>2 DEF SameRuns
<1>6. \A t \in {} : OpenRow(t)' /\ WindowSafe(t)'
  OBVIOUS
<1> QED BY <1>2, <1>3, <1>4, <1>5, <1>6, KeptStep

\* A step of one task, or of the tasks S, that leaves the clock, the filings and
\* the ids alone and starts no row.
LEMMA NotYetKept ==
    ASSUME FetchInv, TypeOK', Grows, SameStarts, UNCHANGED <<clock, filed>>,
           NEW S \in SUBSET Task, SameRuns(Task \ S),
           \A t \in S : pc'[t] # "idle" => run'[t].now <= clock,
           \A i \in RowId : row'[i] # Null => i < nextRow' /\ (row[i] # Null \/ row'[i].started <= clock)
    PROVE  NotYet'
<1>1. \A t \in Task \ S : pc'[t] # "idle" => run'[t].now <= clock'
  BY SameRunsKept
<1>2. \A t \in Task : pc'[t] # "idle" => run'[t].now <= clock'
  BY <1>1
<1>3. \A i \in RowId : row'[i] # Null => row'[i].started <= clock' /\ i < nextRow'
  BY DEF FetchInv, NotYet, SameStarts
<1> QED BY <1>2, <1>3 DEF FetchInv, NotYet

\* A source shows a filing: not before now, and dated within the overlap.
LEMMA PublishInv == FetchInv /\ TypeOK' /\ Publish => FetchInv'
<1> SUFFICES ASSUME FetchInv, TypeOK', Publish PROVE FetchInv'
  OBVIOUS
<1>1. PICK f \in Filing, d \in 0..Date[clock] :
          /\ filed[f] = Null /\ Date[clock] - d <= OverlapDays
          /\ filed' = [filed EXCEPT ![f] = [at |-> clock, date |-> d]]
  BY DEF Publish
<1>2. UNCHANGED <<clock, row, nextRow, pc, run, taken, reported>> /\ clock \in Time /\ Date[clock] \in Nat
  BY DEF Publish, FetchInv, TypeOK
<1>3. /\ filed'[f].at = clock /\ filed'[f].date = d
      /\ \A g \in Filing \ {f} : filed'[g] = filed[g]
  BY <1>1 DEF FetchInv, TypeOK
<1>4. Grows /\ SameStarts /\ SameRuns(Task \ {})
  BY <1>2, <1>3 DEF Grows, SameStarts, SameRuns
<1>5. NotYet'
  <2>1. d <= Date[clock] /\ Date[clock] <= d + OverlapDays
    BY <1>1, <1>2
  <2> QED BY <1>2, <1>3, <2>1, SMTT(30) DEF FetchInv, NotYet
<1>6. NothingMissed'
  BY <1>2, <1>4, StartsKept DEF CompletedStarts, RowsOf
<1>7. {} \in SUBSET Task /\ \A t \in {} : OpenRow(t)' /\ WindowSafe(t)'
  OBVIOUS
<1> QED BY <1>4, <1>5, <1>6, <1>7, KeptStep

\* A run starts: it starts now, and has no row yet.
LEMMA BeginInv ==
    ASSUME FetchInv, TypeOK', NEW t \in Task, NEW c \in Connector, Begin(t, c)
    PROVE  FetchInv'
<1>1. PICK since \in SinceOf[t] :
          run' = [run EXCEPT ![t] = [NoRun EXCEPT !.conn = c, !.now = clock, !.since = since]]
  BY DEF Begin
<1> DEFINE new == [NoRun EXCEPT !.conn = c, !.now = clock, !.since = since]
<1>2. new.now = clock /\ new.since = since /\ new.outcome = "error" /\ new.failed = {}
  BY DEF NoRun
<1>3. run' = [run EXCEPT ![t] = new]
  BY <1>1
<1> HIDE DEF new
<1>4. UNCHANGED <<clock, filed, row, nextRow, taken, reported>> /\ clock \in Int
      /\ pc'[t] = "starting" /\ run'[t] = new /\ SameRuns(Task \ {t})
  BY <1>3 DEF Begin, FetchInv, TypeOK, SameRuns
<1>5. Grows /\ SameStarts
  BY <1>4 DEF Grows, SameStarts
<1>6. {t} \in SUBSET Task
  OBVIOUS
<1>7. NotYet'
  <2>1. \A q \in {t} : pc'[q] # "idle" => run'[q].now <= clock
    BY <1>2, <1>4
  <2>2. \A i \in RowId : row'[i] # Null => i < nextRow' /\ row[i] # Null
    BY <1>4 DEF FetchInv, NotYet
  <2> QED BY <1>4, <1>5, <1>6, <2>1, <2>2, NotYetKept
<1>8. \A q \in {t} : OpenRow(q)' /\ WindowSafe(q)'
  BY <1>2, <1>4 DEF OpenRow, WindowSafe
<1>9. NothingMissed'
  BY <1>4, <1>5, StartsKept DEF CompletedStarts, RowsOf
<1> QED BY <1>4, <1>5, <1>6, <1>7, <1>8, <1>9, KeptStep

\* Tasks that leave their runs or die.
LEMMA DeathInv ==
    ASSUME FetchInv, TypeOK', NEW S \in SUBSET Task,
           pc' = [t \in Task |-> IF t \in S THEN "idle" ELSE pc[t]],
           run' = [t \in Task |-> IF t \in S THEN NoRun ELSE run[t]],
           UNCHANGED <<clock, filed, row, nextRow, taken, reported>>
    PROVE  FetchInv'
<1>1. Grows /\ SameStarts /\ SameRuns(Task \ S) /\ clock \in Int
  BY DEF Grows, SameStarts, SameRuns, FetchInv, TypeOK
<1>2. \A t \in S : pc'[t] = "idle" /\ run'[t] = NoRun /\ t \in Task
  OBVIOUS
<1>3. NotYet'
  BY <1>1, <1>2, NotYetKept DEF FetchInv, NotYet
<1>4. \A t \in S : OpenRow(t)' /\ WindowSafe(t)'
  BY <1>2 DEF OpenRow, WindowSafe, NoRun
<1>5. NothingMissed'
  BY <1>1, StartsKept DEF CompletedStarts, RowsOf
<1> QED BY <1>1, <1>3, <1>4, <1>5, KeptStep

\* A run reads its anchor and inserts its row: what is below the anchor is accounted for.
LEMMA OpenInv ==
    ASSUME FetchInv, TypeOK', NEW t \in Task, Open(t)
    PROVE  FetchInv'
<1>1. PICK a \in Time \cup {Null} :
          /\ IsAnchor(run[t].conn, a)
          /\ run' = [run EXCEPT ![t].id = nextRow, ![t].anchor = a]
  BY DEF Open
<1>2. run[t] \in RunType /\ nextRow \in RowId /\ run[t].conn \in Connector /\ run[t].now \in Time
      /\ run[t].now <= clock /\ clock \in Int /\ TypeOK /\ NotYet /\ pc[t] = "starting"
  BY SMTT(30) DEF Open, FetchInv, TypeOK, RunType, NotYet
<1> DEFINE x == [run[t] EXCEPT !.id = nextRow, !.anchor = a]
           new == [conn |-> run[t].conn, started |-> run[t].now, finished |-> FALSE,
                   status |-> "error"]
<1>3. /\ x.id = nextRow /\ x.anchor = a
      /\ x.conn = run[t].conn /\ x.now = run[t].now /\ x.since = run[t].since
      /\ x.outcome = run[t].outcome /\ x.failed = run[t].failed
  BY <1>2 DEF RunType
<1>4. run' = [run EXCEPT ![t] = x]
  BY <1>1, <1>2 DEF RunType
<1>5. row' = [row EXCEPT ![nextRow] = new]
  BY DEF Open
<1>17. new \in RowType
  BY <1>2 DEF RowType, Status
<1>6. new.conn = run[t].conn /\ new.started = run[t].now /\ new.status = "error" /\ new # Null
  BY <1>17
<1> HIDE DEF x, new
<1>18. pc' = [pc EXCEPT ![t] = "fetching"] /\ DOMAIN pc = Task /\ DOMAIN run = Task
  BY <1>2 DEF Open, TypeOK
<1>7. UNCHANGED <<clock, filed, taken, reported>> /\ nextRow' = nextRow + 1 /\ pc'[t] = "fetching"
      /\ run'[t] = x /\ SameRuns(Task \ {t}) /\ nextRow \in Int
  <2>1. UNCHANGED <<clock, filed, taken, reported>> /\ nextRow' = nextRow + 1
    BY DEF Open
  <2>2. pc'[t] = "fetching" /\ run'[t] = x
    BY <1>4, <1>18
  <2>3. SameRuns(Task \ {t})
    BY <1>4, <1>18 DEF SameRuns
  <2> QED BY <1>2, <2>1, <2>2, <2>3
<1>8. row[nextRow] = Null /\ row'[nextRow] = new
      /\ \A i \in RowId \ {nextRow} : row'[i] = row[i]
  BY <1>2, <1>5 DEF TypeOK, NotYet
<1>9. Grows /\ SameStarts
  BY <1>2, <1>7, <1>8, SMTT(30) DEF Grows, SameStarts
<1>10. {t} \in SUBSET Task
  OBVIOUS
<1>11. NotYet'
  <2>1. \A q \in {t} : pc'[q] # "idle" => run'[q].now <= clock
    BY <1>2, <1>3, <1>7
  <2>2. \A i \in RowId : row'[i] # Null =>
            i < nextRow' /\ (row[i] # Null \/ row'[i].started <= clock)
    <3> SUFFICES ASSUME NEW i \in RowId, row'[i] # Null
                 PROVE  i < nextRow' /\ (row[i] # Null \/ row'[i].started <= clock)
      OBVIOUS
    <3>1. CASE i = nextRow
      BY <1>2, <1>6, <1>7, <1>8, <3>1
    <3>2. CASE i # nextRow
      <4>1. row[i] # Null /\ i < nextRow
        BY <1>2, <1>8, <3>2 DEF NotYet
      <4> QED BY <1>7, <4>1
    <3> QED BY <3>1, <3>2
  <2> QED BY <1>7, <1>9, <1>10, <2>1, <2>2, NotYetKept
<1>12. a # Null => a <= clock /\ UpTo(run[t].conn, a)
  BY <1>1, <1>2, StartsAreTimes DEF IsAnchor, FetchInv, NothingMissed
<1>13. OpenRow(t)'
  BY <1>3, <1>6, <1>7, <1>8 DEF OpenRow
<1>14. WindowSafe(t)'
  <2>1. UpTo(run[t].conn, a)' \/ a = Null
    BY <1>3, <1>7, <1>12 DEF UpTo, Behind
  <2>2. run[t].since \in SinceOf[t] \cup {Null} /\ run[t].outcome = "error" /\ run[t].failed = {}
    BY <1>2 DEF FetchInv, WindowSafe
  <2> QED BY <1>3, <1>7, <1>12, <2>1, <2>2 DEF WindowSafe, UpTo, Behind
<1>15. NothingMissed'
  <2>1. ASSUME NEW c \in Connector, NEW i \in RowId, row'[i] # Null, row'[i].conn = c,
               row'[i].status \in Completed
        PROVE  row[i] # Null /\ row'[i] = row[i]
    BY <1>6, <1>8, <2>1 DEF Completed
  <2>2. \A c \in Connector : CompletedStarts(c)' \subseteq CompletedStarts(c)
    BY <2>1 DEF CompletedStarts, RowsOf
  <2> QED BY <1>9, <2>2, StartsKept
<1>16. \A q \in {t} : OpenRow(q)' /\ WindowSafe(q)'
  BY <1>13, <1>14
<1> QED BY <1>7, <1>9, <1>10, <1>11, <1>15, <1>16, KeptStep

\* fetch ends, completed or not.
LEMMA FetchedInv ==
    ASSUME FetchInv, TypeOK', NEW t \in Task, pc[t] = "fetching",
           NEW F, taken' = taken \cup F, NEW outcome, NEW G,
           pc' = [pc EXCEPT ![t] = "finishing"],
           run' = [run EXCEPT ![t].outcome = outcome, ![t].failed = G],
           UNCHANGED <<clock, filed, row, nextRow, reported>>,
           outcome \in Completed => Uncut /\ Certain(run[t]) \subseteq F \cup G,
           G # {} => outcome = "partial"
    PROVE  FetchInv'
<1> DEFINE x == [run[t] EXCEPT !.outcome = outcome, !.failed = G]
<1>1. run[t] \in RunType /\ run[t].now \in Time /\ run[t].now <= clock /\ clock \in Int
  BY DEF FetchInv, TypeOK, RunType, NotYet
<1>2. /\ x.id = run[t].id /\ x.anchor = run[t].anchor /\ x.conn = run[t].conn
      /\ x.now = run[t].now /\ x.since = run[t].since /\ x.outcome = outcome
      /\ x.failed = G
  BY <1>1 DEF RunType
<1>3. run' = [run EXCEPT ![t] = x]
  BY <1>1 DEF RunType
<1> HIDE DEF x
<1>4. pc'[t] = "finishing" /\ run'[t] = x /\ SameRuns(Task \ {t})
  BY <1>3 DEF FetchInv, TypeOK, SameRuns
<1>5. Grows /\ SameStarts
  BY <1>1 DEF Grows, SameStarts
<1>6. {t} \in SUBSET Task
  OBVIOUS
<1>7. NotYet'
  <2>1. \A q \in {t} : pc'[q] # "idle" => run'[q].now <= clock
    BY <1>1, <1>2, <1>4
  <2>2. \A i \in RowId : row'[i] # Null => i < nextRow' /\ row[i] # Null
    BY DEF FetchInv, NotYet
  <2> QED BY <1>4, <1>5, <1>6, <2>1, <2>2, NotYetKept
<1>8. outcome \in Completed =>
          Behind(run[t].conn, run[t].now) \subseteq taken' \cup reported' \cup G
  <2>1. SUFFICES ASSUME outcome \in Completed, NEW f \in Filing,
                        SourceOf[f] = run[t].conn, filed[f] # Null, filed[f].at < run[t].now
                 PROVE  f \in taken' \cup reported' \cup G
    BY DEF Behind
  <2>2. f \in taken \cup reported \/ f \in Certain(run[t])
    BY <2>1, WindowReaches
  <2> QED BY <2>1, <2>2
<1>9. OpenRow(t)' /\ WindowSafe(t)'
  <2>1. OpenRow(t) /\ WindowSafe(t)
    BY DEF FetchInv
  <2>2. OpenRow(t)'
    BY <1>2, <1>4, <2>1 DEF OpenRow
  <2>3. x.anchor # Null => x.anchor <= clock /\ UpTo(x.conn, x.anchor)
    BY <1>2, <2>1 DEF WindowSafe
  <2> QED BY <1>2, <1>4, <1>8, <2>1, <2>2, <2>3 DEF WindowSafe, UpTo, Behind
<1>10. NothingMissed'
  BY <1>5, StartsKept DEF CompletedStarts, RowsOf
<1>11. \A q \in {t} : OpenRow(q)' /\ WindowSafe(q)'
  BY <1>9
<1> QED BY <1>4, <1>5, <1>6, <1>7, <1>10, <1>11, KeptStep

\* A run finishes: as completed only if what it did not store is reported with it.
LEMMA FinishInv ==
    ASSUME FetchInv, TypeOK', NEW t \in Task, Finish(t)
    PROVE  FetchInv'
<1> DEFINE i == run[t].id
           new == [row[i] EXCEPT !.finished = TRUE, !.status = run[t].outcome]
<1>1. /\ TypeOK /\ NotYet /\ OpenRow(t) /\ WindowSafe(t) /\ pc[t] = "finishing"
      /\ i \in RowId /\ row[i] \in RowType /\ row[i] # Null /\ run[t] \in RunType
  BY DEF Finish, FetchInv, TypeOK, RunType
<1>2. /\ new.conn = run[t].conn /\ new.started = run[t].now /\ new.status = run[t].outcome
      /\ row[i].conn = run[t].conn /\ row[i].started = run[t].now
  BY <1>1 DEF RowType, OpenRow
<1>3. new \in RowType
  BY <1>1 DEF RowType, RunType
<1>4. row' = [row EXCEPT ![i] = new]
  BY <1>1 DEF Finish, RowType
<1> HIDE DEF i, new
<1>5. row'[i] = new /\ new # Null /\ \A j \in RowId \ {i} : row'[j] = row[j]
  BY <1>1, <1>3, <1>4 DEF TypeOK
<1>6. /\ pc' = [q \in Task |-> IF q \in {t} THEN "idle" ELSE pc[q]]
      /\ run' = [q \in Task |-> IF q \in {t} THEN NoRun ELSE run[q]]
      /\ UNCHANGED <<clock, filed, nextRow, taken>> /\ reported' = reported \cup run[t].failed
  BY <1>1, LeaveIsDeath DEF Finish
<1>7. SameStarts
  BY <1>1, <1>2, <1>5 DEF SameStarts
<1>8. Grows /\ SameRuns(Task \ {t}) /\ clock \in Int /\ {t} \in SUBSET Task
  BY <1>1, <1>6 DEF Grows, SameRuns, TypeOK
<1>9. NotYet'
  <2>1. \A q \in {t} : pc'[q] # "idle" => run'[q].now <= clock
    BY <1>6
  <2>2. \A j \in RowId : row'[j] # Null => j < nextRow' /\ row[j] # Null
    BY <1>1, <1>5, <1>6 DEF NotYet
  <2> QED BY <1>6, <1>7, <1>8, <2>1, <2>2, NotYetKept
<1>10. \A q \in {t} : OpenRow(q)' /\ WindowSafe(q)'
  BY <1>6 DEF OpenRow, WindowSafe, NoRun
<1>11. ASSUME NEW c \in Connector, NEW s, s \in CompletedStarts(c)' PROVE UpTo(c, s)'
  <2>1. PICK j \in RowId : /\ row'[j] # Null /\ row'[j].conn = c /\ row'[j].started = s
                            /\ row'[j].status \in Completed
    BY <1>11 DEF CompletedStarts, RowsOf
  <2>2. CASE j = i
    <3>1. run[t].conn = c /\ run[t].now = s /\ run[t].outcome \in Completed
      BY <1>2, <1>5, <2>1, <2>2
    <3>2. Behind(c, s) \subseteq taken \cup reported \cup run[t].failed /\ s \in Time /\ s <= clock
      BY <1>1, <3>1 DEF WindowSafe, NotYet, TypeOK, RunType
    <3>3. Behind(c, s)' \subseteq Behind(c, s)
      BY <1>1, <1>8, <3>2, BehindKept
    <3> QED BY <1>6, <3>2, <3>3 DEF UpTo
  <2>3. CASE j # i
    <3>1. s \in CompletedStarts(c)
      BY <1>5, <2>1, <2>3 DEF CompletedStarts, RowsOf
    <3>2. UpTo(c, s) /\ s \in Time /\ s <= clock
      BY <1>1, <3>1, StartsAreTimes DEF FetchInv, NothingMissed
    <3> QED BY <1>1, <1>8, <3>2, UpToKept
  <2> QED BY <2>2, <2>3
<1>12. NothingMissed'
  BY <1>11 DEF NothingMissed
<1> QED BY <1>7, <1>8, <1>9, <1>10, <1>12, KeptStep

\* The strengthened invariant is inductive when nothing cuts a scan short.
LEMMA FetchStep ==
    ASSUME Uncut, FetchInv, [RunNext]_vars
    PROVE  FetchInv'
<1>1. TypeOK'
  BY TypeStep DEF FetchInv
<1>2. CASE Tick \/ UNCHANGED vars
  BY <1>1, <1>2, TickInv
<1>3. CASE Publish
  BY <1>1, <1>3, PublishInv
<1>4. ASSUME NEW t \in Task, NEW c \in Connector, Begin(t, c) PROVE FetchInv'
  BY <1>1, <1>4, BeginInv
<1>5. ASSUME NEW t \in Task, Open(t) PROVE FetchInv'
  BY <1>1, <1>5, OpenInv
<1>6. ASSUME NEW t \in Task, Leave(t), UNCHANGED <<clock, filed, row, nextRow, taken, reported>>
      PROVE  FetchInv'
  <2>1. {t} \in SUBSET Task /\ TypeOK
    BY DEF FetchInv
  <2>2. /\ pc' = [q \in Task |-> IF q \in {t} THEN "idle" ELSE pc[q]]
        /\ run' = [q \in Task |-> IF q \in {t} THEN NoRun ELSE run[q]]
    BY <1>6, <2>1, LeaveIsDeath
  <2> QED BY <1>1, <1>6, <2>1, <2>2, DeathInv
<1>7. ASSUME NEW S \in SUBSET Task, Die(S) PROVE FetchInv'
  BY <1>1, <1>7, DeathInv DEF Die
<1>8. ASSUME NEW t \in Task, Scan(t) PROVE FetchInv'
  <2>1. PICK F \in SUBSET Visible(run[t]), G \in SUBSET Visible(run[t]), outcome \in Completed :
            /\ \/ Certain(run[t]) \subseteq F \cup G
               \/ Capped(run[t]) /\ outcome = "partial"
            /\ G # {} => outcome = "partial"
            /\ taken' = taken \cup F
            /\ run' = [run EXCEPT ![t].outcome = outcome, ![t].failed = G]
    BY <1>8 DEF Scan
  <2>2. ~ Capped(run[t])
    BY DEF Uncut, Capped, Visible
  <2>3. pc[t] = "fetching" /\ pc' = [pc EXCEPT ![t] = "finishing"]
        /\ UNCHANGED <<clock, filed, row, nextRow, reported>>
    BY <1>8 DEF Scan
  <2>4. Certain(run[t]) \subseteq F \cup G
    BY <2>1, <2>2
  <2> QED BY <1>1, <2>1, <2>3, <2>4, FetchedInv
<1>9. ASSUME NEW t \in Task, FetchFails(t) PROVE FetchInv'
  <2>1. PICK F \in SUBSET Visible(run[t]) : taken' = taken \cup F
    BY <1>9 DEF FetchFails
  <2>2. pc[t] = "fetching" /\ pc' = [pc EXCEPT ![t] = "finishing"]
        /\ UNCHANGED <<clock, filed, row, nextRow, run, reported>>
    BY <1>9 DEF FetchFails
  <2>3. /\ run[t].outcome = "error" /\ run[t].failed = {}
        /\ run[t] \in RunType /\ run \in [Task -> RunType]
    BY <2>2 DEF FetchInv, WindowSafe, TypeOK
  <2>4. [run[t] EXCEPT !.outcome = "error", !.failed = {}] = run[t]
    BY <2>3 DEF RunType
  <2>5. run' = [run EXCEPT ![t].outcome = "error", ![t].failed = {}]
    BY <2>2, <2>3, <2>4
  <2>6. "error" \notin Completed
    BY DEF Completed
  <2> QED BY <1>1, <2>1, <2>2, <2>5, <2>6, FetchedInv
<1>10. ASSUME NEW t \in Task, Finish(t) PROVE FetchInv'
  BY <1>1, <1>10, FinishInv
<1> QED BY <1>2, <1>3, <1>4, <1>5, <1>6, <1>7, <1>8, <1>9, <1>10
    DEF RunNext, RunStep, OpenFails, FinishFails

\* The invariant holds of the empty database.
LEMMA FetchInit == Init => FetchInv
<1> SUFFICES ASSUME Init PROVE FetchInv
  OBVIOUS
<1>1. TypeOK
  BY TypeInit
<1>2. \A i \in RowId : row[i] = Null
  BY DEF Init
<1>3. NotYet
  BY <1>2 DEF Init, NotYet
<1>4. \A t \in Task : OpenRow(t) /\ WindowSafe(t)
  BY DEF Init, OpenRow, WindowSafe, NoRun
<1>5. NothingMissed
  BY <1>2 DEF NothingMissed, CompletedStarts, RowsOf
<1> QED BY <1>1, <1>3, <1>4, <1>5 DEF FetchInv

\* The invariant holds throughout.
LEMMA FetchInvHolds == ASSUME Uncut PROVE RunSpec => []FetchInv
<1>1. Init => FetchInv
  BY FetchInit
<1>2. FetchInv /\ [RunNext]_vars => FetchInv'
  BY FetchStep
<1> QED BY <1>1, <1>2, PTL DEF RunSpec

(***************************************************************************)
(* Results                                                                 *)
(***************************************************************************)

\* Whatever the connectors, the filings, the length of the overlap and the number
\* of overlapping or dying runs: all that a source showed before a completed run
\* of its connector started has been stored, or has failed in a run that ended
\* partial and says so, as long as no search is cut short (run_connector,
\* last_successful_run_started_at, window).
THEOREM NothingIsMissed == ASSUME Uncut PROVE RunSpec => []NothingMissed
<1>1. FetchInv => NothingMissed
  BY DEF FetchInv
<1> QED BY <1>1, FetchInvHolds, PTL

(***************************************************************************)
(* The failure streak                                                      *)
(***************************************************************************)

\* Newest first is a total order of the finished runs of a connector, and the
\* one consecutive_failure_counts counts by.
LEMMA NewestFirstIsTotal ==
    ASSUME TypeOK, NEW c \in Connector
    PROVE  /\ IsFiniteSet(Finished(c))
           /\ \A i, j \in Finished(c) : i = j \/ Newer(i, j) \/ Newer(j, i)
           /\ \A i, j \in Finished(c) : Newer(i, j) => i # j /\ ~ Newer(j, i)
           /\ \A i, j, k \in Finished(c) : Newer(i, j) /\ Newer(j, k) => Newer(i, k)
           /\ \A i \in Finished(c) : AtOrAbove(c, i) = UpToRun(c, i)
<1>1. \A i \in Finished(c) : i \in 1..MaxRows /\ i \in Int /\ row[i].started \in Int
  BY DEF Finished, RowsOf, TypeOK, RowType
<1>2. IsFiniteSet(Finished(c))
  <2>1. IsFiniteSet(1..MaxRows)
    <3>1. 1 \in Int /\ MaxRows \in Int
      OBVIOUS
    <3> QED BY <3>1, FS_Interval, Zenon
  <2>2. Finished(c) \in SUBSET (1..MaxRows)
    BY <1>1
  <2> QED BY <2>1, <2>2, FS_Subset
<1>3. \A i, j \in Finished(c) : i = j \/ Newer(i, j) \/ Newer(j, i)
  BY <1>1 DEF Newer
<1>4. \A i, j \in Finished(c) : Newer(i, j) => i # j /\ ~ Newer(j, i)
  BY <1>1 DEF Newer
<1>5. \A i, j, k \in Finished(c) : Newer(i, j) /\ Newer(j, k) => Newer(i, k)
  BY <1>1 DEF Newer
<1>6. ASSUME NEW i \in Finished(c) PROVE AtOrAbove(c, i) = UpToRun(c, i)
  BY <1>1 DEF AtOrAbove, UpToRun, Newer
<1> QED BY <1>2, <1>3, <1>4, <1>5, <1>6

\* The runs of the streak are the newest, and all of them that are.
LEMMA StreakIsTheNewest == TypeOK => StreakIsNewestErrors
<1> SUFFICES ASSUME TypeOK, NEW c \in Connector, NEW i \in Finished(c)
             PROVE  Cardinality(UpToRun(c, i)) <= Streak(c)
                        <=> \A j \in UpToRun(c, i) : row[j].status = "error"
  BY DEF StreakIsNewestErrors
<1> DEFINE E == {k \in Finished(c) : \A j \in UpToRun(c, k) : row[j].status = "error"}
<1>1. Streak(c) = Cardinality(E)
  <2>1. E = {k \in Finished(c) : \A j \in AtOrAbove(c, k) : row[j].status = "error"}
    BY NewestFirstIsTotal
  <2> QED BY <2>1 DEF Streak
<1>2. /\ UpToRun(c, i) \in SUBSET Finished(c) /\ E \in SUBSET Finished(c)
      /\ i \in UpToRun(c, i)
  BY DEF UpToRun
<1>3. /\ IsFiniteSet(UpToRun(c, i)) /\ Cardinality(UpToRun(c, i)) \in Nat
      /\ IsFiniteSet(E) /\ Cardinality(E) \in Nat
  BY <1>2, NewestFirstIsTotal, FS_Subset, FS_CardinalityType
<1>4. ASSUME NEW k \in Finished(c), NEW j \in UpToRun(c, k)
      PROVE  j \in Finished(c) /\ UpToRun(c, j) \subseteq UpToRun(c, k)
  <2>1. j \in Finished(c) /\ (j = k \/ Newer(j, k))
    BY DEF UpToRun
  <2> QED BY <2>1, NewestFirstIsTotal DEF UpToRun
<1>5. CASE i \in E
  <2>1. UpToRun(c, i) \in SUBSET E
    BY <1>4, <1>5
  <2>2. Cardinality(UpToRun(c, i)) <= Cardinality(E)
    BY <1>3, <2>1, FS_Subset
  <2> QED BY <1>1, <1>5, <2>2
<1>6. CASE i \notin E
  <2>1. ASSUME NEW k \in E PROVE k \in UpToRun(c, i) \ {i}
    <3>1. k \in Finished(c) /\ k # i
      BY <1>6
    <3>2. ASSUME Newer(i, k) PROVE FALSE
      <4>1. i \in UpToRun(c, k)
        BY <3>2 DEF UpToRun
      <4>2. UpToRun(c, i) \subseteq UpToRun(c, k)
        BY <1>4, <3>1, <4>1
      <4> QED BY <1>6, <4>2
    <3> QED BY <3>1, <3>2, NewestFirstIsTotal DEF UpToRun
  <2>2. /\ IsFiniteSet(UpToRun(c, i) \ {i})
        /\ Cardinality(UpToRun(c, i) \ {i}) = Cardinality(UpToRun(c, i)) - 1
    BY <1>2, <1>3, FS_RemoveElement
  <2>3. E \in SUBSET (UpToRun(c, i) \ {i})
    BY <2>1
  <2>4. Cardinality(E) <= Cardinality(UpToRun(c, i) \ {i})
    BY <2>2, <2>3, FS_Subset
  <2>5. ~ (Cardinality(UpToRun(c, i)) <= Cardinality(E))
    BY <1>3, <2>2, <2>4
  <2> QED BY <1>1, <1>6, <2>5
<1> QED BY <1>5, <1>6

\* FetchRuns.StreakIsNewestErrors: whichever runs of a connector overlap, fail, stay open or
\* are killed, its failure streak is the errors since its newest run that was none.
THEOREM StreaksAreNewestErrors == RunSpec => []StreakIsNewestErrors
<1>1. Init => TypeOK
  BY TypeInit
<1>2. TypeOK /\ [RunNext]_vars => TypeOK'
  BY TypeStep
<1>3. TypeOK => StreakIsNewestErrors
  BY StreakIsTheNewest
<1> QED BY <1>1, <1>2, <1>3, PTL DEF RunSpec

(***************************************************************************)
(* Rows in flight                                                          *)
(***************************************************************************)

\* Every run past _start_run has a row of its own, which says error until then.
InFlight(t) == pc[t] \in {"fetching", "finishing"}
RowsOwned ==
    /\ \A t \in Task : InFlight(t) => run[t].id < nextRow /\ row[run[t].id].status = "error"
    /\ \A q, t \in Task : InFlight(q) /\ InFlight(t) /\ run[q].id = run[t].id => q = t

\* Steps that write no row and start no run keep the rows owned.
LEMMA OwnedKept ==
    ASSUME RowsOwned, UNCHANGED <<row, nextRow>>,
           \A t \in Task : InFlight(t)' => InFlight(t) /\ run'[t].id = run[t].id
    PROVE  RowsOwned'
BY DEF RowsOwned

\* Every step keeps the rows owned: ids are fresh, and a run finishes its own row.
LEMMA OwnedStep ==
    ASSUME TypeOK, RowsOwned, [RunNext]_vars
    PROVE  RowsOwned'
<1>1. TypeOK
  OBVIOUS
<1>2. CASE Tick \/ Publish \/ UNCHANGED vars
  BY <1>2, OwnedKept DEF Tick, Publish, vars, InFlight
<1>3. ASSUME NEW t \in Task, NEW c \in Connector, Begin(t, c) PROVE RowsOwned'
  <2>1. UNCHANGED <<row, nextRow>> /\ pc'[t] = "starting"
        /\ \A q \in Task \ {t} : pc'[q] = pc[q] /\ run'[q] = run[q]
    BY <1>1, <1>3 DEF Begin, TypeOK
  <2> QED BY <2>1, OwnedKept DEF InFlight
<1>4. ASSUME NEW t \in Task, Leave(t), UNCHANGED <<row, nextRow>> PROVE RowsOwned'
  <2>1. \A q \in Task : InFlight(q)' => InFlight(q) /\ run'[q].id = run[q].id
    BY <1>1, <1>4, LeaveIsDeath DEF InFlight
  <2> QED BY <1>4, <2>1, OwnedKept
<1>5. ASSUME NEW S \in SUBSET Task, Die(S) PROVE RowsOwned'
  BY <1>5, OwnedKept DEF Die, InFlight
<1>6. ASSUME NEW t \in Task, Scan(t) \/ FetchFails(t) PROVE RowsOwned'
  <2>1. UNCHANGED <<row, nextRow>> /\ InFlight(t)
        /\ \A q \in Task \ {t} : pc'[q] = pc[q] /\ run'[q] = run[q]
    BY <1>1, <1>6 DEF Scan, FetchFails, InFlight, TypeOK
  <2>2. run'[t].id = run[t].id
    BY <1>1, <1>6, ScanRun DEF FetchFails
  <2> QED BY <2>1, <2>2, OwnedKept DEF InFlight
<1>7. ASSUME NEW t \in Task, Open(t) PROVE RowsOwned'
  <2>1. nextRow \in RowId /\ nextRow' = nextRow + 1
        /\ \A q \in Task \ {t} : pc'[q] = pc[q] /\ run'[q] = run[q]
    BY <1>1, <1>7 DEF Open, TypeOK
  <2>2. run'[t].id = nextRow
    BY <1>1, <1>7 DEF Open, TypeOK, RunType
  <2>3. row'[nextRow].status = "error" /\ \A i \in RowId \ {nextRow} : row'[i] = row[i]
    BY <1>1, <1>7 DEF Open, TypeOK
  <2>4. \A q \in Task \ {t} : InFlight(q)' =>
            /\ InFlight(q) /\ run'[q].id = run[q].id
            /\ run'[q].id \in RowId /\ run'[q].id < nextRow
            /\ row'[run'[q].id].status = "error"
    BY <1>1, <2>1, <2>3 DEF InFlight, RowsOwned, TypeOK, RunType
  <2>5. nextRow < nextRow' /\ \A i \in RowId : i < nextRow => i < nextRow'
    BY <2>1
  <2> QED BY <2>2, <2>3, <2>4, <2>5 DEF RowsOwned
<1>8. ASSUME NEW t \in Task, Finish(t) PROVE RowsOwned'
  <2>1. /\ nextRow' = nextRow /\ ~ InFlight(t)' /\ InFlight(t)
        /\ \A q \in Task \ {t} : pc'[q] = pc[q] /\ run'[q] = run[q]
    BY <1>1, <1>8, LeaveIsDeath DEF Finish, InFlight
  <2>2. \A q \in Task \ {t} : InFlight(q)' => run[q].id # run[t].id
    BY <2>1 DEF RowsOwned, InFlight
  <2>3. \A i \in RowId : i # run[t].id => row'[i] = row[i]
    BY <1>1, <1>8 DEF Finish, TypeOK
  <2>4. \A q \in Task \ {t} : InFlight(q)' =>
            /\ InFlight(q) /\ run'[q].id = run[q].id /\ run'[q].id < nextRow'
            /\ row'[run'[q].id].status = "error"
    BY <1>1, <2>1, <2>2, <2>3 DEF InFlight, RowsOwned, TypeOK, RunType
  <2> QED BY <2>1, <2>4 DEF RowsOwned
<1> QED BY <1>2, <1>3, <1>4, <1>5, <1>6, <1>7, <1>8
    DEF RunNext, RunStep, OpenFails, FinishFails

(***************************************************************************)
(* The promise                                                             *)
(***************************************************************************)

\* The filings and the points reached that the promise is about.
ShownAt == [f \in Filing |-> IF filed[f] = Null THEN Null ELSE filed[f].at]
Reached == [c \in Connector |-> ScannedTo(c)]

\* The empty database has reached nothing.
LEMMA PromiseInit == Init => Promise!Init
BY DEF Init, Promise!Init, ScannedTo, RowsOf

\* Steps that neither show a filing nor complete a run.
LEMMA SameReached ==
    ASSUME UNCHANGED row
    PROVE  UNCHANGED Reached
BY DEF Reached, ScannedTo, RowsOf

\* Every step of a run is a step of the promise, or none.
LEMMA PromiseStep ==
    ASSUME FetchInv, RowsOwned, [RunNext]_vars
    PROVE  Promise!Next \/ UNCHANGED <<clock, ShownAt, taken, reported, Reached>>
<1>1. TypeOK /\ NotYet
  BY DEF FetchInv
<1>2. CASE UNCHANGED vars
  <2>1. UNCHANGED <<clock, filed, row, taken, reported>>
    BY <1>2 DEF vars
  <2> QED BY <2>1, SameReached DEF ShownAt
<1>3. CASE Tick
  <2>1. clock' \in Time /\ clock' > clock /\ UNCHANGED <<filed, row, taken, reported>>
    BY <1>1, <1>3 DEF Tick, TypeOK
  <2>2. UNCHANGED ShownAt /\ UNCHANGED Reached
    BY <2>1, SameReached DEF ShownAt
  <2> QED BY <2>1, <2>2 DEF Promise!Next, Promise!Tick, ShownAt, Reached
<1>4. CASE Publish
  <2>1. PICK f \in Filing, d \in 0..Date[clock] :
            filed[f] = Null /\ filed' = [filed EXCEPT ![f] = [at |-> clock, date |-> d]]
    BY <1>4 DEF Publish
  <2>2. UNCHANGED <<clock, row, taken, reported>> /\ clock # Null
    BY <1>1, <1>4 DEF Publish, TypeOK
  <2>3. [at |-> clock, date |-> d] # Null
    BY <1>1 DEF TypeOK
  <2>4. ShownAt[f] = Null /\ ShownAt' = [ShownAt EXCEPT ![f] = clock]
    BY <1>1, <2>1, <2>3 DEF ShownAt, TypeOK
  <2>5. UNCHANGED Reached
    BY <2>2, SameReached
  <2> QED BY <2>2, <2>4, <2>5 DEF Promise!Next, Promise!Show, ShownAt, Reached
<1>5. ASSUME NEW x \in RunType, taken' \in {taken \cup F : F \in SUBSET Visible(x)},
             UNCHANGED <<clock, filed, row, reported>>
      PROVE  Promise!Next
  <2>1. PICK F \in SUBSET Visible(x) : taken' = taken \cup F
    BY <1>5
  <2>2. F \in SUBSET {f \in Filing : ShownAt[f] # Null}
    <3>1. \A f \in Filing : filed[f] # Null => filed[f].at # Null
      BY <1>1 DEF TypeOK
    <3> QED BY <2>1, <3>1 DEF Visible, ShownAt
  <2>3. UNCHANGED ShownAt /\ UNCHANGED Reached
    BY <1>5, SameReached DEF ShownAt
  <2> QED BY <1>5, <2>1, <2>2, <2>3 DEF Promise!Next, Promise!Take, ShownAt, Reached
<1>6. ASSUME NEW t \in Task, Scan(t) \/ FetchFails(t) PROVE Promise!Next
  <2>1. run[t] \in RunType
    BY <1>1 DEF TypeOK
  <2> QED BY <1>5, <1>6, <2>1 DEF Scan, FetchFails
<1>7. ASSUME UNCHANGED <<clock, filed, row, taken, reported>>
      PROVE  UNCHANGED <<clock, ShownAt, taken, reported, Reached>>
  BY <1>7, SameReached DEF ShownAt
<1>8. ASSUME NEW t \in Task, Open(t)
      PROVE  UNCHANGED <<clock, ShownAt, taken, reported, Reached>>
  <2>1. UNCHANGED <<clock, filed, taken, reported>> /\ nextRow \in RowId
    BY <1>8 DEF Open
  <2> DEFINE new == [conn |-> run[t].conn, started |-> run[t].now, finished |-> FALSE,
                     status |-> "error"]
  <2>2. row' = [row EXCEPT ![nextRow] = new] /\ new.status = "error"
    BY <1>8 DEF Open
  <2> HIDE DEF new
  <2>3. row[nextRow] = Null /\ row'[nextRow] = new
        /\ \A i \in RowId \ {nextRow} : row'[i] = row[i]
    BY <1>1, <2>1, <2>2 DEF TypeOK, NotYet
  <2>4. \A i \in RowId : (row'[i] # Null /\ row'[i].status \in Completed) <=>
                         (row[i] # Null /\ row[i].status \in Completed)
    BY <2>2, <2>3 DEF Completed
  <2>5. \A i \in RowId : row[i] # Null /\ row[i].status \in Completed => row'[i] = row[i]
    BY <2>3
  <2>6. \A c \in Connector : ScannedTo(c)' = ScannedTo(c)
    BY <2>4, <2>5 DEF ScannedTo, RowsOf
  <2> QED BY <2>1, <2>6 DEF ShownAt, Reached
<1>9. ASSUME NEW t \in Task, Finish(t)
      PROVE  Promise!Next \/ UNCHANGED <<clock, ShownAt, taken, reported, Reached>>
  <2> DEFINE i == run[t].id
             new == [row[i] EXCEPT !.finished = TRUE, !.status = run[t].outcome]
  <2>1. /\ OpenRow(t) /\ WindowSafe(t) /\ pc[t] = "finishing" /\ row[i].status = "error"
        /\ i \in RowId /\ row[i] \in RowType /\ row[i] # Null /\ run[t] \in RunType
        /\ run[t].conn \in Connector /\ run[t].now \in Time /\ run[t].now <= clock
        /\ clock \in Time
    BY <1>1, <1>9 DEF Finish, FetchInv, TypeOK, NotYet, RunType, RowsOwned, InFlight
  <2>2. /\ new.conn = run[t].conn /\ new.started = run[t].now /\ new.status = run[t].outcome
        /\ row[i].conn = run[t].conn /\ row[i].started = run[t].now
    BY <2>1 DEF RowType, OpenRow
  <2>3. new \in RowType
    BY <2>1 DEF RowType, RunType
  <2>4. row' = [row EXCEPT ![i] = new]
    BY <2>1, <1>9 DEF Finish, RowType
  <2> HIDE DEF i, new
  <2>5. row'[i] = new /\ new # Null /\ \A j \in RowId \ {i} : row'[j] = row[j]
    BY <1>1, <2>1, <2>3, <2>4 DEF TypeOK
  <2>6. UNCHANGED <<clock, filed, taken>> /\ reported' = reported \cup run[t].failed
    BY <1>9 DEF Finish
  <2>7. \A j \in RowId \ {i} : row'[j] = row[j]
    BY <2>5
  <2>8. CASE run[t].outcome = "error"
    <3>3. row[i].status \notin Completed /\ row'[i].status \notin Completed
      BY <2>1, <2>2, <2>5, <2>8 DEF Completed
    <3>1. ASSUME NEW c \in Connector PROVE ScannedTo(c)' = ScannedTo(c)
      <4>1. ASSUME NEW s, s \in ScannedTo(c)' PROVE s \in ScannedTo(c)
        <5>1. PICK j \in RowId : /\ row'[j] # Null /\ row'[j].conn = c
                                 /\ [upTo |-> row'[j].started, status |-> row'[j].status] = s
                                 /\ row'[j].status \in Completed
          BY <4>1 DEF ScannedTo, RowsOf
        <5>2. j # i
          BY <3>3, <5>1
        <5> QED BY <2>5, <5>1, <5>2 DEF ScannedTo, RowsOf
      <4>2. ASSUME NEW s, s \in ScannedTo(c) PROVE s \in ScannedTo(c)'
        <5>1. PICK j \in RowId : /\ row[j] # Null /\ row[j].conn = c
                                 /\ [upTo |-> row[j].started, status |-> row[j].status] = s
                                 /\ row[j].status \in Completed
          BY <4>2 DEF ScannedTo, RowsOf
        <5>2. j # i
          BY <3>3, <5>1
        <5> QED BY <2>5, <5>1, <5>2 DEF ScannedTo, RowsOf
      <4> QED BY <4>1, <4>2
    <3>2. run[t].failed = {}
      BY <2>1, <2>8 DEF WindowSafe
    <3> QED BY <2>6, <3>1, <3>2 DEF ShownAt, Reached
  <2>9. CASE run[t].outcome \in Completed
    <3>11. PICK c, h, st, G : /\ c = run[t].conn /\ h = run[t].now
                              /\ st = run[t].outcome /\ G = run[t].failed
      OBVIOUS
    <3>12. PICK p : p = [upTo |-> h, status |-> st]
      OBVIOUS
    <3>1. /\ c = run[t].conn /\ h = run[t].now /\ st = run[t].outcome /\ G = run[t].failed
          /\ p = [upTo |-> h, status |-> st]
      BY <3>11, <3>12
    <3>2. ASSUME NEW d \in Connector, NEW s
          PROVE  s \in ScannedTo(d)' <=> s \in ScannedTo(d) \/ (d = c /\ s = p)
      <4>1. ASSUME s \in ScannedTo(d)' PROVE s \in ScannedTo(d) \/ (d = c /\ s = p)
        <5>1. PICK j \in RowId : /\ row'[j] # Null /\ row'[j].conn = d
                                 /\ [upTo |-> row'[j].started, status |-> row'[j].status] = s
                                 /\ row'[j].status \in Completed
          BY <4>1 DEF ScannedTo, RowsOf
        <5> QED BY <2>2, <2>5, <3>1, <5>1 DEF ScannedTo, RowsOf
      <4>2. ASSUME s \in ScannedTo(d) PROVE s \in ScannedTo(d)'
        <5>1. PICK j \in RowId : /\ row[j] # Null /\ row[j].conn = d
                                 /\ [upTo |-> row[j].started, status |-> row[j].status] = s
                                 /\ row[j].status \in Completed
          BY <4>2 DEF ScannedTo, RowsOf
        <5>2. j # i
          BY <2>1, <5>1 DEF Completed
        <5> QED BY <2>5, <5>1, <5>2 DEF ScannedTo, RowsOf
      <4>3. d = c /\ s = p => s \in ScannedTo(d)'
        BY <2>1, <2>2, <2>5, <2>9, <3>1 DEF ScannedTo, RowsOf
      <4> QED BY <4>1, <4>2, <4>3
    <3>3. \A d \in Connector :
              ScannedTo(d)' = ScannedTo(d) \cup (IF d = c THEN {p} ELSE {})
      BY <3>2
    <3>4. Reached' = [Reached EXCEPT ![c] = Reached[c] \cup {p}]
      BY <3>3 DEF Reached
    <3>5. /\ Behind(c, h) \subseteq taken \cup reported \cup G
          /\ h \in 0..clock /\ c \in Connector
      BY <2>1, <2>9, <3>1 DEF WindowSafe
    <3>6. Promise!Shown(c, h) \subseteq taken \cup reported \cup G
      BY <3>5 DEF Behind, Promise!Shown
    <3>7. UNCHANGED <<clock, ShownAt, taken>> /\ reported' = reported \cup G
      BY <2>6, <3>1 DEF ShownAt
    <3>9. /\ st \in {"ok", "partial"} /\ G \in SUBSET Filing
          /\ st = "ok" => G = {}
      BY <2>1, <2>9, <3>1 DEF Completed, WindowSafe, RunType
    <3>10. Reached' = [Reached EXCEPT ![c] = Reached[c] \cup {[upTo |-> h, status |-> st]}]
      BY <3>1, <3>4
    <3>13. \E d \in Connector : \E u \in 0..clock : \E status \in {"ok", "partial"} :
           \E H \in SUBSET Filing :
              /\ status = "ok" => H = {}
              /\ Promise!Shown(d, u) \subseteq taken \cup reported \cup H
              /\ reported' = reported \cup H
              /\ Reached' = [Reached EXCEPT ![d] = @ \cup {[upTo |-> u, status |-> status]}]
      BY <3>5, <3>6, <3>7, <3>9, <3>10, Zenon
    <3>8. Promise!Advance
      BY <3>7, <3>13, Zenon DEF Promise!Advance, ShownAt, Reached
    <3> QED BY <3>8 DEF Promise!Next
  <2>10. run[t].outcome \in {"error"} \cup Completed
    BY <2>1 DEF RunType, Status, Completed
  <2> QED BY <2>8, <2>9, <2>10
<1> QED BY <1>2, <1>3, <1>4, <1>6, <1>7, <1>8, <1>9
    DEF RunNext, RunStep, OpenFails, FinishFails, Begin, Die

\* The rows of fetch_runs implement the promise of Intake: the point a run may
\* start from, the started_at of a completed run, is only ever set where everything
\* shown before it has been stored or reported by a partial run, and an ok run adds
\* no failure to what earlier runs reported, whatever overlaps, fails or dies
\* (run_connector, the docstring of last_successful_run_started_at).
THEOREM RunsKeepThePromise == ASSUME Uncut PROVE RunSpec => PromiseKept
<1>1. Init => Promise!Init /\ FetchInv /\ RowsOwned
  BY PromiseInit, FetchInit DEF Init, RowsOwned, InFlight
<1>2. FetchInv /\ RowsOwned /\ [RunNext]_vars => FetchInv' /\ RowsOwned'
  BY FetchStep, OwnedStep DEF FetchInv
<1>3. FetchInv /\ RowsOwned /\ [RunNext]_vars =>
          [Promise!Next]_<<clock, ShownAt, taken, reported, Reached>>
  BY PromiseStep
<1> QED BY <1>1, <1>2, <1>3, PTL DEF RunSpec, PromiseKept, Promise!Spec, ShownAt, Reached
USE SchedulerAssumption

(***************************************************************************)
(* Every step of the scheduler is a step of its runs, or none              *)
(***************************************************************************)

\* Jobs, shutdowns and commands do to fetch_runs what a run does, or nothing.
LEMMA StepsAreRunSteps == [SchedulerNext]_schedulerVars => [RunNext]_vars
<1> USE DEF RunNext
<1>1. CASE UNCHANGED schedulerVars
  BY <1>1 DEF schedulerVars
<1>2. ASSUME NEW j \in Job, Fire(j) \/ Unbuildable(j) \/ Alert(j) PROVE UNCHANGED vars
  BY <1>2 DEF Fire, Unbuildable, Alert
<1>3. ASSUME NEW j \in Job, Acquire(j) \/ Wake(j) PROVE [RunNext]_vars
  BY <1>3 DEF Acquire, Wake, Start
<1>4. ASSUME NEW j \in Job, Proceed(j) PROVE RunNext
  BY <1>4 DEF Proceed, RunStep
<1>5. CASE Signal \/ Drain \/ Drained \/ DrainTimesOut \/ Restart
  BY <1>5 DEF Signal, Drain, Drained, DrainTimesOut, Restart
<1>6. CASE Teardown \/ Kill
  BY <1>6 DEF Teardown, Kill, StopJobs
<1>7. ASSUME NEW t \in Task \ Job, CommandStep(t) PROVE RunNext
  BY <1>7 DEF CommandStep
<1>8. CASE World
  BY <1>8 DEF World
<1> QED BY <1>1, <1>2, <1>3, <1>4, <1>5, <1>6, <1>7, <1>8
    DEF SchedulerNext, JobStep, ServeStep

\* A step of one task leaves the others where they are.
LEMMA OneTaskSteps ==
    ASSUME TypeOK, NEW t \in Task,
           RunStep(t) \/ (\E c \in Connector : Begin(t, c)) \/ Die({t})
    PROVE  \A q \in Task \ {t} : pc'[q] = pc[q]
BY DEF TypeOK, RunStep, Begin, Die, Open, OpenFails, Scan, FetchFails, Finish, FinishFails, Leave

(***************************************************************************)
(* The lock                                                                *)
(***************************************************************************)

JobTypes == job \in [Job -> {"idle", "fired", "queued", "running", "alerting"}]

SchedulerInv == TypeOK /\ JobTypes /\ LockInv /\ DrainIsClean

\* Who runs and who holds the lock stay as they are.
LEMMA SameHolders ==
    ASSUME SchedulerInv, TypeOK', JobTypes', locked' = locked,
           \A j \in Job : pc'[j] = pc[j] /\ (HoldsLock(j)' <=> HoldsLock(j)),
           main' = "cancelling" /\ ~ timedOut' => (main = "cancelling" /\ ~ timedOut) \/ ~ locked
    PROVE  SchedulerInv'
<1>1. LockInv'
  BY DEF SchedulerInv, LockInv, HoldsLock
<1>2. ~ locked => \A j \in Job : pc[j] = "idle"
  BY DEF SchedulerInv, LockInv
<1>3. DrainIsClean'
  BY <1>2 DEF SchedulerInv, DrainIsClean
<1> QED BY <1>1, <1>3 DEF SchedulerInv

\* A job takes the lock and begins its run.
LEMMA StartInv ==
    ASSUME SchedulerInv, TypeOK', NEW j \in Job, Start(j), ~ locked,
           UNCHANGED <<main, timedOut>>
    PROVE  SchedulerInv'
<1>1. \A i \in Job : pc[i] = "idle" /\ job[i] # "running"
  BY DEF SchedulerInv, LockInv, HoldsLock
<1>2. pc'[j] = "starting" /\ \A i \in Job \ {j} : pc'[i] = pc[i]
  BY DEF Start, Begin, SchedulerInv, TypeOK
<1>3. JobTypes' /\ job'[j] = "running" /\ \A i \in Job \ {j} : job'[i] = job[i]
  BY DEF Start, SchedulerInv, JobTypes
<1>4. LockInv'
  BY <1>1, <1>2, <1>3 DEF LockInv, HoldsLock, Start
<1>5. DrainIsClean'
  BY <1>1, <1>2 DEF DrainIsClean
<1> QED BY <1>3, <1>4, <1>5 DEF SchedulerInv

\* A job whose run is left gives the lock back.
LEMMA ReleaseInv ==
    ASSUME SchedulerInv, TypeOK', NEW j \in Job, HoldsLock(j), Leave(j), Unlock(j),
           NEW next \in {"idle", "alerting"}, job' = [job EXCEPT ![j] = next],
           UNCHANGED <<main, timedOut>>
    PROVE  SchedulerInv'
<1>1. \A i \in Job \ {j} : pc[i] = "idle" /\ job[i] # "running"
  BY DEF SchedulerInv, LockInv, HoldsLock
<1>2. pc'[j] = "idle" /\ \A i \in Job \ {j} : pc'[i] = pc[i]
  BY DEF Leave, SchedulerInv, TypeOK
<1>3. JobTypes' /\ job'[j] # "running" /\ \A i \in Job \ {j} : job'[i] = job[i]
  BY DEF SchedulerInv, JobTypes
<1>4. LockInv'
  BY <1>1, <1>2, <1>3 DEF LockInv, HoldsLock, Unlock
<1>5. DrainIsClean'
  BY <1>1, <1>2 DEF DrainIsClean
<1> QED BY <1>3, <1>4, <1>5 DEF SchedulerInv

\* A job's run moves on under the lock, or is left and the lock with it.
LEMMA ProceedInv ==
    ASSUME SchedulerInv, TypeOK', NEW j \in Job, Proceed(j)
    PROVE  SchedulerInv'
<1>1. /\ HoldsLock(j) /\ UNCHANGED <<main, timedOut>>
      /\ TypeOK /\ JobTypes /\ j \in Task
  BY DEF Proceed, HoldsLock, SchedulerInv
<1>2. ASSUME (main # "cancelling" /\ Open(j)) \/ Scan(j) \/ FetchFails(j),
             UNCHANGED <<job, locked>>
      PROVE  SchedulerInv'
  <2>1. \A i \in Job \ {j} : pc'[i] = pc[i]
    BY <1>1, <1>2, OneTaskSteps DEF RunStep
  <2>2. pc[j] # "idle" /\ pc'[j] # "idle" /\ (main # "cancelling" \/ pc[j] = "fetching")
    BY <1>1, <1>2 DEF TypeOK, Open, Scan, FetchFails
  <2>3. LockInv'
    BY <1>2, <2>1, <2>2 DEF SchedulerInv, LockInv, HoldsLock
  <2>4. ~ (main = "cancelling" /\ ~ timedOut)
    BY <1>2, <2>2 DEF SchedulerInv, DrainIsClean
  <2>5. DrainIsClean'
    BY <1>1, <2>4 DEF DrainIsClean
  <2> QED BY <1>1, <1>2, <2>3, <2>5 DEF SchedulerInv, JobTypes
<1>3. ASSUME Finish(j), Unlock(j),
             job' = [job EXCEPT ![j] = IF run[j].outcome = "error" THEN "alerting" ELSE "idle"]
      PROVE  SchedulerInv'
  <2>1. PICK next \in {"idle", "alerting"} : job' = [job EXCEPT ![j] = next]
    BY <1>3
  <2> QED BY <1>1, <1>3, <2>1, ReleaseInv DEF Finish
<1>4. ASSUME OpenFails(j) \/ FinishFails(j), Unlock(j), job' = [job EXCEPT ![j] = "idle"]
      PROVE  SchedulerInv'
  BY <1>1, <1>4, ReleaseInv DEF OpenFails, FinishFails
<1> QED BY <1>2, <1>3, <1>4 DEF Proceed

\* Every step of jobs, serve and commands keeps the invariant.
LEMMA SchedulerStep ==
    ASSUME SchedulerInv, [SchedulerNext]_schedulerVars
    PROVE  SchedulerInv'
<1>1. TypeOK /\ TypeOK' /\ JobTypes
  BY StepsAreRunSteps, TypeStep DEF SchedulerInv
<1>2. CASE UNCHANGED schedulerVars
  BY <1>1, <1>2, SameHolders DEF schedulerVars, process, vars, HoldsLock, JobTypes
<1>3. ASSUME NEW j \in Job, Fire(j) \/ Unbuildable(j) \/ Alert(j) PROVE SchedulerInv'
  <2>1. UNCHANGED <<pc, locked, main, timedOut>>
    BY <1>3 DEF Fire, Unbuildable, Alert, vars
  <2>2. JobTypes' /\ job[j] # "running" /\ job'[j] # "running"
        /\ \A i \in Job \ {j} : job'[i] = job[i]
    BY <1>1, <1>3 DEF Fire, Unbuildable, Alert, JobTypes
  <2> QED BY <1>1, <2>1, <2>2, SameHolders DEF HoldsLock
<1>4. ASSUME NEW j \in Job, Acquire(j) PROVE SchedulerInv'
  <2>1. CASE LockFree /\ Start(j)
    BY <1>1, <1>4, <2>1, StartInv DEF Acquire, LockFree
  <2>2. CASE job' = [job EXCEPT ![j] = "queued"] /\ UNCHANGED <<vars, locked>>
    <3>1. JobTypes' /\ job[j] # "running" /\ job'[j] # "running"
          /\ \A i \in Job \ {j} : job'[i] = job[i]
      BY <1>1, <1>4, <2>2 DEF Acquire, JobTypes
    <3>2. UNCHANGED <<pc, main, timedOut>>
      BY <1>4, <2>2 DEF Acquire, vars
    <3> QED BY <1>1, <2>2, <3>1, <3>2, SameHolders DEF HoldsLock
  <2> QED BY <1>4, <2>1, <2>2 DEF Acquire
<1>5. ASSUME NEW j \in Job, Wake(j) PROVE SchedulerInv'
  BY <1>1, <1>5, StartInv DEF Wake
<1>6. ASSUME NEW j \in Job, Proceed(j) PROVE SchedulerInv'
  BY <1>1, <1>6, ProceedInv
<1>7. CASE Signal \/ Restart \/ DrainTimesOut
  <2>1. UNCHANGED <<vars, job, locked>> /\ ~ (main' = "cancelling" /\ ~ timedOut')
    BY <1>7 DEF Signal, Restart, DrainTimesOut
  <2> QED BY <1>1, <2>1, SameHolders DEF vars, HoldsLock, JobTypes
<1>8. CASE Drain \/ Drained
  <2>1. UNCHANGED <<vars, job, locked>> /\ (main' = "cancelling" => ~ locked)
    BY <1>8 DEF Drain, Drained
  <2> QED BY <1>1, <2>1, SameHolders DEF vars, HoldsLock, JobTypes
<1>9. CASE Teardown \/ Kill
  <2>1. StopJobs
    BY <1>9 DEF Teardown, Kill
  <2>2. \A j \in Job : pc'[j] = "idle"
    BY <1>1, <2>1 DEF StopJobs, Die, vars, TypeOK
  <2>3. job' = [j \in Job |-> "idle"] /\ locked' = FALSE /\ main' = "down"
    BY <2>1 DEF StopJobs
  <2> QED BY <1>1, <2>2, <2>3 DEF SchedulerInv, LockInv, HoldsLock, DrainIsClean, JobTypes
<1>10. ASSUME NEW t \in Task \ Job, CommandStep(t) PROVE SchedulerInv'
  <2>1. \A q \in Task \ {t} : pc'[q] = pc[q]
    BY <1>1, <1>10, OneTaskSteps DEF CommandStep
  <2>2. UNCHANGED <<job, locked, main, timedOut>>
    BY <1>10 DEF CommandStep, process
  <2> QED BY <1>1, <2>1, <2>2, SameHolders DEF HoldsLock, JobTypes
<1>11. CASE World
  <2>1. UNCHANGED <<pc, job, locked, main, timedOut>>
    BY <1>11 DEF World, Tick, Publish, process
  <2> QED BY <1>1, <2>1, SameHolders DEF HoldsLock, JobTypes
<1> QED BY <1>2, <1>3, <1>4, <1>5, <1>6, <1>7, <1>8, <1>9, <1>10, <1>11
    DEF SchedulerNext, JobStep, ServeStep

\* The invariant holds throughout.
LEMMA SchedulerInvHolds == SchedulerSpec => []SchedulerInv
<1>1. SchedulerInit => SchedulerInv
  <2>1. Init => TypeOK
    BY TypeInit
  <2> QED BY <2>1 DEF SchedulerInit, Init, SchedulerInv, LockInv, HoldsLock, DrainIsClean, JobTypes
<1>2. SchedulerInv /\ [SchedulerNext]_schedulerVars => SchedulerInv'
  BY SchedulerStep
<1> QED BY <1>1, <1>2, PTL DEF SchedulerSpec

(***************************************************************************)
(* Results                                                                 *)
(***************************************************************************)

\* However many jobs fire, and whatever signals, kills, time-outs and commands
\* come in between: no two scheduled runs are ever under way at once (_RUN_LOCK).
THEOREM RunsAreSerialized == SchedulerSpec => []SerializedRuns
<1>1. SchedulerInv => SerializedRuns
  BY DEF SchedulerInv, LockInv, SerializedRuns
<1> QED BY <1>1, SchedulerInvHolds, PTL

\* A shutdown whose drain did not run out of time cancels no run between the
\* insert of its fetch_runs row and the finally that finishes it (drain_runs).
THEOREM DrainsAreClean == SchedulerSpec => []DrainIsClean
<1>1. SchedulerInv => DrainIsClean
  BY DEF SchedulerInv
<1> QED BY <1>1, SchedulerInvHolds, PTL

\* The scheduler and the commands do nothing to fetch_runs but what a connector
\* run does, so that what is proved of RunSpec holds of the whole process.
THEOREM SchedulerRunsConnectors == SchedulerSpec => RunSpec
<1>1. SchedulerInit => Init
  BY DEF SchedulerInit
<1> QED BY <1>1, StepsAreRunSteps, PTL DEF SchedulerSpec, RunSpec

\* In particular any mix of scheduled runs, shutdowns, restarts and commands
\* (run_scheduled, serve, run_one) stores each filing shown before a completed run
\* started, or reports its failure in a partial run.
THEOREM ProcessMissesNothing == ASSUME Uncut PROVE SchedulerSpec => []NothingMissed
BY SchedulerRunsConnectors, NothingIsMissed, PTL

(***************************************************************************)
(* Rows and runs, whatever the scans miss                                  *)
(***************************************************************************)

\* What holds of the rows and of the runs that own them without Uncut.
RowInv == TypeOK /\ NotYet /\ RowsOwned /\ \A t \in Task : OpenRow(t)

\* What a step may do to rows, ids, clock and filings without losing NotYet, if
\* it starts no run.
LEMMA NotYetStep ==
    ASSUME RowInv, TypeOK', clock <= clock',
           \A f \in Filing : filed'[f] = filed[f],
           \A i \in RowId : row'[i] # Null =>
               /\ i < nextRow'
               /\ \/ row[i] # Null /\ row'[i].started = row[i].started
                  \/ row'[i].started <= clock,
           \A t \in Task : pc'[t] # "idle" =>
               \/ pc[t] # "idle" /\ run'[t].now = run[t].now
               \/ run'[t].now = clock
    PROVE  NotYet'
<1>1. clock \in Int /\ clock' \in Int
  BY DEF RowInv, TypeOK
<1>2. ASSUME NEW i \in RowId, row'[i] # Null PROVE row'[i].started \in Int
  <2>1. row'[i] \in RowType
    BY <1>2 DEF TypeOK
  <2> QED BY <2>1 DEF RowType
<1>3. \A f \in Filing : filed[f] # Null => filed[f].at \in Int
  BY DEF RowInv, TypeOK
<1>4. \A i \in RowId : row[i] # Null => row[i].started <= clock
  BY DEF RowInv, NotYet
<1>5. ASSUME NEW i \in RowId, row'[i] # Null PROVE row'[i].started <= clock' /\ i < nextRow'
  BY <1>1, <1>2, <1>4, <1>5
<1>6. ASSUME NEW t \in Task, pc'[t] # "idle" PROVE run'[t].now <= clock'
  <2>1. run'[t].now \in Int
    BY <1>6 DEF TypeOK, RunType
  <2>2. pc[t] # "idle" => run[t].now <= clock
    BY DEF RowInv, NotYet
  <2> QED BY <1>1, <1>6, <2>1, <2>2
<1>7. ASSUME NEW f \in Filing, filed'[f] # Null
      PROVE  /\ filed'[f].at <= clock' /\ filed'[f].date <= Date[filed'[f].at]
             /\ Date[filed'[f].at] <= filed'[f].date + OverlapDays
  BY <1>1, <1>3, <1>7 DEF RowInv, NotYet
<1> QED BY <1>5, <1>6, <1>7 DEF NotYet

\* A row stays with its run.
LEMMA OpenRowStep ==
    ASSUME RowInv, TypeOK', SameStarts, NEW t \in Task,
           InFlight(t)' => /\ InFlight(t) /\ run'[t].id = run[t].id
                           /\ run'[t].conn = run[t].conn /\ run'[t].now = run[t].now
    PROVE  OpenRow(t)'
<1>1. SUFFICES ASSUME InFlight(t)'
               PROVE  row'[run'[t].id].conn = run'[t].conn
                      /\ row'[run'[t].id].started = run'[t].now
  BY DEF OpenRow, InFlight
<1>2. run[t].id \in RowId /\ row[run[t].id] # Null
  BY <1>1 DEF RowInv, TypeOK, InFlight, RunType
<1>3. row[run[t].id].conn = run[t].conn /\ row[run[t].id].started = run[t].now
  BY <1>1 DEF RowInv, OpenRow, InFlight
<1> QED BY <1>1, <1>2, <1>3 DEF SameStarts

\* The row a run finishes is its own, and keeps its connector and its start.
LEMMA FinishedRow ==
    ASSUME TypeOK, NEW t \in Task, Finish(t)
    PROVE  /\ run[t].id \in RowId /\ row[run[t].id] # Null /\ row'[run[t].id] # Null
           /\ row'[run[t].id].conn = row[run[t].id].conn
           /\ row'[run[t].id].started = row[run[t].id].started
           /\ row'[run[t].id].status = run[t].outcome
           /\ \A i \in RowId \ {run[t].id} : row'[i] = row[i]
<1> DEFINE new == [row[run[t].id] EXCEPT !.finished = TRUE, !.status = run[t].outcome]
<1>1. /\ run[t].id \in RowId /\ row[run[t].id] # Null /\ row[run[t].id] \in RowType
      /\ run[t].outcome \in Status
  BY DEF Finish, TypeOK, RunType
<1>2. row' = [row EXCEPT ![run[t].id] = new]
  BY <1>1 DEF Finish, RowType
<1>3. /\ new.conn = row[run[t].id].conn /\ new.started = row[run[t].id].started
      /\ new.status = run[t].outcome /\ new \in RowType
  BY <1>1 DEF RowType
<1> HIDE DEF new
<1> QED BY <1>1, <1>2, <1>3 DEF TypeOK

\* The row a run opens is new.
LEMMA OpenedRow ==
    ASSUME TypeOK, NotYet, NEW t \in Task, Open(t)
    PROVE  /\ nextRow \in RowId /\ row[nextRow] = Null
           /\ row'[nextRow].conn = run[t].conn /\ row'[nextRow].started = run[t].now
           /\ row'[nextRow].status = "error"
           /\ \A i \in RowId \ {nextRow} : row'[i] = row[i]
BY DEF Open, TypeOK, NotYet

\* Rows keep their connector and their start.
LEMMA SameStartsStep ==
    ASSUME TypeOK, NotYet, [RunNext]_vars
    PROVE  SameStarts
<1>1. ASSUME NEW t \in Task, Finish(t) PROVE SameStarts
  BY <1>1, FinishedRow DEF SameStarts
<1>2. ASSUME NEW t \in Task, Open(t) PROVE SameStarts
  BY <1>2, OpenedRow DEF SameStarts
<1>3. ASSUME UNCHANGED row PROVE SameStarts
  BY <1>3 DEF SameStarts
<1> QED BY <1>1, <1>2, <1>3 DEF RunNext, RunStep, vars, Tick, Publish, Begin, OpenFails, Scan,
           FetchFails, FinishFails, Die

\* Every step of a run keeps it.
LEMMA RowInvStep ==
    ASSUME RowInv, [RunNext]_vars
    PROVE  RowInv'
<1>1. TypeOK /\ TypeOK' /\ RowsOwned'
  BY TypeStep, OwnedStep DEF RowInv
<1>2. NotYet /\ \A i \in RowId : row[i] # Null => i < nextRow /\ row[i].started <= clock
  BY DEF RowInv, NotYet
<1>3. clock \in Int /\ nextRow \in Int /\ SameStarts
  BY <1>1, <1>2, SameStartsStep DEF TypeOK
<1>4. SUFFICES NotYet' /\ \A t \in Task : OpenRow(t)'
  BY <1>1 DEF RowInv
<1>5. CASE Tick \/ UNCHANGED vars
  <2>1. UNCHANGED <<filed, row, nextRow, pc, run>> /\ clock <= clock'
    BY <1>3, <1>5 DEF Tick, vars
  <2>2. NotYet'
    BY <1>1, <1>2, <2>1, NotYetStep
  <2>3. SameStarts
    BY <2>1 DEF SameStarts
  <2> QED BY <1>1, <2>1, <2>2, <2>3, OpenRowStep DEF InFlight
<1>6. CASE Publish
  <2>1. PICK f \in Filing, d \in 0..Date[clock] :
            /\ filed[f] = Null /\ Date[clock] - d <= OverlapDays
            /\ filed' = [filed EXCEPT ![f] = [at |-> clock, date |-> d]]
    BY <1>6 DEF Publish
  <2>2. UNCHANGED <<clock, row, nextRow, pc, run>> /\ clock \in Time /\ Date[clock] \in Nat
    BY <1>1, <1>6 DEF Publish, TypeOK
  <2>3. /\ filed'[f].at = clock /\ filed'[f].date = d
        /\ \A g \in Filing \ {f} : filed'[g] = filed[g]
    BY <1>1, <2>1 DEF TypeOK
  <2>4. d <= Date[clock] /\ Date[clock] <= d + OverlapDays
    BY <2>1, <2>2
  <2>5. NotYet'
    <3>1. \A i \in RowId : row'[i] # Null => row'[i].started <= clock' /\ i < nextRow'
      BY <1>2, <2>2
    <3>2. \A t \in Task : pc'[t] # "idle" => run'[t].now <= clock'
      BY <1>2, <2>2 DEF NotYet
    <3>3. ASSUME NEW g \in Filing, filed'[g] # Null
          PROVE  /\ filed'[g].at <= clock' /\ filed'[g].date <= Date[filed'[g].at]
                 /\ Date[filed'[g].at] <= filed'[g].date + OverlapDays
      <4>1. CASE g = f
        BY <1>3, <2>2, <2>3, <2>4, <4>1
      <4>2. CASE g # f
        BY <1>2, <2>2, <2>3, <3>3, <4>2 DEF NotYet
      <4> QED BY <4>1, <4>2
    <3> QED BY <3>1, <3>2, <3>3 DEF NotYet
  <2>6. SameStarts
    BY <2>2 DEF SameStarts
  <2> QED BY <1>1, <2>2, <2>5, <2>6, OpenRowStep DEF InFlight
<1>7. ASSUME NEW t \in Task, NEW c \in Connector, Begin(t, c)
      PROVE  NotYet' /\ \A q \in Task : OpenRow(q)'
  <2>1. UNCHANGED <<clock, filed, row, nextRow>> /\ pc'[t] = "starting"
        /\ run'[t].now = clock /\ \A q \in Task \ {t} : pc'[q] = pc[q] /\ run'[q] = run[q]
    BY <1>1, <1>7 DEF Begin, TypeOK, NoRun
  <2>2. NotYet'
    <3>1. \A q \in Task : pc'[q] # "idle" =>
              \/ pc[q] # "idle" /\ run'[q].now = run[q].now
              \/ run'[q].now = clock
      BY <2>1
    <3> QED BY <1>1, <1>2, <1>3, <2>1, <3>1, NotYetStep
  <2>3. SameStarts
    BY <2>1 DEF SameStarts
  <2>4. \A q \in Task : InFlight(q)' => InFlight(q) /\ run'[q] = run[q]
    BY <2>1 DEF InFlight
  <2> QED BY <1>1, <2>2, <2>3, <2>4, OpenRowStep
<1>8. ASSUME NEW S \in SUBSET Task,
             \A q \in Task \ S : pc'[q] = pc[q] /\ run'[q] = run[q],
             \A q \in S : pc'[q] = "idle",
             UNCHANGED <<clock, filed, nextRow>>, SameStarts,
             \A i \in RowId : row'[i] # Null => row[i] # Null
      PROVE  NotYet' /\ \A q \in Task : OpenRow(q)'
  <2>1. \A i \in RowId : row'[i] # Null =>
            i < nextRow' /\ row[i] # Null /\ row'[i].started = row[i].started
    BY <1>2, <1>8 DEF SameStarts
  <2>2. \A q \in Task : pc'[q] # "idle" => pc[q] # "idle" /\ run'[q] = run[q]
    BY <1>8
  <2>3. NotYet'
    BY <1>1, <1>3, <1>8, <2>1, <2>2, NotYetStep
  <2> QED BY <1>1, <1>8, <2>2, <2>3, OpenRowStep DEF InFlight
<1>9. ASSUME NEW t \in Task, OpenFails(t) \/ FinishFails(t)
      PROVE  NotYet' /\ \A q \in Task : OpenRow(q)'
  <2>1. UNCHANGED <<clock, filed, row, nextRow>> /\ pc'[t] = "idle"
        /\ \A q \in Task \ {t} : pc'[q] = pc[q] /\ run'[q] = run[q]
    BY <1>1, <1>9, LeaveIsDeath DEF OpenFails, FinishFails
  <2>2. SameStarts /\ {t} \in SUBSET Task
    BY <2>1 DEF SameStarts
  <2> QED BY <1>8, <2>1, <2>2
<1>10. ASSUME NEW S \in SUBSET Task, Die(S) PROVE NotYet' /\ \A q \in Task : OpenRow(q)'
  <2>1. UNCHANGED <<clock, filed, row, nextRow>> /\ (\A q \in S : pc'[q] = "idle")
        /\ \A q \in Task \ S : pc'[q] = pc[q] /\ run'[q] = run[q]
    BY <1>10 DEF Die
  <2>2. SameStarts
    BY <2>1 DEF SameStarts
  <2> QED BY <1>8, <2>1, <2>2
<1>11. ASSUME NEW t \in Task, Finish(t) PROVE NotYet' /\ \A q \in Task : OpenRow(q)'
  <2>1. UNCHANGED <<clock, filed, nextRow>> /\ pc'[t] = "idle"
        /\ \A q \in Task \ {t} : pc'[q] = pc[q] /\ run'[q] = run[q]
    BY <1>1, <1>11, LeaveIsDeath DEF Finish
  <2>3. SameStarts
    BY <1>1, <1>2, SameStartsStep
  <2>4. \A i \in RowId : row'[i] # Null => row[i] # Null
    BY <1>1, <1>11, FinishedRow
  <2>5. {t} \in SUBSET Task
    OBVIOUS
  <2> QED BY <1>8, <2>1, <2>3, <2>4, <2>5
<1>12. ASSUME NEW t \in Task, Scan(t) \/ FetchFails(t)
       PROVE  NotYet' /\ \A q \in Task : OpenRow(q)'
  <2>1. UNCHANGED <<clock, filed, row, nextRow>> /\ InFlight(t)
        /\ \A q \in Task \ {t} : pc'[q] = pc[q] /\ run'[q] = run[q]
    BY <1>1, <1>12 DEF Scan, FetchFails, InFlight, TypeOK
  <2>2. run'[t].id = run[t].id /\ run'[t].now = run[t].now /\ run'[t].conn = run[t].conn
    BY <1>1, <1>12, ScanRun DEF FetchFails
  <2>3. \A q \in Task : pc'[q] # "idle" => pc[q] # "idle" /\ run'[q].now = run[q].now
    BY <2>1, <2>2 DEF InFlight
  <2>4. SameStarts
    BY <2>1 DEF SameStarts
  <2>5. NotYet'
    BY <1>1, <1>2, <1>3, <2>1, <2>3, NotYetStep
  <2>6. \A q \in Task : InFlight(q)' => /\ InFlight(q) /\ run'[q].id = run[q].id
                 /\ run'[q].conn = run[q].conn /\ run'[q].now = run[q].now
    BY <2>1, <2>2 DEF InFlight
  <2> QED BY <1>1, <2>4, <2>5, <2>6, OpenRowStep
<1>13. ASSUME NEW t \in Task, Open(t) PROVE NotYet' /\ \A q \in Task : OpenRow(q)'
  <2>1. UNCHANGED <<clock, filed>> /\ nextRow' = nextRow + 1 /\ nextRow \in RowId
        /\ pc[t] = "starting" /\ \A q \in Task \ {t} : pc'[q] = pc[q] /\ run'[q] = run[q]
    BY <1>1, <1>13 DEF Open, TypeOK
  <2>2. run'[t].id = nextRow /\ run'[t].now = run[t].now /\ run'[t].conn = run[t].conn
    BY <1>1, <1>13 DEF Open, TypeOK, RunType
  <2>3. run[t].now <= clock
    BY <1>2, <2>1 DEF NotYet
  <2>4. row'[nextRow].started = run[t].now /\ row'[nextRow].conn = run[t].conn
        /\ row[nextRow] = Null /\ \A i \in RowId \ {nextRow} : row'[i] = row[i]
    BY <1>1, <1>2, <1>13, OpenedRow
  <2>5. ASSUME NEW i \in RowId, row'[i] # Null
        PROVE  /\ i < nextRow'
               /\ \/ row[i] # Null /\ row'[i].started = row[i].started
                  \/ row'[i].started <= clock
    <3>1. CASE i = nextRow
      BY <1>3, <2>1, <2>3, <2>4, <3>1
    <3>2. CASE i # nextRow
      BY <1>2, <1>3, <2>1, <2>4, <2>5, <3>2
    <3> QED BY <3>1, <3>2
  <2>6. \A q \in Task : pc'[q] # "idle" => pc[q] # "idle" /\ run'[q].now = run[q].now
    BY <2>1, <2>2
  <2>7. NotYet'
    BY <1>1, <1>3, <2>1, <2>5, <2>6, NotYetStep
  <2>8. SameStarts
    BY <2>4 DEF SameStarts
  <2>9. OpenRow(t)'
    BY <2>2, <2>4 DEF OpenRow
  <2>10. \A q \in Task \ {t} : InFlight(q)' => InFlight(q) /\ run'[q] = run[q]
    BY <2>1 DEF InFlight
  <2>11. \A q \in Task \ {t} : OpenRow(q)'
    BY <1>1, <2>8, <2>10, OpenRowStep
  <2> QED BY <2>7, <2>9, <2>11
<1> QED BY <1>5, <1>6, <1>7, <1>9, <1>10, <1>11, <1>12, <1>13 DEF RunNext, RunStep

(***************************************************************************)
(* A scan taken apart                                                      *)
(***************************************************************************)

\* A filing is shown once, now, and stays what it was filed as.
Shows == \A f \in Filing : filed'[f] = filed[f] \/ (filed[f] = Null /\ filed'[f].at = clock)

\* Every step of fetches and runs shows filings so, or none.
LEMMA ShowsStep ==
    ASSUME TypeOK, [RunNext]_vars
    PROVE  Shows
<1>1. ASSUME Publish PROVE Shows
  BY <1>1 DEF Publish, Shows, TypeOK
<1>2. ASSUME UNCHANGED filed PROVE Shows
  BY <1>2 DEF Shows
<1> QED BY <1>1, <1>2 DEF RunNext, RunStep, vars, Tick, Begin, Open, OpenFails, Scan, FetchFails,
           Finish, FinishFails, Die

\* The days of a run and of the filings are integers.
LEMMA WindowIsInt ==
    ASSUME NEW x \in RunType, x.now # Null
    PROVE  x.now \in Time /\ Date[x.now] \in Int /\ WindowStart(x) \in Int
<1>1. /\ x.now \in Time /\ x.since \in Time \cup {Null}
      /\ x.anchor \in Time \cup {Null}
  BY DEF RunType
<1>2. BackfillDays \in Int /\ OverlapDays \in Int /\ \A u \in Time : Date[u] \in Int
  OBVIOUS
<1> QED BY <1>1, <1>2 DEF WindowStart

\* What a run compares are numbers: file dates, points in time, ends of its window.
LEMMA DaysAreInts ==
    ASSUME TypeOK
    PROVE  /\ \A f \in Filing : filed[f] # Null =>
                  filed[f].date \in Int /\ filed[f].at \in Int /\ Date[filed[f].at] \in Int
           /\ \A t \in Task : pc[t] # "idle" =>
                  /\ run[t].now \in Time /\ Date[run[t].now] \in Int
                  /\ WindowStart(run[t]) \in Int
<1>1. ASSUME NEW f \in Filing, filed[f] # Null
      PROVE  filed[f].date \in Int /\ filed[f].at \in Int /\ Date[filed[f].at] \in Int
  <2>1. filed[f] \in [at: Time, date: Nat]
    BY <1>1 DEF TypeOK
  <2> QED BY <2>1
<1>2. ASSUME NEW t \in Task, pc[t] # "idle"
      PROVE  run[t].now \in Time /\ Date[run[t].now] \in Int /\ WindowStart(run[t]) \in Int
  <2>1. run[t] \in RunType /\ run[t].now # Null
    BY <1>2 DEF TypeOK
  <2> QED BY <2>1, WindowIsInt
<1> QED BY <1>1, <1>2

\* What a run can find only grows, and what it finds for certain stays what it is.
LEMMA SeenKept ==
    ASSUME TypeOK, Shows, NEW x, x.now \in Time, x.now <= clock
    PROVE  /\ Visible(x) \subseteq Visible(x)' /\ Certain(x)' = Certain(x)
           /\ Capped(x) => Capped(x)'
<1>1. \A f \in Filing : filed[f] # Null => filed'[f] = filed[f]
  BY DEF Shows
<1>2. clock \in Int /\ x.now \in Int
  BY DEF TypeOK
<1>3. Visible(x) \subseteq Visible(x)'
  BY <1>1 DEF Visible, WindowStart
<1>4. Certain(x)' = Certain(x)
  <2>1. \A f \in Filing : filed'[f] # Null /\ filed'[f].at < x.now => filed'[f] = filed[f]
    BY <1>2 DEF Shows
  <2>2. \A f \in Filing : f \in Certain(x)' <=> f \in Certain(x)
    BY <1>1, <2>1 DEF Certain, Visible, WindowStart
  <2> QED BY <2>2 DEF Certain, Visible
<1>5. Capped(x) => Capped(x)'
  <2>1. IsFiniteSet(Visible(x)')
    BY RoundsAssumption, FS_Subset DEF Visible
  <2>2. Visible(x)' \in SUBSET Filing /\ Visible(x) \in SUBSET Visible(x)'
    BY <1>3 DEF Visible
  <2>3. /\ IsFiniteSet(Visible(x)) /\ Cardinality(Visible(x)) <= Cardinality(Visible(x)')
        /\ Cardinality(Visible(x)) \in Nat /\ Cardinality(Visible(x)') \in Nat
    BY <2>1, <2>2, FS_Subset, FS_CardinalityType
  <2> QED BY <2>3 DEF Capped
<1> QED BY <1>3, <1>4, <1>5

\* The order of two filings that are shown is settled.
LEMMA BeforeKept ==
    ASSUME Shows, NEW f \in Filing, NEW g \in Filing, filed[f] # Null, filed[g] # Null
    PROVE  Before(f, g)' <=> Before(f, g)
BY DEF Shows, Before

\* A fetch that has passed its last window is the scan of its run.
LEMMA FetchDoneIsScan ==
    ASSUME RoundsInv, NEW t \in Task, FetchDone(t)
    PROVE  Scan(t)
<1>1. /\ pc[t] = "fetching" /\ hits[t].found = {} /\ hits[t].from > Date[run[t].now]
      /\ TypeOK /\ InOrder(t) /\ Covered(t)
  BY DEF FetchDone, RoundsInv, RoundsTypeOK, ScanInv
<1>2. PICK outcome \in Completed :
          /\ hits[t].overflow \/ hits[t].failed # {} => outcome = "partial"
          /\ run' = [run EXCEPT ![t].outcome = outcome, ![t].failed = hits[t].failed]
  BY DEF FetchDone
<1>3. /\ hits[t].done \in SUBSET Visible(run[t]) /\ hits[t].failed \in SUBSET Visible(run[t])
      /\ hits[t].done \cap hits[t].failed = {}
  BY <1>1 DEF InOrder, Passed, Through
<1>4. ASSUME ~ (hits[t].overflow /\ Capped(run[t]))
      PROVE  Certain(run[t]) \subseteq hits[t].done \cup hits[t].failed
  <2> SUFFICES ASSUME NEW f \in Certain(run[t]) PROVE f \in hits[t].done \cup hits[t].failed
    OBVIOUS
  <2>1. f \in Filing /\ filed[f] # Null /\ filed[f].date <= Date[run[t].now]
    BY DEF Certain, Visible
  <2>2. hits[t].from \in Int
    BY DEF RoundsInv, RoundsTypeOK
  <2>3. filed[f].date < hits[t].from
    BY <1>1, <2>1, <2>2, DaysAreInts
  <2> QED BY <1>1, <1>4, <2>3 DEF Covered, Passed, Through
<1>5. \/ Certain(run[t]) \subseteq hits[t].done \cup hits[t].failed
      \/ Capped(run[t]) /\ outcome = "partial"
  BY <1>2, <1>4
<1>6. /\ taken' = taken \cup hits[t].done /\ pc' = [pc EXCEPT ![t] = "finishing"]
      /\ UNCHANGED <<clock, filed, row, nextRow, reported>>
  BY DEF FetchDone
<1> QED BY <1>1, <1>2, <1>3, <1>5, <1>6 DEF Scan

\* Windows, searches and hits do to fetch_runs what the one scan does.
LEMMA RoundsAreRuns ==
    ASSUME RoundsInv, [RoundsNext]_roundVars
    PROVE  [RunNext]_vars
<1>1. CASE UNCHANGED roundVars
  BY <1>1 DEF roundVars
<1>2. CASE Tick \/ Publish \/ \E t \in Task : \E c \in Connector : Begin(t, c)
  BY <1>2 DEF RunNext
<1>3. ASSUME NEW t \in Task, RoundsStep(t) PROVE [RunNext]_vars
  <2>1. CASE FetchDone(t)
    BY <2>1, FetchDoneIsScan DEF RunNext, RunStep
  <2>2. CASE Search(t) \/ HandOn(t)
    BY <2>2 DEF Search, HandOn
  <2>3. CASE StartFetch(t) \/ FetchStops(t) \/ OpenFails(t) \/ Finish(t) \/ FinishFails(t)
    BY <2>3 DEF StartFetch, FetchStops, RunNext, RunStep
  <2> QED BY <1>3, <2>1, <2>2, <2>3 DEF RoundsStep
<1>4. ASSUME NEW S \in SUBSET Task, Die(S) PROVE [RunNext]_vars
  BY <1>4 DEF RunNext
<1> QED BY <1>1, <1>2, <1>3, <1>4 DEF RoundsNext

\* The invariant of one fetch survives the steps of the others.
LEMMA FetchKept ==
    ASSUME RoundsInv, TypeOK', Shows, NEW q \in Task,
           pc'[q] = pc[q], run'[q] = run[q], hits'[q] = hits[q],
           \A o \in Offering : \A k \in Column : InFlight(q) /\ wrote'[o][k] = run[q].id =>
               wrote[o][k] = wrote'[o][k] /\ told'[o][k] = told[o][k]
    PROVE  ScanInv(q)'
<1>1. TypeOK /\ ScanInv(q)
  BY DEF RoundsInv, RoundsTypeOK
<1>2. Unproblematic(q)'
  BY <1>1 DEF ScanInv, Unproblematic
<1>3. SUFFICES ASSUME InFlight(q) PROVE InOrder(q)' /\ Covered(q)' /\ LastIsTold(q)'
  BY <1>2 DEF ScanInv, InFlight
<1>4. InOrder(q) /\ Covered(q) /\ LastIsTold(q)
  BY <1>1, <1>3 DEF ScanInv, InFlight
<1>5. PICK x : x = run[q]
  OBVIOUS
<1>6. x.now \in Time /\ x.now <= clock
  BY <1>1, <1>3, <1>5, DaysAreInts DEF InFlight, RoundsInv, NotYet
<1>7. /\ Visible(x) \subseteq Visible(x)' /\ Certain(x)' = Certain(x)
      /\ Capped(x) => Capped(x)'
  BY <1>1, <1>6, SeenKept
<1>8. Visible(run[q])' = Visible(x)' /\ Certain(run[q])' = Certain(x)'
      /\ (Capped(run[q])' <=> Capped(x)')
  BY <1>5 DEF Visible, Certain, Capped, WindowStart
<1>9. \A f \in Visible(x) : f \in Filing /\ filed[f] # Null /\ filed'[f] = filed[f]
  BY DEF Visible, Shows
<1>10. /\ Passed(q)' = Passed(q) /\ Passed(q) \subseteq Visible(x)
       /\ Through(q)' = Through(q) /\ (hits[q].done \cap hits[q].failed)' = {}
  BY <1>4, <1>5 DEF Passed, Through, InOrder
<1>11. InOrder(q)'
  <2>1. \A f \in Through(q) : \A g \in hits[q].found : Before(f, g)'
    <3> TAKE f \in Through(q)
    <3> TAKE g \in hits[q].found
    <3>1. f \in Visible(x) /\ g \in Visible(x) /\ Before(f, g)
      BY <1>4, <1>10 DEF Passed, InOrder
    <3> QED BY <1>9, <3>1, BeforeKept
  <2>2. \A f \in Passed(q)' : filed'[f].date < hits'[q].from
    BY <1>4, <1>9, <1>10 DEF InOrder
  <2>3. Passed(q)' \subseteq Visible(run[q])'
    BY <1>7, <1>8, <1>10
  <2> QED BY <1>10, <2>1, <2>2, <2>3 DEF InOrder
<1>12. Covered(q)'
  <2>1. CASE \A f \in Certain(x) : filed[f].date < hits[q].from => f \in Passed(q)
    <3>1. Certain(x) \subseteq Visible(x)
      BY DEF Certain
    <3>2. \A f \in Certain(run[q])' : filed'[f].date < hits'[q].from => f \in Passed(q)'
      BY <1>7, <1>8, <1>9, <1>10, <2>1, <3>1
    <3> QED BY <3>2 DEF Covered
  <2>2. CASE hits[q].overflow /\ Capped(x)
    BY <1>7, <1>8, <2>2 DEF Covered
  <2> QED BY <1>4, <1>5, <2>1, <2>2 DEF Covered
<1>13. LastIsTold(q)'
  <2>1. SUFFICES ASSUME NEW o \in Offering, NEW k \in Column, wrote'[o][k] = run[q].id
                 PROVE  /\ told'[o][k] \in hits[q].done
                        /\ \A g \in hits[q].done \cap About(o, k) :
                              (g = told[o][k] \/ Before(g, told[o][k]))'
    BY DEF LastIsTold, About
  <2>2. wrote[o][k] = run[q].id /\ told'[o][k] = told[o][k]
    BY <1>3, <2>1
  <2>3. PICK h : h = told[o][k]
    OBVIOUS
  <2>4. /\ h \in hits[q].done
        /\ \A g \in hits[q].done \cap About(o, k) : g = h \/ Before(g, h)
    BY <1>4, <2>2, <2>3 DEF LastIsTold
  <2>5. hits[q].done \subseteq Visible(x)
    BY <1>10 DEF Passed, Through
  <2>6. \A g \in hits[q].done : Before(g, h) => Before(g, h)'
    BY <1>9, <2>4, <2>5, BeforeKept
  <2>7. \A g : Before(g, h)' <=> Before(g, told[o][k])'
    BY <2>2, <2>3 DEF Before
  <2> QED BY <2>2, <2>3, <2>4, <2>6, <2>7
<1> QED BY <1>11, <1>12, <1>13

\* What a column says stays the newest while its row and its filing stay.
NewestAt(o, k, i) ==
    row[i].status = "ok" =>
        \A f \in About(o, k) :
            filed[f] # Null /\ filed[f].at < row[i].started /\ SourceOf[f] = row[i].conn
                => f = told[o][k] \/ Before(f, told[o][k])

\* A column that is not written stays as new as its run asks, whatever is shown
\* meanwhile: what comes later was not shown before that run started.
LEMMA NewestKept ==
    ASSUME RoundsInv, Shows, SameStarts,
           NEW o \in Offering, NEW k \in Column, NEW i \in RowId,
           wrote[o][k] = i, told'[o][k] = told[o][k],
           row'[i].status = "ok" => row[i].status = "ok"
    PROVE  NewestAt(o, k, i)'
<1>1. /\ row[i] # Null /\ row[i].started <= clock /\ filed[told[o][k]] # Null
      /\ row'[i].started = row[i].started /\ row'[i].conn = row[i].conn
  <2>1. i # Null
    OBVIOUS
  <2>2. row[i] # Null /\ filed[told[o][k]] # Null
    BY <2>1 DEF RoundsInv, WrittenByRuns
  <2> QED BY <2>2 DEF RoundsInv, NotYet, SameStarts
<1>2. row[i].started \in Int /\ clock \in Int
  BY <1>1 DEF RoundsInv, RoundsTypeOK, TypeOK, RowType
<1>3. told[o][k] \in Filing
  <2>1. i # Null
    OBVIOUS
  <2> QED BY <2>1 DEF RoundsInv, RoundsTypeOK
<1>4. PICK h : h = told[o][k]
  OBVIOUS
<1>5. SUFFICES ASSUME row[i].status = "ok", NEW f \in About(o, k),
                      filed'[f] # Null, filed'[f].at < row[i].started, SourceOf[f] = row[i].conn
               PROVE  f = h \/ Before(f, h)'
  <2>1. told'[o][k] = h
    BY <1>4
  <2> QED BY <1>1, <2>1 DEF NewestAt, About, Before
<1>6. f \in Filing /\ filed'[f] = filed[f]
  BY <1>1, <1>2, <1>5, RoundsAssumption DEF About, Shows
<1>7. f = h \/ Before(f, h)
  BY <1>4, <1>5, <1>6 DEF RoundsInv, ColumnsAreNewest
<1> QED BY <1>1, <1>3, <1>4, <1>5, <1>6, <1>7, BeforeKept

\* Steps that write no round and end no run ok.
LEMMA RoundsKept ==
    ASSUME RoundsInv, RowInv, RowInv', Shows, SameStarts, UNCHANGED <<told, wrote>>,
           hits' \in [Task -> [from: Int, found: SUBSET Filing, done: SUBSET Filing,
                              failed: SUBSET Filing, overflow: BOOLEAN]],
           \A i \in RowId : row[i] # Null /\ row'[i].status = "ok" => row[i].status = "ok",
           NEW S \in SUBSET Task,
           \A q \in Task \ S : pc'[q] = pc[q] /\ run'[q] = run[q] /\ hits'[q] = hits[q],
           \A t \in S : ScanInv(t)'
    PROVE  RoundsInv'
<1>1. TypeOK' /\ NotYet' /\ \A t \in Task : OpenRow(t)'
  BY DEF RowInv
<1>2. RoundsTypeOK'
  BY <1>1 DEF RoundsInv, RoundsTypeOK
<1>3. WrittenByRuns'
  <2>1. \A o \in Offering : \A k \in Column : wrote[o][k] # Null =>
            /\ wrote[o][k] \in RowId /\ row[wrote[o][k]] # Null
            /\ told[o][k] \in Filing /\ filed[told[o][k]] # Null
    BY DEF RoundsInv, RoundsTypeOK, WrittenByRuns
  <2> QED BY <2>1 DEF WrittenByRuns, SameStarts, Shows
<1>4. \A t \in Task : ScanInv(t)'
  <2>1. ASSUME NEW q \in Task \ S PROVE ScanInv(q)'
    BY <1>1, FetchKept
  <2> QED BY <2>1
<1>5. ColumnsAreNewest'
  <2>1. ASSUME NEW o \in Offering, NEW k \in Column, NEW i \in RowId, wrote[o][k] = i
        PROVE  NewestAt(o, k, i)'
    <3>1. i # Null /\ row[i] # Null
      BY <2>1 DEF RoundsInv, WrittenByRuns
    <3> QED BY <2>1, <3>1, NewestKept
  <2> QED BY <2>1 DEF ColumnsAreNewest, NewestAt
<1> QED BY <1>1, <1>2, <1>3, <1>4, <1>5 DEF RoundsInv

HitsType == [from: Int, found: SUBSET Filing, done: SUBSET Filing, failed: SUBSET Filing,
             overflow: BOOLEAN]

\* A fetch starts before its first window: it has passed nothing, and its row is new.
LEMMA StartFetchInv ==
    ASSUME RoundsInv, RowInv, RowInv', Shows, SameStarts, NEW t \in Task, StartFetch(t)
    PROVE  RoundsInv'
<1> DEFINE h == [NoHits EXCEPT !.from = WindowStart(run[t]')]
<1>1. /\ Open(t) /\ hits' = [hits EXCEPT ![t] = h] /\ UNCHANGED <<told, wrote>>
      /\ TypeOK /\ TypeOK' /\ NotYet /\ t \in Task
      /\ hits \in [Task -> HitsType]
  BY DEF StartFetch, RowInv, RoundsInv, RoundsTypeOK, HitsType
<1>2. pc[t] = "starting" /\ pc'[t] = "fetching" /\ run'[t].id = nextRow
      /\ run'[t].outcome = run[t].outcome
      /\ \A q \in Task \ {t} : pc'[q] = pc[q] /\ run'[q] = run[q]
  BY <1>1 DEF Open, TypeOK, RunType
<1>3. WindowStart(run[t])' \in Int
  <2>1. PICK x : x = run'[t]
    OBVIOUS
  <2>2. x \in RunType /\ x.now # Null
    BY <1>1, <1>2, <2>1 DEF TypeOK
  <2>3. WindowStart(run[t])' = WindowStart(x)
    BY <2>1 DEF WindowStart
  <2> QED BY <2>2, <2>3, WindowIsInt
<1>4. h.from = WindowStart(run[t])' /\ h.found = {} /\ h.done = {} /\ h.failed = {}
      /\ h \in HitsType
  BY <1>3 DEF NoHits, HitsType
<1> HIDE DEF h
<1>5. hits' \in [Task -> HitsType] /\ hits'[t] = h /\ \A q \in Task \ {t} : hits'[q] = hits[q]
  BY <1>1, <1>4
<1>6. Passed(t)' = {} /\ Through(t)' = {} /\ hits'[t].done \cap hits'[t].failed = {}
  BY <1>4, <1>5 DEF Passed, Through
<1>7. InOrder(t)' /\ Covered(t)'
  <2>1. InOrder(t)'
    BY <1>4, <1>5, <1>6 DEF InOrder
  <2>2. ASSUME NEW f \in Certain(run[t])' PROVE ~ (filed'[f].date < hits'[t].from)
    <3>1. f \in Filing /\ filed'[f] # Null /\ WindowStart(run[t])' <= filed'[f].date
      BY DEF Certain, Visible
    <3>2. filed'[f].date \in Int
      BY <1>1, <3>1 DEF TypeOK
    <3> QED BY <1>3, <1>4, <1>5, <3>1, <3>2
  <2> QED BY <2>1, <2>2 DEF Covered
<1>8. LastIsTold(t)'
  <2>1. \A o \in Offering : \A k \in Column : wrote[o][k] # nextRow
    <3> TAKE o \in Offering
    <3> TAKE k \in Column
    <3>1. nextRow \in RowId /\ row[nextRow] = Null /\ nextRow # Null
      BY <1>1, OpenedRow
    <3> QED BY <3>1 DEF RoundsInv, WrittenByRuns
  <2> QED BY <1>1, <1>2, <2>1 DEF LastIsTold
<1>9. ScanInv(t)'
  <2>1. run[t].outcome # "ok"
    BY <1>2 DEF RoundsInv, ScanInv, Unproblematic
  <2> QED BY <1>2, <1>7, <1>8, <2>1 DEF ScanInv, Unproblematic
<1>10. \A i \in RowId : row[i] # Null /\ row'[i].status = "ok" => row[i].status = "ok"
  BY <1>1, OpenedRow
<1>11. {t} \in SUBSET Task
  OBVIOUS
<1>12. /\ \A q \in Task \ {t} : pc'[q] = pc[q] /\ run'[q] = run[q] /\ hits'[q] = hits[q]
       /\ \A q \in {t} : ScanInv(q)'
  BY <1>2, <1>5, <1>9
<1>13. UNCHANGED <<told, wrote>> /\ hits' \in [Task -> HitsType]
  BY <1>1, <1>5
<1> QED BY <1>10, <1>11, <1>12, <1>13, RoundsKept DEF HitsType

\* A search passes its window: what it finds comes after all it is through with,
\* and is all there is in the window, unless it overflows.
LEMMA SearchInv ==
    ASSUME RoundsInv, RowInv, RowInv', NEW t \in Task, Search(t)
    PROVE  RoundsInv'
<1>1. /\ pc[t] = "fetching" /\ hits[t].found = {} /\ hits[t].from <= Date[run[t].now]
      /\ UNCHANGED <<vars, told, wrote>> /\ TypeOK
      /\ hits \in [Task -> HitsType]
  BY DEF Search, RowInv, RoundsInv, RoundsTypeOK, HitsType
<1>2. PICK F \in SUBSET InWindow(t), overflows \in BOOLEAN :
          /\ IF overflows THEN Cardinality(InWindow(t)) > HitCap
             ELSE InWindow(t) \cap Certain(run[t]) \subseteq F
          /\ hits' = [hits EXCEPT ![t].from = Until(t) + 1, ![t].found = F,
                                  ![t].overflow = hits[t].overflow \/ overflows]
  BY DEF Search
<1>3. InOrder(t) /\ Covered(t) /\ LastIsTold(t) /\ run[t].outcome # "ok"
  BY <1>1 DEF RoundsInv, ScanInv, Unproblematic
<1>4. UNCHANGED <<clock, filed, row, nextRow, pc, run, taken, reported, told, wrote>>
  BY <1>1 DEF vars
<1>5. Shows /\ SameStarts
  BY <1>4 DEF Shows, SameStarts
<1>6. /\ hits[t].from \in Int /\ Date[run[t].now] \in Int /\ Until(t) \in Int
      /\ hits[t].from <= Until(t)
  <2>1. hits[t].from \in Int /\ Date[run[t].now] \in Int
    BY <1>1, DaysAreInts DEF HitsType
  <2>2. SearchDays \in Int /\ SearchDays >= 1
    BY RoundsAssumption
  <2> QED BY <1>1, <2>1, <2>2 DEF Until
<1>7. F \subseteq Visible(run[t]) /\ F \subseteq Filing /\ InWindow(t) \subseteq Visible(run[t])
      /\ \A f \in F : hits[t].from <= filed[f].date /\ filed[f].date <= Until(t)
  BY DEF InWindow, Visible
<1>8. \A f \in Visible(run[t]) : filed[f].date \in Int
  BY <1>1, DaysAreInts DEF Visible
<1>9. /\ hits'[t].from = Until(t) + 1 /\ hits'[t].found = F /\ hits'[t].done = hits[t].done
      /\ hits'[t].failed = hits[t].failed
      /\ hits'[t].overflow = (hits[t].overflow \/ overflows)
      /\ hits' \in [Task -> HitsType] /\ \A q \in Task \ {t} : hits'[q] = hits[q]
  <2> DEFINE h == [hits[t] EXCEPT !.from = Until(t) + 1, !.found = F,
                                  !.overflow = hits[t].overflow \/ overflows]
  <2>1. hits[t] \in HitsType /\ Until(t) + 1 \in Int
    BY <1>1, <1>6
  <2>2. /\ h.from = Until(t) + 1 /\ h.found = F /\ h.done = hits[t].done
        /\ h.failed = hits[t].failed
        /\ h.overflow = (hits[t].overflow \/ overflows) /\ h \in HitsType
    BY <1>7, <2>1 DEF HitsType
  <2>3. hits' = [hits EXCEPT ![t] = h]
    BY <1>2, <2>1 DEF HitsType
  <2> HIDE DEF h
  <2> QED BY <1>1, <2>2, <2>3
<1>10. /\ Through(t) \subseteq Visible(run[t]) /\ hits[t].done \cap hits[t].failed = {}
       /\ \A f \in Through(t) : filed[f].date < hits[t].from
  BY <1>3 DEF InOrder, Passed
<1>11. InOrder(t)'
  <2>1. Through(t)' = Through(t) /\ Passed(t)' = Through(t) \cup F
    BY <1>9 DEF Through, Passed
  <2>2. Passed(t)' \subseteq Visible(run[t])'
    BY <1>4, <1>7, <1>10, <2>1 DEF Visible, WindowStart
  <2>3. \A f \in Passed(t)' : filed[f].date < Until(t) + 1
    BY <1>6, <1>7, <1>8, <1>10, <2>1
  <2>4. \A f \in Through(t) : \A g \in F : filed[f].date < filed[g].date
    BY <1>6, <1>7, <1>8, <1>10
  <2> QED BY <1>4, <1>9, <1>10, <2>1, <2>2, <2>3, <2>4 DEF InOrder, Before
<1>12. Covered(t)'
  <2>1. Certain(run[t])' = Certain(run[t]) /\ (Capped(run[t])' <=> Capped(run[t]))
    BY <1>4 DEF Certain, Visible, Capped, WindowStart
  <2>2. CASE hits[t].overflow /\ Capped(run[t])
    BY <1>9, <2>1, <2>2 DEF Covered
  <2>3. CASE overflows
    <3>1. IsFiniteSet(Visible(run[t])) /\ InWindow(t) \in SUBSET Visible(run[t])
      BY <1>7, RoundsAssumption, FS_Subset DEF Visible
    <3>2. /\ IsFiniteSet(InWindow(t)) /\ Cardinality(InWindow(t)) <= Cardinality(Visible(run[t]))
          /\ Cardinality(InWindow(t)) \in Nat /\ Cardinality(Visible(run[t])) \in Nat
      BY <3>1, FS_Subset, FS_CardinalityType
    <3>3. Cardinality(InWindow(t)) > HitCap
      BY <1>2, <2>3
    <3>4. Capped(run[t])
      BY <3>2, <3>3 DEF Capped
    <3> QED BY <1>9, <2>1, <2>3, <3>4 DEF Covered
  <2>4. CASE ~ overflows /\ \A f \in Certain(run[t]) : filed[f].date < hits[t].from => f \in Passed(t)
    <3>1. ASSUME NEW f \in Certain(run[t]), filed[f].date < Until(t) + 1
          PROVE  f \in Through(t) \cup F
      <4>1. f \in Visible(run[t]) /\ filed[f].date \in Int
        BY <1>8 DEF Certain
      <4>2. CASE filed[f].date < hits[t].from
        BY <1>1, <2>4, <4>2 DEF Passed
      <4>3. CASE hits[t].from <= filed[f].date
        <5>1. f \in InWindow(t)
          BY <1>6, <3>1, <4>1, <4>3 DEF InWindow
        <5> QED BY <1>2, <2>4, <5>1
      <4> QED BY <1>6, <4>1, <4>2, <4>3
    <3> QED BY <1>4, <1>9, <2>1, <3>1 DEF Covered, Passed, Through
  <2> QED BY <1>3, <2>2, <2>3, <2>4 DEF Covered
<1>13. LastIsTold(t)'
  BY <1>3, <1>4, <1>9 DEF LastIsTold, Before, About
<1>14. ScanInv(t)'
  BY <1>3, <1>4, <1>11, <1>12, <1>13 DEF ScanInv, Unproblematic
<1>15. {t} \in SUBSET Task
  OBVIOUS
<1> QED BY <1>4, <1>5, <1>9, <1>14, <1>15, RoundsKept DEF HitsType

\* No filing comes before itself.
LEMMA BeforeIsStrict ==
    ASSUME TypeOK, NEW f \in Filing, filed[f] # Null
    PROVE  ~ Before(f, f)
<1>1. filed[f].date \in Int /\ Accession[f] \in Int
  BY RoundsAssumption, DaysAreInts
<1> QED BY <1>1 DEF Before

\* A hit is stored or fails: it comes after all that were, and before all that are left.
LEMMA HandOnInv ==
    ASSUME RoundsInv, RowInv, RowInv', NEW t \in Task, HandOn(t)
    PROVE  RoundsInv'
<1>1. /\ pc[t] = "fetching" /\ UNCHANGED vars /\ TypeOK /\ TypeOK' /\ RowsOwned
      /\ hits \in [Task -> HitsType]
  BY DEF HandOn, RowInv, RoundsInv, RoundsTypeOK, HitsType
<1>2. PICK f \in Filing :
          /\ IsNext(t, f)
          /\ \/ /\ hits' = [hits EXCEPT ![t].found = @ \ {f}, ![t].done = @ \cup {f}]
                /\ Writes(t, f)
             \/ /\ hits' = [hits EXCEPT ![t].found = @ \ {f}, ![t].failed = @ \cup {f}]
                /\ UNCHANGED <<told, wrote>>
  BY DEF HandOn
<1>3. InOrder(t) /\ Covered(t) /\ LastIsTold(t) /\ run[t].outcome # "ok"
  BY <1>1 DEF RoundsInv, ScanInv, Unproblematic
<1>4. UNCHANGED <<clock, filed, row, nextRow, pc, run, taken, reported>>
  BY <1>1 DEF vars
<1>5. Shows /\ SameStarts
  BY <1>4 DEF Shows, SameStarts
<1>6. /\ hits'[t].from = hits[t].from /\ hits'[t].found = hits[t].found \ {f}
      /\ hits'[t].overflow = hits[t].overflow
      /\ \/ /\ hits'[t].done = hits[t].done \cup {f} /\ hits'[t].failed = hits[t].failed
            /\ Writes(t, f)
         \/ /\ hits'[t].done = hits[t].done /\ hits'[t].failed = hits[t].failed \cup {f}
            /\ UNCHANGED <<told, wrote>>
      /\ hits' \in [Task -> HitsType] /\ \A q \in Task \ {t} : hits'[q] = hits[q]
  <2> DEFINE h == [hits[t] EXCEPT !.found = @ \ {f}, !.done = @ \cup {f}]
             g == [hits[t] EXCEPT !.found = @ \ {f}, !.failed = @ \cup {f}]
  <2>1. hits[t] \in HitsType
    BY <1>1
  <2>2. /\ h.from = hits[t].from /\ h.found = hits[t].found \ {f}
        /\ h.done = hits[t].done \cup {f} /\ h.failed = hits[t].failed
        /\ h.overflow = hits[t].overflow /\ h \in HitsType
    BY <2>1 DEF HitsType
  <2>3. /\ g.from = hits[t].from /\ g.found = hits[t].found \ {f}
        /\ g.done = hits[t].done /\ g.failed = hits[t].failed \cup {f}
        /\ g.overflow = hits[t].overflow
    BY <2>1 DEF HitsType
  <2>5. hits[t].found \ {f} \in SUBSET Filing /\ hits[t].failed \cup {f} \in SUBSET Filing
    BY <2>1 DEF HitsType
  <2>6. g \in HitsType
    BY <2>1, <2>5 DEF HitsType
  <2>7. /\ [hits EXCEPT ![t].found = @ \ {f}, ![t].done = @ \cup {f}] = [hits EXCEPT ![t] = h]
        /\ [hits EXCEPT ![t].found = @ \ {f}, ![t].failed = @ \cup {f}] = [hits EXCEPT ![t] = g]
    BY <1>1, <2>1 DEF HitsType
  <2>4. \/ hits' = [hits EXCEPT ![t] = h] /\ Writes(t, f)
        \/ hits' = [hits EXCEPT ![t] = g] /\ UNCHANGED <<told, wrote>>
    BY <1>2, <2>7
  <2> HIDE DEF h, g
  <2> QED BY <1>1, <2>2, <2>3, <2>4, <2>6
<1>7. f \in hits[t].found /\ Passed(t)' = Passed(t) /\ Through(t)' = Through(t) \cup {f}
      /\ f \in Visible(run[t]) /\ filed[f] # Null /\ f \notin Through(t)
  <2>1. f \in hits[t].found
    BY <1>2 DEF IsNext
  <2>2. Through(t)' = Through(t) \cup {f} /\ Passed(t)' = Passed(t)
    BY <1>6, <2>1 DEF Through, Passed
  <2>3. f \in Visible(run[t]) /\ filed[f] # Null
    BY <1>3, <2>1 DEF InOrder, Passed, Visible
  <2>4. f \notin Through(t)
    BY <1>1, <1>3, <2>1, <2>3, BeforeIsStrict DEF InOrder
  <2> QED BY <2>1, <2>2, <2>3, <2>4
<1>8. run[t].id \in RowId /\ run[t].id # Null /\ row[run[t].id] # Null
      /\ row[run[t].id].status = "error"
  BY <1>1 DEF TypeOK, RunType, RowsOwned, InFlight
\* What becomes of a column.
<1>9. ASSUME NEW o \in Offering, NEW k \in Column
      PROVE  \/ /\ told'[o][k] = f /\ wrote'[o][k] = run[t].id /\ f \in About(o, k)
                /\ hits'[t].done = hits[t].done \cup {f}
             \/ /\ told'[o][k] = told[o][k] /\ wrote'[o][k] = wrote[o][k]
                /\ hits'[t].done \cap About(o, k) = hits[t].done \cap About(o, k)
                /\ hits[t].done \subseteq hits'[t].done
  BY <1>6 DEF Writes, About
<1>10. RoundsTypeOK'
  <2>1. told' \in [Offering -> [Column -> Filing \cup {Null}]]
        /\ wrote' \in [Offering -> [Column -> RowId \cup {Null}]]
    <3>1. CASE UNCHANGED <<told, wrote>>
      BY <3>1 DEF RoundsInv, RoundsTypeOK
    <3>2. CASE Writes(t, f)
      <4>1. \A o \in Offering : \A k \in Column :
                told[o][k] \in Filing \cup {Null} /\ wrote[o][k] \in RowId \cup {Null}
        BY DEF RoundsInv, RoundsTypeOK
      <4>2. /\ told' \in [Offering -> [Column -> Filing \cup {Null}]]
            /\ wrote' \in [Offering -> [Column -> RowId \cup {Null}]]
        BY <1>8, <3>2, <4>1, Zenon DEF Writes
      <4> QED BY <4>2
    <3> QED BY <1>6, <3>1, <3>2
  <2>2. \A o \in Offering : \A k \in Column : told'[o][k] = Null <=> wrote'[o][k] = Null
    <3>1. f # Null
      BY RoundsAssumption
    <3>2. \A o \in Offering : \A k \in Column : told[o][k] = Null <=> wrote[o][k] = Null
      BY DEF RoundsInv, RoundsTypeOK
    <3> QED BY <1>8, <1>9, <3>1, <3>2
  <2> QED BY <1>1, <1>6, <2>1, <2>2 DEF RoundsTypeOK, HitsType
<1>11. WrittenByRuns'
  BY <1>4, <1>7, <1>8, <1>9 DEF RoundsInv, WrittenByRuns
<1>12. ScanInv(t)'
  <2>1. InOrder(t)'
    <3>1. \A g \in hits[t].found \ {f} : Before(f, g)
      BY <1>2 DEF IsNext
    <3>2. \A g \in Through(t)' : \A h \in hits'[t].found : Before(g, h)
      BY <1>3, <1>6, <1>7, <3>1 DEF InOrder
    <3>3. hits'[t].done \cap hits'[t].failed = {}
      BY <1>3, <1>6, <1>7 DEF InOrder, Through
    <3> QED BY <1>3, <1>4, <1>6, <1>7, <3>2, <3>3 DEF InOrder, Before, Visible, WindowStart
  <2>2. Covered(t)'
    BY <1>3, <1>4, <1>6, <1>7 DEF Covered, Certain, Visible, Capped, WindowStart
  <2>3. LastIsTold(t)'
    <3>1. SUFFICES ASSUME NEW o \in Offering, NEW k \in Column, wrote'[o][k] = run[t].id
                   PROVE  /\ told'[o][k] \in hits'[t].done
                          /\ \A g \in hits'[t].done \cap About(o, k) :
                                (g = told[o][k] \/ Before(g, told[o][k]))'
      BY <1>4 DEF LastIsTold, About
    <3>2. CASE told'[o][k] = f /\ hits'[t].done = hits[t].done \cup {f}
      <4>1. \A g \in hits[t].done : Before(g, f)
        BY <1>3, <1>7 DEF InOrder, Through
      <4> QED BY <1>4, <3>2, <4>1 DEF Before
    <3>3. CASE /\ told'[o][k] = told[o][k] /\ wrote'[o][k] = wrote[o][k]
               /\ hits'[t].done \cap About(o, k) = hits[t].done \cap About(o, k)
               /\ hits[t].done \subseteq hits'[t].done
      <4>1. /\ told[o][k] \in hits[t].done
            /\ \A g \in hits[t].done \cap About(o, k) :
                  g = told[o][k] \/ Before(g, told[o][k])
        BY <1>3, <3>1, <3>3 DEF LastIsTold
      <4> QED BY <1>4, <3>3, <4>1 DEF Before
    <3> QED BY <1>9, <3>2, <3>3
  <2> QED BY <1>3, <1>4, <2>1, <2>2, <2>3 DEF ScanInv, Unproblematic
<1>13. ASSUME NEW q \in Task \ {t} PROVE ScanInv(q)'
  <2>1. ASSUME NEW o \in Offering, NEW k \in Column, InFlight(q), wrote'[o][k] = run[q].id
        PROVE  wrote[o][k] = wrote'[o][k] /\ told'[o][k] = told[o][k]
    <3>1. run[q].id # run[t].id
      BY <1>1, <2>1 DEF RowsOwned, InFlight
    <3> QED BY <1>9, <2>1, <3>1
  <2> QED BY <1>1, <1>4, <1>5, <1>6, <2>1, FetchKept
<1>14. ColumnsAreNewest'
  <2>1. ASSUME NEW o \in Offering, NEW k \in Column, NEW i \in RowId, wrote'[o][k] = i
        PROVE  NewestAt(o, k, i)'
    <3>1. CASE wrote'[o][k] = run[t].id
      BY <1>4, <1>8, <2>1, <3>1 DEF NewestAt
    <3>2. CASE told'[o][k] = told[o][k] /\ wrote'[o][k] = wrote[o][k]
      BY <1>4, <1>5, <2>1, <3>2, NewestKept
    <3> QED BY <1>9, <3>1, <3>2
  <2> QED BY <2>1 DEF ColumnsAreNewest, NewestAt
<1>15. NotYet' /\ \A q \in Task : OpenRow(q)'
  BY DEF RowInv
<1> QED BY <1>10, <1>11, <1>12, <1>13, <1>14, <1>15 DEF RoundsInv

\* The fetch completes: ok only if it passed every window without a problem.
LEMMA FetchDoneInv ==
    ASSUME RoundsInv, RowInv, RowInv', NEW t \in Task, FetchDone(t)
    PROVE  RoundsInv'
<1>1. /\ pc[t] = "fetching" /\ hits[t].found = {} /\ hits[t].from > Date[run[t].now]
      /\ pc' = [pc EXCEPT ![t] = "finishing"]
      /\ UNCHANGED <<clock, filed, row, nextRow, hits, told, wrote>>
      /\ TypeOK /\ hits \in [Task -> HitsType]
  BY DEF FetchDone, RowInv, RoundsInv, RoundsTypeOK, HitsType
<1>2. PICK outcome \in Completed :
          /\ hits[t].overflow \/ hits[t].failed # {} => outcome = "partial"
          /\ run' = [run EXCEPT ![t].outcome = outcome, ![t].failed = hits[t].failed]
  BY DEF FetchDone
<1>3. Shows /\ SameStarts
  BY <1>1 DEF Shows, SameStarts
<1>4. /\ run'[t].id = run[t].id /\ run'[t].conn = run[t].conn /\ run'[t].now = run[t].now
      /\ run'[t].since = run[t].since /\ run'[t].anchor = run[t].anchor
      /\ run'[t].outcome = outcome
      /\ pc'[t] = "finishing" /\ \A q \in Task \ {t} : pc'[q] = pc[q] /\ run'[q] = run[q]
  BY <1>1, <1>2 DEF TypeOK, RunType
<1>5. InOrder(t) /\ Covered(t) /\ LastIsTold(t)
  BY <1>1 DEF RoundsInv, ScanInv
<1>6. Visible(run[t])' = Visible(run[t]) /\ Certain(run[t])' = Certain(run[t])
      /\ (Capped(run[t])' <=> Capped(run[t]))
  BY <1>1, <1>4 DEF Visible, Certain, Capped, WindowStart
<1>7. InOrder(t)' /\ Covered(t)' /\ LastIsTold(t)'
  <2>1. InOrder(t)'
    BY <1>1, <1>5, <1>6 DEF InOrder, Passed, Through, Before
  <2>2. Covered(t)'
    BY <1>1, <1>5, <1>6 DEF Covered, Passed, Through
  <2>3. LastIsTold(t)'
    BY <1>1, <1>4, <1>5 DEF LastIsTold, About, Before
  <2> QED BY <2>1, <2>2, <2>3
<1>8. Unproblematic(t)'
  <2>1. hits[t].overflow \/ hits[t].failed # {} => outcome # "ok"
    BY <1>2
  <2>2. hits'[t] = hits[t]
    BY <1>1
  <2> QED BY <1>1, <1>4, <2>1, <2>2 DEF Unproblematic
<1>9. ScanInv(t)'
  BY <1>7, <1>8 DEF ScanInv
<1>10. {t} \in SUBSET Task /\ \A q \in {t} : ScanInv(q)'
  BY <1>9
<1>11. \A q \in Task \ {t} : pc'[q] = pc[q] /\ run'[q] = run[q] /\ hits'[q] = hits[q]
  BY <1>1, <1>4
<1>12. UNCHANGED <<told, wrote>> /\ hits' \in [Task -> HitsType]
       /\ \A i \in RowId : row[i] # Null /\ row'[i].status = "ok" => row[i].status = "ok"
  BY <1>1
<1> QED BY <1>3, <1>10, <1>11, <1>12, RoundsKept DEF HitsType

\* The fetch fails: what it stored stays, and the run is not ok.
LEMMA FetchStopsInv ==
    ASSUME RoundsInv, RowInv, RowInv', NEW t \in Task, FetchStops(t)
    PROVE  RoundsInv'
<1>1. /\ pc[t] = "fetching" /\ pc' = [pc EXCEPT ![t] = "finishing"]
      /\ UNCHANGED <<clock, filed, row, nextRow, run, hits, told, wrote>>
      /\ TypeOK /\ hits \in [Task -> HitsType]
  BY DEF FetchStops, FetchFails, RowInv, RoundsInv, RoundsTypeOK, HitsType
<1>2. Shows /\ SameStarts
  BY <1>1 DEF Shows, SameStarts
<1>3. pc'[t] = "finishing" /\ \A q \in Task \ {t} : pc'[q] = pc[q]
  BY <1>1 DEF TypeOK
<1>4. InOrder(t) /\ Covered(t) /\ LastIsTold(t) /\ run[t].outcome # "ok"
  BY <1>1 DEF RoundsInv, ScanInv, Unproblematic
<1>5. Visible(run[t])' = Visible(run[t]) /\ Certain(run[t])' = Certain(run[t])
      /\ (Capped(run[t])' <=> Capped(run[t]))
  BY <1>1 DEF Visible, Certain, Capped, WindowStart
<1>6. InOrder(t)' /\ Covered(t)' /\ LastIsTold(t)'
  <2>1. InOrder(t)'
    BY <1>1, <1>4, <1>5 DEF InOrder, Passed, Through, Before
  <2>2. Covered(t)'
    BY <1>1, <1>4, <1>5 DEF Covered, Passed, Through
  <2>3. LastIsTold(t)'
    BY <1>1, <1>4 DEF LastIsTold, About, Before
  <2> QED BY <2>1, <2>2, <2>3
<1>7. ScanInv(t)'
  BY <1>1, <1>4, <1>6 DEF ScanInv, Unproblematic
<1>8. {t} \in SUBSET Task /\ \A q \in {t} : ScanInv(q)'
  BY <1>7
<1>9. \A q \in Task \ {t} : pc'[q] = pc[q] /\ run'[q] = run[q] /\ hits'[q] = hits[q]
  BY <1>1, <1>3
<1>10. UNCHANGED <<told, wrote>> /\ hits' \in [Task -> HitsType]
       /\ \A i \in RowId : row[i] # Null /\ row'[i].status = "ok" => row[i].status = "ok"
  BY <1>1
<1> QED BY <1>2, <1>8, <1>9, <1>10, RoundsKept DEF HitsType

\* What a run leaves behind when it goes: nothing that the invariant speaks of.
LEMMA GoneScan ==
    ASSUME NEW t \in Task, pc'[t] = "idle", run'[t] = NoRun
    PROVE  ScanInv(t)'
BY DEF ScanInv, Unproblematic, NoRun

\* Runs are left or die, and end no row ok.
LEMMA GoneInv ==
    ASSUME RoundsInv, RowInv, RowInv', NEW S \in SUBSET Task, Forget(S), UNCHANGED <<filed, row>>,
           pc' = [t \in Task |-> IF t \in S THEN "idle" ELSE pc[t]],
           run' = [t \in Task |-> IF t \in S THEN NoRun ELSE run[t]]
    PROVE  RoundsInv'
<1>1. Shows /\ SameStarts
  BY DEF Shows, SameStarts
<1>2. NoHits \in HitsType /\ hits \in [Task -> HitsType]
  BY DEF NoHits, HitsType, RoundsInv, RoundsTypeOK
<1>3. hits' \in [Task -> HitsType] /\ UNCHANGED <<told, wrote>>
  BY <1>2 DEF Forget
<1>4. \A t \in S : ScanInv(t)'
  BY GoneScan
<1>5. \A q \in Task \ S : pc'[q] = pc[q] /\ run'[q] = run[q] /\ hits'[q] = hits[q]
  BY DEF Forget
<1> QED BY <1>1, <1>3, <1>4, <1>5, RoundsKept DEF HitsType

\* A run finishes ok: each column it wrote last is from the newest filing of all it
\* could find for certain, and what is older than its window is older than that.
LEMMA FinishedNewest ==
    ASSUME RoundsInv, RowInv, NEW t \in Task, Finish(t), run[t].outcome = "ok",
           NEW o \in Offering, NEW k \in Column, wrote[o][k] = run[t].id,
           NEW f \in About(o, k), filed[f] # Null, filed[f].at < run[t].now,
           SourceOf[f] = run[t].conn
    PROVE  f = told[o][k] \/ Before(f, told[o][k])
<1>1. /\ pc[t] = "finishing" /\ TypeOK /\ NotYet /\ hits[t].from \in Int
      /\ run[t].now \in Time /\ run[t].now <= clock
  BY DaysAreInts DEF Finish, RowInv, RoundsInv, RoundsTypeOK, NotYet
<1>2. /\ InOrder(t) /\ Covered(t) /\ LastIsTold(t)
      /\ ~ hits[t].overflow /\ hits[t].failed = {} /\ hits[t].found = {} /\ hits[t].from > Date[run[t].now]
  BY <1>1 DEF RoundsInv, ScanInv, Unproblematic
<1>3. f \in Filing
  BY RoundsAssumption DEF About
<1>4. filed[f].date <= Date[run[t].now]
  <2>1. filed[f].date <= Date[filed[f].at] /\ filed[f].at \in Time
    BY <1>1, <1>3 DEF NotYet, TypeOK
  <2>2. Date[filed[f].at] <= Date[run[t].now]
    BY <1>1, <2>1
  <2> QED BY <1>1, <1>3, <2>1, <2>2, DaysAreInts
<1>5. told[o][k] \in hits[t].done /\ told[o][k] \in Visible(run[t])
  BY <1>2 DEF LastIsTold, InOrder, Passed, Through
<1>6. CASE WindowStart(run[t]) <= filed[f].date
  <2>1. f \in Certain(run[t])
    BY <1>3, <1>4, <1>6 DEF Certain, Visible
  <2>2. filed[f].date < hits[t].from
    BY <1>1, <1>2, <1>3, <1>4, DaysAreInts
  <2>3. f \in hits[t].done
    BY <1>2, <2>1, <2>2 DEF Covered, Passed, Through
  <2> QED BY <1>2, <2>3 DEF LastIsTold
<1>7. CASE filed[f].date < WindowStart(run[t])
  <2>1. /\ told[o][k] \in Filing /\ filed[told[o][k]] # Null
        /\ WindowStart(run[t]) <= filed[told[o][k]].date
    BY <1>5 DEF Visible
  <2>2. filed[f].date < filed[told[o][k]].date
    BY <1>1, <1>3, <1>7, <2>1, DaysAreInts
  <2> QED BY <2>2 DEF Before
<1> QED BY <1>1, <1>3, <1>6, <1>7, DaysAreInts

\* A run that closes its row as ok makes a claim about its columns, and has what it
\* takes (FinishedNewest); the columns of other runs keep theirs.
LEMMA FinishRoundsInv ==
    ASSUME RoundsInv, RowInv, RowInv', NEW t \in Task, Finish(t), Forget({t})
    PROVE  RoundsInv'
<1>1. /\ TypeOK /\ TypeOK' /\ NotYet /\ OpenRow(t) /\ pc[t] = "finishing"
      /\ UNCHANGED <<clock, filed, nextRow, taken, told, wrote>>
  BY DEF Finish, Forget, RowInv
<1>2. /\ pc' = [q \in Task |-> IF q \in {t} THEN "idle" ELSE pc[q]]
      /\ run' = [q \in Task |-> IF q \in {t} THEN NoRun ELSE run[q]]
  BY <1>1, LeaveIsDeath DEF Finish
<1>3. Shows /\ SameStarts
  <2>1. RunNext
    BY DEF RunNext, RunStep
  <2> QED BY <1>1, <2>1, SameStartsStep DEF Shows
<1>4. NoHits \in HitsType /\ hits \in [Task -> HitsType]
  BY DEF NoHits, HitsType, RoundsInv, RoundsTypeOK
<1>5. RoundsTypeOK'
  <2>1. hits' \in [Task -> HitsType]
    BY <1>4 DEF Forget
  <2> QED BY <1>1, <2>1 DEF RoundsInv, RoundsTypeOK, HitsType
<1>6. WrittenByRuns'
  <2>1. \A o \in Offering : \A k \in Column : wrote[o][k] # Null =>
            wrote[o][k] \in RowId /\ row[wrote[o][k]] # Null /\ filed[told[o][k]] # Null
    BY DEF RoundsInv, RoundsTypeOK, WrittenByRuns
  <2> QED BY <1>1, <1>3, <2>1 DEF WrittenByRuns, SameStarts
<1>7. ASSUME NEW q \in Task PROVE ScanInv(q)'
  <2>1. CASE q = t
    BY <1>2, <2>1, GoneScan
  <2>2. CASE q # t
    <3>1. pc'[q] = pc[q] /\ run'[q] = run[q] /\ hits'[q] = hits[q]
      BY <1>2, <2>2 DEF Forget
    <3> QED BY <1>1, <1>3, <3>1, FetchKept
  <2> QED BY <2>1, <2>2
<1>8. ASSUME NEW o \in Offering, NEW k \in Column, NEW i \in RowId, wrote[o][k] = i
      PROVE  NewestAt(o, k, i)'
  <2>1. CASE i # run[t].id \/ run[t].outcome # "ok"
    <3>1. row'[i].status = "ok" => row[i].status = "ok"
      BY <1>1, <2>1, FinishedRow
    <3> QED BY <1>1, <1>3, <1>8, <3>1, NewestKept
  <2>2. CASE i = run[t].id /\ run[t].outcome = "ok"
    <3>1. row'[i].started = run[t].now /\ row'[i].conn = run[t].conn
      BY <1>1, <2>2, FinishedRow DEF OpenRow
    <3>2. \A f \in About(o, k) :
              filed[f] # Null /\ filed[f].at < run[t].now /\ SourceOf[f] = run[t].conn
                  => f = told[o][k] \/ Before(f, told[o][k])
      BY <1>8, <2>2, FinishedNewest
    <3> QED BY <1>1, <3>1, <3>2 DEF NewestAt, About, Before
  <2> QED BY <2>1, <2>2
<1>9. ColumnsAreNewest'
  BY <1>1, <1>8 DEF ColumnsAreNewest, NewestAt
<1> QED BY <1>5, <1>6, <1>7, <1>9 DEF RoundsInv, RowInv

\* Every step keeps the invariant.
LEMMA RoundsInvStep ==
    ASSUME RoundsInv, RowInv, [RoundsNext]_roundVars
    PROVE  RoundsInv' /\ RowInv'
<1>1. [RunNext]_vars
  BY RoundsAreRuns
<1>2. RowInv' /\ Shows /\ SameStarts
  BY <1>1, RowInvStep, ShowsStep, SameStartsStep DEF RowInv
<1>3. hits \in [Task -> HitsType]
  BY DEF RoundsInv, RoundsTypeOK, HitsType
<1>4. CASE UNCHANGED roundVars \/ (Tick /\ UNCHANGED <<hits, told, wrote>>)
           \/ (Publish /\ UNCHANGED <<hits, told, wrote>>)
  <2>1. UNCHANGED <<row, pc, run, hits, told, wrote>>
    BY <1>4 DEF roundVars, vars, Tick, Publish
  <2>2. {} \in SUBSET Task /\ \A t \in {} : ScanInv(t)'
    OBVIOUS
  <2> QED BY <1>2, <1>3, <2>1, <2>2, RoundsKept DEF HitsType
<1>5. ASSUME NEW t \in Task, NEW c \in Connector, Begin(t, c), UNCHANGED <<hits, told, wrote>>
      PROVE  RoundsInv'
  <2>1. /\ UNCHANGED row /\ pc'[t] = "starting" /\ run'[t].outcome = "error"
        /\ \A q \in Task \ {t} : pc'[q] = pc[q] /\ run'[q] = run[q] /\ hits'[q] = hits[q]
    BY <1>5 DEF Begin, NoRun, RowInv, TypeOK
  <2>2. {t} \in SUBSET Task /\ \A q \in {t} : ScanInv(q)'
    BY <2>1 DEF ScanInv, Unproblematic
  <2> QED BY <1>2, <1>3, <1>5, <2>1, <2>2, RoundsKept DEF HitsType
<1>6. ASSUME NEW t \in Task, OpenFails(t) \/ FinishFails(t), Forget({t}) PROVE RoundsInv'
  <2>1. /\ UNCHANGED <<filed, row>> /\ {t} \in SUBSET Task
        /\ pc' = [q \in Task |-> IF q \in {t} THEN "idle" ELSE pc[q]]
        /\ run' = [q \in Task |-> IF q \in {t} THEN NoRun ELSE run[q]]
    BY <1>6, LeaveIsDeath DEF OpenFails, FinishFails, RowInv
  <2> QED BY <1>2, <1>6, <2>1, GoneInv
<1>7. ASSUME NEW S \in SUBSET Task, Die(S), Forget(S) PROVE RoundsInv'
  BY <1>2, <1>7, GoneInv DEF Die
<1>8. ASSUME NEW t \in Task, RoundsStep(t) PROVE RoundsInv'
  BY <1>2, <1>6, <1>8, StartFetchInv, SearchInv, HandOnInv, FetchDoneInv, FetchStopsInv,
     FinishRoundsInv DEF RoundsStep
<1> QED BY <1>2, <1>4, <1>5, <1>7, <1>8 DEF RoundsNext

\* The invariant holds throughout.
LEMMA RoundsInvHolds == RoundsSpec => [](RoundsInv /\ RowInv)
<1>1. RoundsInit => RoundsInv /\ RowInv
  <2> SUFFICES ASSUME RoundsInit PROVE RoundsInv /\ RowInv
    OBVIOUS
  <2>1. Init /\ TypeOK
    BY TypeInit DEF RoundsInit
  <2>2. NotYet /\ RowsOwned /\ \A t \in Task : OpenRow(t)
    BY <2>1 DEF Init, NotYet, RowsOwned, InFlight, OpenRow
  <2>3. NoHits \in HitsType
    BY DEF NoHits, HitsType
  <2>4. RoundsTypeOK /\ WrittenByRuns /\ ColumnsAreNewest
    BY <2>1, <2>3 DEF RoundsInit, RoundsTypeOK, HitsType, WrittenByRuns, ColumnsAreNewest
  <2>5. \A t \in Task : ScanInv(t)
    BY <2>1 DEF Init, ScanInv, Unproblematic, NoRun
  <2> QED BY <2>1, <2>2, <2>4, <2>5 DEF RoundsInv, RowInv
<1>2. (RoundsInv /\ RowInv) /\ [RoundsNext]_roundVars => (RoundsInv /\ RowInv)'
  BY RoundsInvStep
<1> QED BY <1>1, <1>2, PTL DEF RoundsSpec

(***************************************************************************)
(* Results                                                                 *)
(***************************************************************************)

\* Whatever runs of the connector overlap, fail or die: a column last written by a
\* run that ended ok is from the newest filing stating it of all its source had
\* shown before that run started (fetch, filing_order, _upsert_funding_rounds).
THEOREM ColumnsStayNewest == RoundsSpec => []ColumnsAreNewest
<1>1. RoundsInv => ColumnsAreNewest
  BY DEF RoundsInv
<1> QED BY <1>1, RoundsInvHolds, PTL

\* No run puts an older filing over one it wrote itself, across all its windows.
THEOREM NoRunGoesBack == RoundsSpec => RunsGoForward
<1>1. ASSUME RoundsInv, RowInv, [RoundsNext]_roundVars,
             NEW o \in Offering, NEW k \in Column,
             told'[o][k] # told[o][k], wrote[o][k] # Null, wrote'[o][k] = wrote[o][k]
      PROVE  Before(told[o][k], told'[o][k])
  <2>1. PICK t \in Task : HandOn(t)
    BY <1>1 DEF RoundsNext, RoundsStep, roundVars, StartFetch, Search, FetchDone, FetchStops, Forget
  <2>2. PICK f \in Filing : IsNext(t, f) /\ Writes(t, f)
    BY <1>1, <2>1 DEF HandOn
  <2>3. told'[o][k] = f /\ wrote[o][k] = run[t].id
    BY <1>1, <2>2 DEF Writes
  <2>4. pc[t] = "fetching" /\ InOrder(t) /\ LastIsTold(t)
    BY <1>1, <2>1 DEF HandOn, RoundsInv, ScanInv
  <2>5. told[o][k] \in hits[t].done /\ f \in hits[t].found
    BY <2>2, <2>3, <2>4 DEF LastIsTold, IsNext
  <2> QED BY <2>3, <2>4, <2>5 DEF InOrder, Through
<1>2. (RoundsInv /\ RowInv) /\ [RoundsNext]_roundVars =>
          [\A o \in Offering : \A k \in Column :
              told'[o][k] # told[o][k] /\ wrote[o][k] # Null /\ wrote'[o][k] = wrote[o][k]
                  => Before(told[o][k], told'[o][k])]_roundVars
  BY <1>1
<1> QED BY <1>2, RoundsInvHolds, PTL DEF RoundsSpec, RunsGoForward

\* Windows, searches and hits, one at a time and with anything in between, are the
\* one scan of FetchRuns: a fetch that completes has stored all it had to, or put it
\* among the problems of a partial run, unless a search overflowed, which is one too.
THEOREM FetchesAreScans == RoundsSpec => FetchIsScan
<1>1. RoundsInit => Init
  BY DEF RoundsInit
<1>2. (RoundsInv /\ RowInv) /\ [RoundsNext]_roundVars => [RunNext]_vars
  BY RoundsAreRuns
<1> QED BY <1>1, <1>2, RoundsInvHolds, PTL DEF RoundsSpec, RunSpec, FetchIsScan

\* So the detailed fetch misses no filing in silence either: each is stored, or
\* failed in a run that ended partial (_fetch_filing, the record loop).
THEOREM FetchesMissNothing == ASSUME Uncut PROVE RoundsSpec => []NothingMissed
BY FetchesAreScans, NothingIsMissed, PTL DEF FetchIsScan
=============================================================================
