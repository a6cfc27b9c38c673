------------------------------- MODULE Rounds -------------------------------
(***************************************************************************)
(* How the scan of sec_edgar (ingest/connectors/sec_edgar.py fetch) leaves *)
(* funding rounds.  A Form D and its amendments are one round: each filing *)
(* stored overwrites the columns of the round it states                    *)
(* (ingest/pipeline.py _upsert_funding_rounds), so a round is what came    *)
(* last, and the order the hits are fetched in (filing_order) decides it.  *)
(*                                                                         *)
(* The runs are those of FetchRuns, their one step Scan taken apart: a     *)
(* search per date window, then one transaction per hit, between which     *)
(* other runs of the connector may write the same round.                   *)
(***************************************************************************)
EXTENDS FetchRuns

CONSTANTS
    Offering,   \* SEC file numbers: one round each
    OfferingOf, \* OfferingOf[f]: the round filing f is about, Null if to_records drops it
    Column,     \* columns of funding_rounds
    States,     \* States[k]: the filings with a known value for column k
    Amendment,  \* the filings that amend another
    Accession,  \* Accession[f]: the accession number of filing f
    SearchDays  \* search_window_days

ASSUME RoundsAssumption ==
    /\ SearchDays \in Nat \ {0}
    /\ OfferingOf \in [Filing -> Offering \cup {Null}]
    /\ States \in [Column -> SUBSET Filing]
    /\ Amendment \in SUBSET Filing
    /\ Accession \in [Filing -> Nat]
    /\ \A f, g \in Filing : Accession[f] = Accession[g] => f = g
    /\ IsFiniteSet(Filing)
    /\ Null \notin Filing /\ Null \notin Offering

VARIABLES
    hits,  \* hits[t]: how far the fetch of a task is
    told,  \* told[o][k]: the filing column k of round o is from
    wrote  \* history: the run (its fetch_runs id) that last wrote it

roundVars == <<vars, hits, told, wrote>>

\* The day the next search starts on, the hits of the last one still to fetch,
\* those stored, those that failed, and whether a search overflowed: the last two
\* are the problems of the run.
NoHits == [from |-> 0, found |-> {}, done |-> {}, failed |-> {}, overflow |-> FALSE]

RoundsInit ==
    /\ Init
    /\ hits = [t \in Task |-> NoHits]
    /\ told = [o \in Offering |-> [k \in Column |-> Null]]
    /\ wrote = [o \in Offering |-> [k \in Column |-> Null]]

-----------------------------------------------------------------------------
\* filing_order: file date, originals before amendments, accession number.
Before(f, g) ==
    \/ filed[f].date < filed[g].date
    \/ /\ filed[f].date = filed[g].date
       /\ \/ f \notin Amendment /\ g \in Amendment
          \/ (f \in Amendment <=> g \in Amendment) /\ Accession[f] < Accession[g]

\* The run has its row, and fetch starts at the window's first day.
StartFetch(t) ==
    /\ Open(t)
    /\ hits' = [hits EXCEPT ![t] = [NoHits EXCEPT !.from = WindowStart(run[t]')]]
    /\ UNCHANGED <<told, wrote>>

\* date_windows: the last day of the window that starts at hits[t].from.
Until(t) ==
    IF hits[t].from + SearchDays - 1 <= Date[run[t].now] THEN hits[t].from + SearchDays - 1
    ELSE Date[run[t].now]

\* The filings a search of the next window can find.
InWindow(t) ==
    {f \in Visible(run[t]) : hits[t].from <= filed[f].date /\ filed[f].date <= Until(t)}

\* _search, for every city: beyond the cap no hit is certain, and it is a problem.
Search(t) ==
    /\ pc[t] = "fetching"
    /\ hits[t].found = {} /\ hits[t].from <= Date[run[t].now]
    /\ \E F \in SUBSET InWindow(t) : \E overflows \in BOOLEAN :
        /\ IF overflows THEN Cardinality(InWindow(t)) > HitCap
           ELSE InWindow(t) \cap Certain(run[t]) \subseteq F
        /\ hits' = [hits EXCEPT ![t].from = Until(t) + 1, ![t].found = F,
                                ![t].overflow = hits[t].overflow \/ overflows]
    /\ UNCHANGED <<vars, told, wrote>>

\* Mutant of IsNext: the hits are fetched as the search ranks them.
AnyOrder(t, f) == f \in hits[t].found

\* hits.sort(key=filing_order): the hit to fetch next.
IsNext(t, f) ==
    /\ f \in hits[t].found
    /\ \A g \in hits[t].found \ {f} : Before(f, g)

\* _upsert_funding_rounds: the columns the filing states are its own now.
Writes(t, f) ==
    /\ told' = [o \in Offering |-> [k \in Column |->
          IF o = OfferingOf[f] /\ f \in States[k] THEN f ELSE told[o][k]]]
    /\ wrote' = [o \in Offering |-> [k \in Column |->
          IF o = OfferingOf[f] /\ f \in States[k] THEN run[t].id ELSE wrote[o][k]]]

\* Mutant of HandOn: the item that fails is skipped with a warning, no problem.
HandOnUnreported(t) ==
    /\ pc[t] = "fetching"
    /\ \E f \in Filing :
        /\ IsNext(t, f)
        /\ \/ /\ hits' = [hits EXCEPT ![t].found = @ \ {f}, ![t].done = @ \cup {f}]
              /\ Writes(t, f)
           \/ /\ hits' = [hits EXCEPT ![t].found = @ \ {f}]
              /\ UNCHANGED <<told, wrote>>
    /\ UNCHANGED vars

\* _fetch_filing, to_records and the upsert of one hit: it is stored, or one of
\* the three fails, which is a problem of the run, and the round stays as it is.
HandOn(t) ==
    /\ pc[t] = "fetching"
    /\ \E f \in Filing :
        /\ IsNext(t, f)
        /\ \/ /\ hits' = [hits EXCEPT ![t].found = @ \ {f}, ![t].done = @ \cup {f}]
              /\ Writes(t, f)
           \/ /\ hits' = [hits EXCEPT ![t].found = @ \ {f}, ![t].failed = @ \cup {f}]
              /\ UNCHANGED <<told, wrote>>
    /\ UNCHANGED vars

\* fetch completes after the last window; a failing refresh makes a run partial too.
FetchDone(t) ==
    /\ pc[t] = "fetching"
    /\ hits[t].found = {} /\ hits[t].from > Date[run[t].now]
    /\ \E outcome \in Completed :
        /\ hits[t].overflow \/ hits[t].failed # {} => outcome = "partial"
        /\ run' = [run EXCEPT ![t].outcome = outcome, ![t].failed = hits[t].failed]
    /\ taken' = taken \cup hits[t].done
    /\ pc' = [pc EXCEPT ![t] = "finishing"]
    /\ UNCHANGED <<clock, filed, row, nextRow, reported, hits, told, wrote>>

\* A search fails, or the fetch is cancelled, after any of these steps.
FetchStops(t) ==
    /\ FetchFails(t)
    /\ taken' = taken \cup hits[t].done
    /\ UNCHANGED <<hits, told, wrote>>

\* What the fetch held is gone with the run.
Forget(S) ==
    /\ hits' = [t \in Task |-> IF t \in S THEN NoHits ELSE hits[t]]
    /\ UNCHANGED <<told, wrote>>

-----------------------------------------------------------------------------
RoundsStep(t) ==
    \/ StartFetch(t) \/ Search(t) \/ HandOn(t) \/ FetchDone(t) \/ FetchStops(t)
    \/ (OpenFails(t) \/ Finish(t) \/ FinishFails(t)) /\ Forget({t})

RoundsNext ==
    \/ (Tick \/ Publish \/ \E t \in Task : \E c \in Connector : Begin(t, c))
       /\ UNCHANGED <<hits, told, wrote>>
    \/ \E t \in Task : RoundsStep(t)
    \/ \E S \in SUBSET Task : Die(S) /\ Forget(S)

RoundsSpec == RoundsInit /\ [][RoundsNext]_roundVars

-----------------------------------------------------------------------------
(***************************************************************************)
(* Properties                                                              *)
(***************************************************************************)

\* The type of every variable; a column has a filing exactly if a run wrote it.
RoundsTypeOK ==
    /\ TypeOK
    /\ hits \in [Task -> [from: Int, found: SUBSET Filing, done: SUBSET Filing,
                          failed: SUBSET Filing, overflow: BOOLEAN]]
    /\ told \in [Offering -> [Column -> Filing \cup {Null}]]
    /\ wrote \in [Offering -> [Column -> RowId \cup {Null}]]
    /\ \A o \in Offering : \A k \in Column : told[o][k] = Null <=> wrote[o][k] = Null

\* The filings that are about column k of round o.
About(o, k) == {f \in States[k] : OfferingOf[f] = o}

\* A column last written by a run that ended ok is from the newest filing that
\* states it of all the source had shown before that run started, whatever ran
\* beside it (filing_order, the comment at sec_edgar.py:453).
ColumnsAreNewest ==
    \A o \in Offering : \A k \in Column : \A i \in RowId :
        wrote[o][k] = i /\ row[i].status = "ok" =>
            \A f \in About(o, k) :
                filed[f] # Null /\ filed[f].at < row[i].started /\ SourceOf[f] = row[i].conn
                    => f = told[o][k] \/ Before(f, told[o][k])

\* No run puts an older filing over one it wrote itself: across its windows an
\* original is always fetched before its amendment.
RunsGoForward ==
    [][\A o \in Offering : \A k \in Column :
        told'[o][k] # told[o][k] /\ wrote[o][k] # Null /\ wrote'[o][k] = wrote[o][k]
            => Before(told[o][k], told'[o][k])]_roundVars

\* Windows, searches and hits, one at a time, are the one scan of FetchRuns: a
\* fetch that completes has stored, or put among the problems of a partial run,
\* every filing of its window that its source had shown by the start of the run,
\* unless a search overflowed and the run is partial.
FetchIsScan == RunSpec

\* What these rest on, inductive together with the types, NotYet and the rows of
\* FetchRuns: what a fetch is through with comes before what it has still to do, all
\* it has passed is among the two or beyond the cap, and what its run wrote is the
\* last of what it stored.
Through(t) == hits[t].done \cup hits[t].failed
Passed(t) == Through(t) \cup hits[t].found
InOrder(t) ==
    /\ Passed(t) \subseteq Visible(run[t])
    /\ hits[t].done \cap hits[t].failed = {}
    /\ \A f \in Passed(t) : filed[f].date < hits[t].from
    /\ \A f \in Through(t) : \A g \in hits[t].found : Before(f, g)
Covered(t) ==
    \/ \A f \in Certain(run[t]) : filed[f].date < hits[t].from => f \in Passed(t)
    \/ hits[t].overflow /\ Capped(run[t])
LastIsTold(t) ==
    \A o \in Offering : \A k \in Column : wrote[o][k] = run[t].id =>
        /\ told[o][k] \in hits[t].done
        /\ \A g \in hits[t].done \cap About(o, k) : g = told[o][k] \/ Before(g, told[o][k])
Unproblematic(t) ==
    run[t].outcome = "ok" =>
        /\ pc[t] = "finishing" /\ ~ hits[t].overflow /\ hits[t].failed = {}
        /\ hits[t].found = {} /\ hits[t].from > Date[run[t].now]
ScanInv(t) ==
    /\ pc[t] \in {"fetching", "finishing"} => InOrder(t) /\ Covered(t) /\ LastIsTold(t)
    /\ Unproblematic(t)
WrittenByRuns ==
    \A o \in Offering : \A k \in Column : wrote[o][k] # Null =>
        row[wrote[o][k]] # Null /\ filed[told[o][k]] # Null
RoundsInv ==
    /\ RoundsTypeOK /\ NotYet /\ WrittenByRuns
    /\ \A t \in Task : OpenRow(t) /\ ScanInv(t)
    /\ ColumnsAreNewest
=============================================================================
