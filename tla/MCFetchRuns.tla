---------------------------- MODULE MCFetchRuns ----------------------------
(***************************************************************************)
(* Two executors of runs of one connector, one filing, one point in time   *)
(* a day.                                                                  *)
(***************************************************************************)
EXTENDS FetchRuns

CONSTANTS job, command, edgar, formD

MCDate == [t \in Time |-> t]
MCMayRun == [t \in Task |-> {edgar}]
MCSourceOf == [f \in Filing |-> edgar]

\* A command's --since, if any, reaches back to the first day.
FullSince == [t \in Task |-> IF t = command THEN {Null, 0} ELSE {Null}]
=============================================================================
