---------------------------- MODULE MCScheduler ----------------------------
(***************************************************************************)
(* Two scheduled connectors, one of which a command may run at the same    *)
(* time; what the sources publish is left to MCFetchRuns.                  *)
(***************************************************************************)
EXTENDS Scheduler, TLC

CONSTANTS greenhouse, lever, refresh

MCDate == [t \in Time |-> t]
MCMayRun == [t \in Task |-> IF t = refresh THEN {greenhouse} ELSE {t}]
MCSinceOf == [t \in Task |-> {Null}]
MCSourceOf == [f \in Filing |-> greenhouse]
=============================================================================
