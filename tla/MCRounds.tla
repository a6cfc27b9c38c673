------------------------------ MODULE MCRounds ------------------------------
(* One file number with its Form D and an amendment, overlapping runs. *)
EXTENDS Rounds, TLC

CONSTANTS t1, t2, edgar, original, amended, fileNumber

MCMayRun == [t \in Task |-> {edgar}]
MCSinceOf == [t \in Task |-> {Null}]
MCSourceOf == [f \in Filing |-> edgar]
MCDate == [t \in Time |-> t]
MCOfferingOf == [f \in Filing |-> fileNumber]
MCColumn == {"raw_payload", "notes"}
MCStates == [k \in MCColumn |-> IF k = "notes" THEN {amended} ELSE Filing]
MCAccession == [f \in Filing |-> IF f = original THEN 1 ELSE 2]
\* The tasks run the same connector with the same options.
MCSymmetry == Permutations({t1, t2})
=============================================================================
