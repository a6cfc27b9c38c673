------------------------------- MODULE Intake -------------------------------
(***************************************************************************)
(* What the incremental window of a connector promises (SPEC 14.3, the     *)
(* docstring of last_successful_run_started_at): the point in time a run   *)
(* may start from only ever moves past filings that were stored, or that a *)
(* partial run reported as failed; an ok run adds nothing to the latter.   *)
(***************************************************************************)
EXTENDS Naturals

CONSTANTS Connector, Filing, SourceOf, Time, Null

VARIABLES
    clock,    \* now
    filed,    \* filed[f]: when the source first showed filing f, Null before
    taken,    \* filings a run got through: stored, or found to be no record
    reported, \* filings a partial run reported as failed
    reached   \* reached[c]: the points in time c was scanned up to, each with its status

Shown(c, h) == {f \in Filing : SourceOf[f] = c /\ filed[f] # Null /\ filed[f] < h}

Init ==
    /\ clock = 0
    /\ filed = [f \in Filing |-> Null]
    /\ taken = {}
    /\ reported = {}
    /\ reached = [c \in Connector |-> {}]

Tick ==
    /\ clock' \in Time /\ clock' > clock
    /\ UNCHANGED <<filed, taken, reported, reached>>

Show ==
    /\ \E f \in Filing :
        /\ filed[f] = Null
        /\ filed' = [filed EXCEPT ![f] = clock]
    /\ UNCHANGED <<clock, taken, reported, reached>>

Take ==
    /\ \E F \in SUBSET {f \in Filing : filed[f] # Null} : taken' = taken \cup F
    /\ UNCHANGED <<clock, filed, reported, reached>>

Advance ==
    /\ \E c \in Connector : \E h \in 0..clock : \E status \in {"ok", "partial"} :
       \E G \in SUBSET Filing :
        /\ status = "ok" => G = {}
        /\ Shown(c, h) \subseteq taken \cup reported \cup G
        /\ reported' = reported \cup G
        /\ reached' = [reached EXCEPT ![c] = @ \cup {[upTo |-> h, status |-> status]}]
    /\ UNCHANGED <<clock, filed, taken>>

Next == Tick \/ Show \/ Take \/ Advance

Spec == Init /\ [][Next]_<<clock, filed, taken, reported, reached>>
=============================================================================
