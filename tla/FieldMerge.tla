----------------------------- MODULE FieldMerge -----------------------------
(***************************************************************************)
(* The priority-aware merge of a company row (ingest/pipeline.py): which   *)
(* connector may write which field, and what the row and its provenance    *)
(* are afterwards.  Pure operators; a row is a record                      *)
(*   [val |-> field -> value, prov |-> field -> connector]                 *)
(* with Null for SQL NULL and for a field without provenance.              *)
(***************************************************************************)
EXTENDS Integers, Sequences

CONSTANTS
    Connector,  \* connector names
    Priority,   \* CONNECTOR_PRIORITY, most authoritative first
    Field,      \* the company columns connectors write (COMPANY_MERGE_FIELDS)
    Value,      \* what those columns hold
    Null        \* SQL NULL, Python None

ASSUME FieldMergeAssumption ==
    /\ Priority \in Seq(Connector)
    /\ Null \notin Connector
    /\ Null \notin Value
    /\ "domain" \in Field
    /\ "name" \in Field

OptValue == Value \cup {Null}
Row == [val: [Field -> OptValue], prov: [Field -> Connector \cup {Null}]]
EmptyRow == [val |-> [f \in Field |-> Null], prov |-> [f \in Field |-> Null]]

\* connector_rank: Len(Priority) for the first connector, 0 for an unlisted one.
ConnectorRank(c) ==
    IF \E i \in DOMAIN Priority : Priority[i] = c
    THEN Len(Priority) + 1 - (CHOOSE i \in DOMAIN Priority : Priority[i] = c)
    ELSE 0

MayOverwrite(stored, owner, c) ==
    \/ stored = Null
    \/ owner = Null
    \/ owner = c
    \/ ConnectorRank(c) > ConnectorRank(owner)

\* The fields merge_company_fields lets connector c write: what it reports,
\* except a domain the row already has.
Writable(row, incoming, c) ==
    {f \in Field :
        /\ incoming[f] # Null
        /\ ~ (f = "domain" /\ row.val[f] # Null)
        /\ MayOverwrite(row.val[f], row.prov[f], c)}

\* Mutant of MergeCompanyFields: the provenance gets the value, not the connector.
MergeCreditingValue(row, incoming, c) ==
    LET W == Writable(row, incoming, c) IN
    [val  |-> [f \in Field |-> IF f \in W THEN incoming[f] ELSE row.val[f]],
     prov |-> [f \in Field |-> IF f \in W THEN incoming[f] ELSE row.prov[f]]]

\* merge_company_fields, with its updates applied.
MergeCompanyFields(row, incoming, c) ==
    LET W == Writable(row, incoming, c) IN
    [val  |-> [f \in Field |-> IF f \in W THEN incoming[f] ELSE row.val[f]],
     prov |-> [f \in Field |-> IF f \in W THEN c ELSE row.prov[f]]]

\* Step 4 of merge_companies: the survivor's NULL fields are filled from the
\* discarded row, with the discarded owner unless the survivor claims the field.
FillFromDiscarded(keep, drop) ==
    LET Filled == {f \in Field : keep.val[f] = Null /\ drop.val[f] # Null} IN
    [val  |-> [f \in Field |-> IF f \in Filled THEN drop.val[f] ELSE keep.val[f]],
     prov |-> [f \in Field |-> IF f \in Filled /\ keep.prov[f] = Null
                               THEN drop.prov[f] ELSE keep.prov[f]]]
=============================================================================
