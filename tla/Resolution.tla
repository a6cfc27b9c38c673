----------------------------- MODULE Resolution -----------------------------
(***************************************************************************)
(* Entity resolution and the upsert transaction of ingest/pipeline.py      *)
(* (upsert_company_record), run by concurrent connector runs against one   *)
(* PostgreSQL database under READ COMMITTED, together with the one command *)
(* that deletes companies (merge-review, db/queries.py merge_companies).   *)
(*                                                                         *)
(* Every SQL statement whose outcome another transaction can change is an  *)
(* action of its own; what a transaction writes stays in its draft until   *)
(* Commit.  A blocked statement is a disabled action: the advisory lock of *)
(* the record, row locks (FOR UPDATE in xlock, the KEY SHARE of a foreign  *)
(* key check in slock) and the unique index on companies.domain, which     *)
(* waits for a transaction that has the same value in flight.              *)
(***************************************************************************)
EXTENDS FieldMerge, FiniteSets

CONSTANTS
    Run,         \* connector runs, each one process with one transaction at a time
    ConnectorOf, \* ConnectorOf[r]: the connector run r executes
    Feed,        \* Feed[r]: the records run r fetches
    Ext,         \* external ids (company_sources.external_id)
    Metro,       \* metros of locations
    Configured,  \* the metros config/regions.yaml names (search_metros)
    Similar,     \* pairs of names above the trigram threshold, never equal ones
    BlankName,   \* a name normalize_name reduces to ''
    Reviewer,    \* the merge-review session
    MaxId        \* bound: ids the companies sequence may hand out

CompanyId == 1..MaxId
Actor == Run \cup {Reviewer}

\* A CompanyRecord as resolution sees it: the merge fields, the metros of its
\* locations and the one it resolves in (_resolution_metro).
Record == [val: [Field -> OptValue], ext: Ext \cup {Null},
           metros: SUBSET Metro, metro: Metro \cup {Null}, enrich: BOOLEAN]

ASSUME ResolutionAssumption ==
    /\ ConnectorOf \in [Run -> Connector]
    /\ Feed \in [Run -> SUBSET Record]
    /\ \A r \in Run : \A x \in Feed[r] : x.val["name"] # Null
    /\ Configured \subseteq Metro
    /\ Similar \subseteq Value \X Value
    /\ \A n \in Value : <<n, n>> \notin Similar
    /\ BlankName \in Value
    /\ Reviewer \notin Run
    /\ Null \notin Nat /\ Null \notin Metro /\ Null \notin Ext
    /\ Null \notin Row /\ Null \notin Record
    /\ \A d \in Value : <<"domain", d>> # Null
    /\ MaxId \in Nat

VARIABLES
    company,   \* committed companies rows, Null where there is none
    sources,   \* committed company_sources rows <<company, connector, external id>>
    located,   \* committed company_locations rows, as <<company, metro>>
    pair,      \* committed merge_candidates: "none", "open" or "resolved"
    nextId,    \* the companies id sequence
    todo,      \* records a run has still to process
    pc,        \* where a run's transaction is
    rec,       \* the record being processed
    target,    \* the company it landed on
    pending,   \* companies a MergeCandidate row has still to name
    other,     \* the one of them the INSERT is locking now
    draft,     \* uncommitted row, whether it is an insert, and new candidate pairs
    advisory,  \* the advisory key a run holds
    xlock,     \* rows an actor holds FOR UPDATE
    slock,     \* rows an actor holds FOR KEY SHARE
    review,    \* the merge being executed: stage, survivor, discarded company
    fault,     \* how a run's last transaction failed, "none" if it did not
    reported,  \* history: domains records reported for a company
    owned,     \* history: domains a company, or one merged into it, has held
    cleared    \* history: <<company, domain>> a reviewer ruled on, in a pair deleted since

database == <<company, sources, located, pair>>
progress == <<pc, rec, target, pending, other, draft>>
locks == <<advisory, xlock, slock>>
history == <<reported, owned, cleared>>
vars == <<database, nextId, todo, progress, locks, review, fault, history>>

Exists(c) == company[c] # Null
DomainOf(c) == company[c].val["domain"]
NameOf(c) == company[c].val["name"]
Owners(d) == {c \in CompanyId : Exists(c) /\ d # Null /\ DomainOf(c) = d}

\* Pairs are stored with company_id_a < company_id_b.
Pairs == {p \in CompanyId \X CompanyId : p[1] < p[2]}
PairOf(a, b) == IF a < b THEN <<a, b>> ELSE <<b, a>>

NoDraft == [row |-> EmptyRow, created |-> FALSE, pairs |-> {}]
NoReview == [pc |-> "idle", keep |-> Null, drop |-> Null]

\* Mutant of LockKey: every record is serialized on its name, domain or not.
LockKeyByName(x) ==
    IF x.metro # Null THEN <<"name", x.metro, x.val["name"]>> ELSE Null

\* lock_key of upsert_company_record: the domain, else metro and name.
LockKey(x) ==
    IF x.val["domain"] # Null THEN <<"domain", x.val["domain"]>>
    ELSE IF x.metro # Null THEN <<"name", x.metro, x.val["name"]>>
    ELSE Null

Init ==
    /\ company = [c \in CompanyId |-> Null]
    /\ sources = {}
    /\ located = {}
    /\ pair = [p \in Pairs |-> "none"]
    /\ nextId = 1
    /\ todo = Feed
    /\ pc = [r \in Run |-> "idle"]
    /\ rec = [r \in Run |-> Null]
    /\ target = [r \in Run |-> Null]
    /\ pending = [r \in Run |-> {}]
    /\ other = [r \in Run |-> Null]
    /\ draft = [r \in Run |-> NoDraft]
    /\ advisory = [r \in Run |-> Null]
    /\ xlock = [a \in Actor |-> {}]
    /\ slock = [a \in Actor |-> {}]
    /\ review = NoReview
    /\ fault = [r \in Run |-> "none"]
    /\ reported = [c \in CompanyId |-> {}]
    /\ owned = [c \in CompanyId |-> {}]
    /\ cleared = {}

(***************************************************************************)
(* Locks                                                                   *)
(***************************************************************************)

\* Who keeps actor a from locking company c, FOR UPDATE and FOR KEY SHARE.
UpdateBlockers(a, c) == {b \in Actor \ {a} : c \in xlock[b] \cup slock[b]}
ShareBlockers(a, c) == {b \in Actor \ {a} : c \in xlock[b]}

\* A run whose uncommitted row carries domain d while the committed one does not.
InFlight(q, d) ==
    /\ d # Null
    /\ pc[q] \in {"candidates", "commit"}
    /\ draft[q].row.val["domain"] = d
    /\ (draft[q].created \/ target[q] \notin Owners(d))
IndexBlockers(r, d) == {q \in Run \ {r} : InFlight(q, d)}

\* The domain an INSERT or UPDATE of run r puts into the unique index.
WrittenDomain(r) ==
    IF pc[r] = "insert"
    THEN MergeCompanyFields(EmptyRow, rec[r].val, ConnectorOf[r]).val["domain"]
    ELSE draft[r].row.val["domain"]

\* Third companies whose foreign key the repointing of a merge checks again: the
\* open pair moves to the survivor and the company changes column.
Rechecked(keep, drop) ==
    {o \in CompanyId \ {keep, drop} :
        /\ pair[PairOf(drop, o)] = "open" /\ pair[PairOf(keep, o)] = "none"
        /\ (o < drop) # (o < keep)}

\* Whom the statements of merge_companies after its row locks wait for.
FoldBlockers ==
    UNION {ShareBlockers(Reviewer, o) : o \in Rechecked(review.keep, review.drop)}
    \cup IndexBlockers(Reviewer, FillFromDiscarded(company[review.keep],
                                                  company[review.drop]).val["domain"])

\* The actors a blocked statement of actor a waits for.
WaitsFor(a) ==
    IF a = Reviewer
    THEN CASE review.pc = "first" ->
                UpdateBlockers(a, PairOf(review.keep, review.drop)[1])
           [] review.pc = "second" ->
                UpdateBlockers(a, PairOf(review.keep, review.drop)[2])
           [] review.pc = "fold" -> FoldBlockers
           [] OTHER -> {}
    ELSE CASE pc[a] = "lock" -> {q \in Run : advisory[q] = LockKey(rec[a])}
           [] pc[a] = "row" -> UpdateBlockers(a, target[a])
           [] pc[a] \in {"insert", "flush"} -> IndexBlockers(a, WrittenDomain(a))
           [] pc[a] = "candidates" ->
                IF pair[PairOf(target[a], other[a])] = "none"
                THEN ShareBlockers(a, other[a]) ELSE {}
           [] OTHER -> {}

\* PostgreSQL's deadlock detector: a is on a cycle of waiting actors.
Deadlocked(a) ==
    \E S \in SUBSET Actor :
        /\ a \in S
        /\ \A s \in S : WaitsFor(s) \cap S # {}
        /\ \A s \in S : \E q \in S : s \in WaitsFor(q)

\* Mutant of Release: a session-level advisory lock, which a transaction's end keeps.
ReleaseRowLocks(r) ==
    /\ xlock' = [xlock EXCEPT ![r] = {}]
    /\ slock' = [slock EXCEPT ![r] = {}]
    /\ pc' = [pc EXCEPT ![r] = "idle"]
    /\ rec' = [rec EXCEPT ![r] = Null]
    /\ target' = [target EXCEPT ![r] = Null]
    /\ pending' = [pending EXCEPT ![r] = {}]
    /\ other' = [other EXCEPT ![r] = Null]
    /\ draft' = [draft EXCEPT ![r] = NoDraft]
    /\ UNCHANGED advisory

\* The end of a transaction, committed or rolled back: its locks go with it.
Release(r) ==
    /\ advisory' = [advisory EXCEPT ![r] = Null]
    /\ xlock' = [xlock EXCEPT ![r] = {}]
    /\ slock' = [slock EXCEPT ![r] = {}]
    /\ pc' = [pc EXCEPT ![r] = "idle"]
    /\ rec' = [rec EXCEPT ![r] = Null]
    /\ target' = [target EXCEPT ![r] = Null]
    /\ pending' = [pending EXCEPT ![r] = {}]
    /\ other' = [other EXCEPT ![r] = Null]
    /\ draft' = [draft EXCEPT ![r] = NoDraft]

\* An exception in upsert_company_record: run_connector rolls the record back
\* and goes on with the next one.
Fail(r, why) ==
    /\ Release(r)
    /\ fault' = [fault EXCEPT ![r] = why]
    /\ UNCHANGED <<database, nextId, todo, review, history>>

(***************************************************************************)
(* upsert_company_record                                                   *)
(***************************************************************************)

Begin(r) ==
    /\ pc[r] = "idle"
    /\ \E x \in todo[r] :
        /\ rec' = [rec EXCEPT ![r] = x]
        /\ todo' = [todo EXCEPT ![r] = @ \ {x}]
        /\ pc' = [pc EXCEPT ![r] = IF LockKey(x) = Null THEN "external" ELSE "lock"]
    /\ fault' = [fault EXCEPT ![r] = "none"]
    /\ UNCHANGED <<database, nextId, target, pending, other, draft, locks, review, history>>

\* _lock_resolution_key: pg_advisory_xact_lock waits for the holder's transaction.
TakeLock(r) ==
    /\ pc[r] = "lock"
    /\ \A q \in Run : advisory[q] # LockKey(rec[r])
    /\ advisory' = [advisory EXCEPT ![r] = LockKey(rec[r])]
    /\ pc' = [pc EXCEPT ![r] = "external"]
    /\ UNCHANGED <<database, nextId, todo, rec, target, pending, other, draft,
                   xlock, slock, review, fault, history>>

Found(r, c) ==
    /\ target' = [target EXCEPT ![r] = c]
    /\ pc' = [pc EXCEPT ![r] = "row"]
    /\ UNCHANGED <<pending, rec, other, draft, locks>>

\* No company: an enrich-only record is skipped, any other is inserted.
Absent(r) ==
    IF rec[r].enrich
    THEN Release(r)
    ELSE /\ pc' = [pc EXCEPT ![r] = "insert"]
         /\ UNCHANGED <<rec, target, pending, other, draft, locks>>

GoOn(r, label) ==
    /\ pc' = [pc EXCEPT ![r] = label]
    /\ UNCHANGED <<rec, target, pending, other, draft, locks>>

\* Step 0 of resolve_company: the connector's own external id, if it names one company.
ResolveExternal(r) ==
    LET M == {c \in CompanyId : /\ rec[r].ext # Null
                                /\ <<c, ConnectorOf[r], rec[r].ext>> \in sources}
    IN
    /\ pc[r] = "external"
    /\ \/ \E c \in M : M = {c} /\ Found(r, c)
       \/ (\A c \in M : M # {c}) /\ GoOn(r, "domain")
    /\ UNCHANGED <<database, nextId, todo, review, fault, history>>

\* Step 1: the normalized domain.
ResolveDomain(r) ==
    LET M == Owners(rec[r].val["domain"]) IN
    /\ pc[r] = "domain"
    /\ \/ \E c \in M : Found(r, c)
       \/ M = {} /\ IF rec[r].val["name"] = BlankName THEN Absent(r) ELSE GoOn(r, "name")
    /\ UNCHANGED <<database, nextId, todo, review, fault, history>>

Named(n, metros) ==
    {c \in CompanyId : Exists(c) /\ NameOf(c) = n
                       /\ \E m \in metros : <<c, m>> \in located}

\* Step 2: the normalized name in the record's metro, lowest id first; for an
\* enrich-only record without a metro, the only such company anywhere.
ResolveName(r) ==
    LET n == rec[r].val["name"]
        m == rec[r].metro
        M == Named(n, IF m # Null THEN {m} ELSE IF rec[r].enrich THEN Configured ELSE {})
    IN
    /\ pc[r] = "name"
    /\ \/ m # Null /\ \E c \in M : (\A d \in M : c <= d) /\ Found(r, c)
       \/ m # Null /\ M = {} /\ GoOn(r, "similar")
       \/ m = Null /\ \E c \in M : M = {c} /\ Found(r, c)
       \/ m = Null /\ (\A c \in M : M # {c}) /\ Absent(r)
    /\ UNCHANGED <<database, nextId, todo, review, fault, history>>

\* Step 3: similar names in the metro are candidates for review, never a match.
ResolveSimilar(r) ==
    LET n == rec[r].val["name"] IN
    /\ pc[r] = "similar"
    /\ IF rec[r].enrich
       THEN Release(r)
       ELSE /\ pending' = [pending EXCEPT ![r] =
                   {c \in CompanyId : /\ Exists(c)
                                      /\ <<c, rec[r].metro>> \in located
                                      /\ <<NameOf(c), n>> \in Similar}]
            /\ pc' = [pc EXCEPT ![r] = "insert"]
            /\ UNCHANGED <<rec, target, other, draft, locks>>
    /\ UNCHANGED <<database, nextId, todo, review, fault, history>>

\* The next company of P a MergeCandidate row has to name, or none left.
NextCandidate(r, P) ==
    /\ pending' = [pending EXCEPT ![r] = P]
    /\ \/ /\ P = {}
          /\ pc' = [pc EXCEPT ![r] = "commit"]
          /\ UNCHANGED other
       \/ \E c \in P :
            /\ pc' = [pc EXCEPT ![r] = "candidates"]
            /\ other' = [other EXCEPT ![r] = c]

\* _insert_company: ON CONFLICT (domain) DO NOTHING; the loser of a race updates.
Insert(r) ==
    LET row == MergeCompanyFields(EmptyRow, rec[r].val, ConnectorOf[r])
        taken == Owners(row.val["domain"])
    IN
    /\ pc[r] = "insert"
    /\ IndexBlockers(r, WrittenDomain(r)) = {}
    /\ nextId \in CompanyId
    /\ IF taken # {}
       THEN /\ target' = [target EXCEPT ![r] = CHOOSE c \in taken : TRUE]
            /\ pending' = [pending EXCEPT ![r] = {}]
            /\ pc' = [pc EXCEPT ![r] = "row"]
            /\ fault' = [fault EXCEPT ![r] = "insert_raced"]
            /\ UNCHANGED <<draft, other, nextId>>
       ELSE /\ target' = [target EXCEPT ![r] = nextId]
            /\ nextId' = nextId + 1
            /\ draft' = [draft EXCEPT ![r] =
                            [row |-> row, created |-> TRUE, pairs |-> {}]]
            /\ NextCandidate(r, pending[r])
            /\ UNCHANGED fault
    /\ UNCHANGED <<database, todo, rec, locks, review, history>>

\* Mutant of LockRow: the row is read without FOR UPDATE.
ReadRow(r) ==
    /\ pc[r] = "row"
    /\ IF ~ Exists(target[r])
       THEN Fail(r, "vanished")
       ELSE /\ draft' = [draft EXCEPT ![r] =
                    [row |-> company[target[r]], created |-> FALSE, pairs |-> {}]]
            /\ pc' = [pc EXCEPT ![r] = "merge"]
            /\ UNCHANGED <<database, nextId, todo, rec, target, pending, other,
                           locks, review, fault, history>>

\* _update_company: SELECT ... FOR UPDATE, which finds nothing if a merge
\* deleted the company since it was resolved.
LockRow(r) ==
    /\ pc[r] = "row"
    /\ UpdateBlockers(r, target[r]) = {}
    /\ IF ~ Exists(target[r])
       THEN Fail(r, "vanished")
       ELSE /\ xlock' = [xlock EXCEPT ![r] = {target[r]}]
            /\ draft' = [draft EXCEPT ![r] =
                    [row |-> company[target[r]], created |-> FALSE, pairs |-> {}]]
            /\ pc' = [pc EXCEPT ![r] = "merge"]
            /\ UNCHANGED <<database, nextId, todo, rec, target, pending, other,
                           advisory, slock, review, fault, history>>

\* A merged row whose domain is left as it was stored.
WithoutDomain(merged, stored) ==
    [merged EXCEPT !.val["domain"] = stored.val["domain"],
                   !.prov["domain"] = stored.prov["domain"]]

\* The priority merge and the question whether the domain it would fill
\* belongs to another company; then it is not written and the pair is recorded.
Update(r) ==
    LET stored == draft[r].row
        merged == MergeCompanyFields(stored, rec[r].val, ConnectorOf[r])
        fills == merged.val["domain"] # stored.val["domain"]
        rivals == Owners(merged.val["domain"]) \ {target[r]}
    IN
    /\ pc[r] = "merge"
    /\ \/ /\ fills /\ rivals # {}
          /\ draft' = [draft EXCEPT ![r].row = WithoutDomain(merged, stored)]
          /\ NextCandidate(r, rivals)
       \/ /\ fills /\ rivals = {}
          /\ draft' = [draft EXCEPT ![r].row = merged]
          /\ pc' = [pc EXCEPT ![r] = "flush"]
          /\ UNCHANGED <<pending, other>>
       \/ /\ ~ fills
          /\ draft' = [draft EXCEPT ![r].row = merged]
          /\ pc' = [pc EXCEPT ![r] = "commit"]
          /\ UNCHANGED <<pending, other>>
    /\ UNCHANGED <<database, nextId, todo, rec, target, locks, review, fault, history>>

\* session.flush: the UPDATE that fills the domain meets the unique index.
Flush(r) ==
    /\ pc[r] = "flush"
    /\ IndexBlockers(r, WrittenDomain(r)) = {}
    /\ IF Owners(WrittenDomain(r)) \ {target[r]} # {}
       THEN Fail(r, "integrity_error")
       ELSE /\ pc' = [pc EXCEPT ![r] = "commit"]
            /\ UNCHANGED <<database, nextId, todo, rec, target, pending, other, draft,
                           locks, review, fault, history>>

\* Mutant of RecordCandidate: the named company is locked FOR UPDATE.
RecordCandidateForUpdate(r) ==
    LET c == other[r]
        p == PairOf(target[r], c)
    IN
    /\ pc[r] = "candidates"
    /\ ShareBlockers(r, c) = {}
    /\ IF ~ Exists(c)
       THEN Fail(r, "foreign_key")
       ELSE /\ NextCandidate(r, pending[r] \ {c})
            /\ xlock' = [xlock EXCEPT ![r] = @ \cup {c}]
            /\ draft' = [draft EXCEPT ![r].pairs = @ \cup {p}]
            /\ UNCHANGED <<database, nextId, todo, rec, target, advisory, slock,
                           review, fault, history>>

\* One row of _record_domain_conflict or record_merge_candidates: a new pair
\* needs KEY SHARE on the company it names, an existing one is refreshed.
RecordCandidate(r) ==
    LET c == other[r]
        p == PairOf(target[r], c)
    IN
    /\ pc[r] = "candidates"
    /\ pair[p] = "none" => ShareBlockers(r, c) = {}
    /\ IF pair[p] = "none" /\ ~ Exists(c)
       THEN Fail(r, "foreign_key")
       ELSE /\ NextCandidate(r, pending[r] \ {c})
            /\ IF pair[p] = "none"
               THEN /\ slock' = [slock EXCEPT ![r] = @ \cup {c}]
                    /\ draft' = [draft EXCEPT ![r].pairs = @ \cup {p}]
               ELSE UNCHANGED <<slock, draft>>
            /\ UNCHANGED <<database, nextId, todo, rec, target, advisory, xlock,
                           review, fault, history>>

\* _upsert_company_source: one row per company and connector, and an unknown
\* external id never erases a known one.
WithSource(c, k, e) ==
    LET mine == {s \in sources : s[1] = c /\ s[2] = k} IN
    IF e = Null /\ mine # {} THEN sources
    ELSE (sources \ mine) \cup {<<c, k, e>>}

Commit(r) ==
    LET c == target[r]
        d == rec[r].val["domain"]
    IN
    /\ pc[r] = "commit"
    /\ company' = [company EXCEPT ![c] = draft[r].row]
    /\ sources' = WithSource(c, ConnectorOf[r], rec[r].ext)
    /\ located' = located \cup ({c} \X rec[r].metros)
    /\ pair' = [p \in Pairs |-> IF p \in draft[r].pairs /\ pair[p] = "none"
                                THEN "open" ELSE pair[p]]
    /\ reported' = [reported EXCEPT ![c] = @ \cup ({d} \ {Null})]
    /\ owned' = [owned EXCEPT ![c] = @ \cup ({draft[r].row.val["domain"]} \ {Null})]
    /\ Release(r)
    /\ UNCHANGED <<nextId, todo, review, fault, cleared>>

\* The process dies or its task is cancelled: the transaction is rolled back
\* and the records it had not reached are not processed.
Crash(r) ==
    /\ pc[r] # "idle"
    /\ todo' = [todo EXCEPT ![r] = {}]
    /\ Release(r)
    /\ UNCHANGED <<database, nextId, review, fault, history>>

RunIsVictim(r) ==
    /\ Deadlocked(r)
    /\ Fail(r, "deadlock")

(***************************************************************************)
(* merge-review                                                            *)
(***************************************************************************)

OpenPairs == {p \in Pairs : pair[p] = "open"}

\* Answer n: the pair is stamped resolved and never offered again.
NotDuplicate ==
    /\ review.pc = "idle"
    /\ \E p \in OpenPairs :
        /\ pair' = [pair EXCEPT ![p] = "resolved"]
    /\ UNCHANGED <<company, sources, located, nextId, todo, progress, locks, review,
                   fault, history>>

\* Answer 1 or 2: merge_companies starts.
ChooseSurvivor ==
    /\ review.pc = "idle"
    /\ \E p \in OpenPairs : \E i \in {1, 2} :
        review' = [pc |-> "first", keep |-> p[i], drop |-> p[3 - i]]
    /\ UNCHANGED <<database, nextId, todo, progress, locks, fault, history>>

\* SELECT ... ORDER BY id FOR UPDATE locks the two rows one after the other; a
\* company that is gone is a ValueError, and the pair is left for the next run.
LockFirst ==
    LET c == PairOf(review.keep, review.drop)[1] IN
    /\ review.pc = "first"
    /\ UpdateBlockers(Reviewer, c) = {}
    /\ xlock' = [xlock EXCEPT ![Reviewer] = {c}]
    /\ review' = [review EXCEPT !.pc = "second"]
    /\ UNCHANGED <<database, nextId, todo, progress, advisory, slock, fault, history>>

LockSecond ==
    LET c == PairOf(review.keep, review.drop)[2] IN
    /\ review.pc = "second"
    /\ UpdateBlockers(Reviewer, c) = {}
    /\ IF Exists(review.keep) /\ Exists(review.drop)
       THEN /\ xlock' = [xlock EXCEPT ![Reviewer] = {review.keep, review.drop}]
            /\ review' = [review EXCEPT !.pc = "fold"]
       ELSE /\ xlock' = [xlock EXCEPT ![Reviewer] = {}]
            /\ review' = NoReview
    /\ UNCHANGED <<database, nextId, todo, progress, advisory, slock, fault, history>>

\* company_sources of the survivor: rows it lacks move, and a row without an
\* external id adopts the discarded company's.
MergedSources(keep, drop) ==
    LET Ids(c, k) == {s[3] : s \in {t \in sources : t[1] = c /\ t[2] = k}}
        Kept(k) == IF Ids(keep, k) \ {Null} # {} THEN Ids(keep, k)
                   ELSE IF Ids(drop, k) # {} THEN Ids(drop, k)
                   ELSE Ids(keep, k)
    IN {s \in sources : s[1] \notin {keep, drop}}
       \cup {s \in {keep} \X Connector \X (Ext \cup {Null}) : s[3] \in Kept(s[2])}

\* Mutant of RepointedPairs: the cascade takes every pair of the discarded company.
CascadedPairs(keep, drop) ==
    [p \in Pairs |-> IF drop \in {p[1], p[2]} THEN "none" ELSE pair[p]]

\* _repoint_merge_candidates and the cascade of the delete.
RepointedPairs(keep, drop) ==
    [p \in Pairs |->
        IF drop \in {p[1], p[2]} THEN "none"
        ELSE IF /\ keep \in {p[1], p[2]}
                /\ pair[p] = "none"
                /\ \E o \in {p[1], p[2]} \ {keep} : pair[PairOf(drop, o)] = "open"
             THEN "open"
        ELSE pair[p]]

\* The resolved pairs of the discarded company go with it, unlike the open ones: what
\* a reviewer had ruled on is then in the history alone.
DeletedVerdicts(keep, drop) ==
    LET Ruled(c) == c \notin {keep, drop} /\ pair[PairOf(drop, c)] = "resolved" IN
    {v \in CompanyId \X Value :
        \/ v[1] = keep /\ <<drop, v[2]>> \in cleared
        \/ v[1] = keep /\ v[2] \in reported[drop]
              /\ \E o \in CompanyId : Ruled(o) /\ v[2] \in owned[o]
        \/ Ruled(v[1]) /\ v[2] \in owned[drop]}

\* The body of merge_companies under both row locks, and its commit.
Fold ==
    LET keep == review.keep
        drop == review.drop
        row == FillFromDiscarded(company[keep], company[drop])
    IN
    /\ review.pc = "fold"
    /\ FoldBlockers = {}
    /\ sources' = MergedSources(keep, drop)
    /\ located' = {l \in located : l[1] # drop}
                  \cup {<<keep, m>> : m \in {n \in Metro : <<drop, n>> \in located}}
    /\ pair' = RepointedPairs(keep, drop)
    /\ company' = [company EXCEPT ![keep] = row, ![drop] = Null]
    /\ xlock' = [xlock EXCEPT ![Reviewer] = {}]
    /\ review' = NoReview
    /\ reported' = [reported EXCEPT ![keep] = @ \cup reported[drop], ![drop] = {}]
    /\ owned' = [owned EXCEPT ![keep] = @ \cup owned[drop], ![drop] = {}]
    /\ cleared' = cleared \cup DeletedVerdicts(keep, drop)
    /\ UNCHANGED <<nextId, todo, progress, advisory, slock, fault>>

\* The merge is rolled back, its candidate is left for the next run.
RollBackReview ==
    /\ xlock' = [xlock EXCEPT ![Reviewer] = {}]
    /\ review' = NoReview
    /\ UNCHANGED <<database, nextId, todo, progress, advisory, slock, fault, history>>

ReviewIsVictim == Deadlocked(Reviewer) /\ RollBackReview

\* The command is interrupted while it merges.
ReviewCrash == review.pc # "idle" /\ RollBackReview

(***************************************************************************)
(* Specification                                                           *)
(***************************************************************************)

Upsert(r) ==
    \/ TakeLock(r) \/ ResolveExternal(r) \/ ResolveDomain(r) \/ ResolveName(r)
    \/ ResolveSimilar(r) \/ Insert(r) \/ LockRow(r) \/ Update(r) \/ Flush(r)
    \/ RecordCandidate(r) \/ Commit(r) \/ RunIsVictim(r)

Merge ==
    \/ LockFirst \/ LockSecond \/ Fold \/ ReviewIsVictim

Next ==
    \/ \E r \in Run : Begin(r) \/ Upsert(r) \/ Crash(r)
    \/ NotDuplicate \/ ChooseSurvivor \/ Merge \/ ReviewCrash

\* Each process keeps executing its transaction's statements while they are not
\* blocked, and a blocked one is not overtaken for ever: PostgreSQL grants locks
\* in the order they were asked for.  merge-review asks nothing between its first
\* lock and its commit.  When a run starts, whether a process is interrupted and
\* what the reviewer answers is up to nobody.
Fairness == (\A r \in Run : SF_vars(Upsert(r))) /\ WF_vars(Merge)
Spec == Init /\ [][Next]_vars
FairSpec == Spec /\ Fairness

-----------------------------------------------------------------------------
(***************************************************************************)
(* Properties                                                              *)
(***************************************************************************)

Stage == {"idle", "lock", "external", "domain", "name", "similar", "insert", "row",
          "merge", "flush", "candidates", "commit"}

Fault == {"none", "vanished", "foreign_key", "deadlock", "insert_raced", "integrity_error"}
Key == ({"domain"} \X Value) \cup ({"name"} \X Metro \X OptValue)

\* The type of every variable.
TypeOK ==
    /\ company \in [CompanyId -> Row \cup {Null}]
    /\ sources \subseteq CompanyId \X Connector \X (Ext \cup {Null})
    /\ located \subseteq CompanyId \X Metro
    /\ pair \in [Pairs -> {"none", "open", "resolved"}]
    /\ nextId \in 1..MaxId + 1
    /\ todo \in [Run -> SUBSET Record]
    /\ pc \in [Run -> Stage]
    /\ rec \in [Run -> Record \cup {Null}]
    /\ target \in [Run -> CompanyId \cup {Null}]
    /\ pending \in [Run -> SUBSET CompanyId]
    /\ other \in [Run -> CompanyId \cup {Null}]
    /\ draft \in [Run -> [row: Row, created: BOOLEAN, pairs: SUBSET Pairs]]
    /\ advisory \in [Run -> Key \cup {Null}]
    /\ xlock \in [Actor -> SUBSET CompanyId]
    /\ slock \in [Actor -> SUBSET CompanyId]
    /\ review \in [pc: {"idle", "first", "second", "fold"},
                   keep: CompanyId \cup {Null}, drop: CompanyId \cup {Null}]
    /\ fault \in [Run -> Fault]
    /\ reported \in [CompanyId -> SUBSET Value]
    /\ owned \in [CompanyId -> SUBSET Value]
    /\ cleared \subseteq CompanyId \X Value

\* No record is lost to the unique index on companies.domain: no INSERT finds
\* its domain taken after resolution said it was free, and no UPDATE that fills
\* a domain fails with an IntegrityError.  This is what the advisory lock on the
\* domain is for: two runs, or a run and a merge that moves a domain, never get
\* between the question and the write.
NoIntegrityError ==
    \A r \in Run : fault[r] \notin {"insert_raced", "integrity_error"}

\* What NoIntegrityError rests on, inductive together with TypeOK.
Updating(r) == pc[r] \in {"merge", "flush"} \/ (pc[r] \in {"candidates", "commit"} /\ ~ draft[r].created)
Inserting(r) == pc[r] \in {"candidates", "commit"} /\ draft[r].created

\* A run past the advisory lock holds the key of its record.
KeyHeld(r) ==
    /\ pc[r] # "idle" => rec[r] # Null
    /\ pc[r] = "lock" => LockKey(rec[r]) # Null
    /\ advisory[r] # Null => pc[r] \notin {"idle", "lock"} /\ advisory[r] = LockKey(rec[r])
    /\ pc[r] \notin {"idle", "lock"} => advisory[r] = LockKey(rec[r])

\* What an update may say of the domain: the stored one, or the record's where
\* none is stored.
UpdateFaithful(r) ==
    LET d == draft[r].row.val["domain"] IN
    /\ target[r] \in xlock[r] /\ Exists(target[r]) /\ ~ draft[r].created
    /\ d = DomainOf(target[r]) \/ (DomainOf(target[r]) = Null /\ d = rec[r].val["domain"])
    /\ pc[r] = "merge" => draft[r].row = company[target[r]]
    /\ pc[r] = "flush" => d = rec[r].val["domain"] /\ d # Null

InsertFaithful(r) ==
    /\ ~ Exists(target[r])
    /\ target[r] < nextId
    /\ draft[r].row.val["domain"] = rec[r].val["domain"]

DraftFaithful(r) ==
    /\ pc[r] \in {"row", "merge", "flush", "candidates", "commit"} => target[r] \in CompanyId
    /\ pc[r] = "candidates" => other[r] \in CompanyId \ {target[r]} /\ target[r] \notin pending[r]
    /\ Updating(r) => UpdateFaithful(r)
    /\ Inserting(r) => InsertFaithful(r)
    /\ \A c \in pending[r] : c < nextId

\* A run that found its domain free will find it free when it writes.
DomainStaysFree(r) ==
    pc[r] \in {"name", "similar", "insert", "flush"} => Owners(rec[r].val["domain"]) = {}

\* Keys, row locks and new ids are each one actor's, and merge_companies folds
\* two rows it has locked.
Exclusive ==
    /\ \A q, r \in Run : q # r =>
        /\ advisory[q] # Null => advisory[q] # advisory[r]
        /\ Inserting(q) /\ Inserting(r) => target[q] # target[r]
    /\ \A a, b \in Actor : a # b => xlock[a] \cap xlock[b] = {}
    /\ review.pc # "idle" => /\ review.keep \in CompanyId /\ review.drop \in CompanyId
                             /\ review.keep # review.drop
    /\ review.pc = "second" => PairOf(review.keep, review.drop)[1] \in xlock[Reviewer]
    /\ review.pc = "fold" => /\ {review.keep, review.drop} \subseteq xlock[Reviewer]
                             /\ Exists(review.keep) /\ Exists(review.drop)

\* Ids the sequence has not handed out name no company.
IdsFresh == \A c \in CompanyId : Exists(c) => c < nextId

ResolutionInv ==
    /\ TypeOK
    /\ \A r \in Run : KeyHeld(r) /\ DraftFaithful(r) /\ DomainStaysFree(r)
    /\ Exclusive
    /\ IdsFresh
    /\ NoIntegrityError

\* A domain reported for a company that could not be given it, because another
\* company had it, is never forgotten: the company's pair with one that has held
\* the domain, itself or in a company merged into it, is in merge_candidates, for
\* review or ruled on.  Only the cascade of a merge deletes a pair, and then one
\* ruled on.  Holds across any interleaving of upserts and merges, repointed pairs
\* included (design decision 1, _record_domain_conflict, _repoint_merge_candidates).
DomainConflictQueued ==
    \A c \in CompanyId : \A d \in Value :
        (/\ Exists(c)
         /\ DomainOf(c) = Null
         /\ d \in reported[c]
         /\ <<c, d>> \notin cleared)
        => \E o \in CompanyId \ {c} :
              Exists(o) /\ d \in owned[o] /\ pair[PairOf(c, o)] # "none"

\* What no write of a company row may do to it: change a domain it has, or credit
\* a field to a less authoritative connector.
NeverLower(old, new) ==
    /\ old.val["domain"] # Null => new.val["domain"] = old.val["domain"]
    /\ \A f \in Field : old.prov[f] # Null =>
          /\ new.prov[f] # Null
          /\ ConnectorRank(new.prov[f]) >= ConnectorRank(old.prov[f])

\* While a company lives, the connector a field is credited to never becomes a
\* less authoritative one, and a stored domain never changes, whichever of two
\* overlapping transactions commits last (SELECT ... FOR UPDATE in
\* _update_company, merge_company_fields).
AuthorityNeverFalls ==
    [][\A c \in CompanyId :
          (Exists(c) /\ Exists(c)') => NeverLower(company[c], company'[c])]_company

\* What AuthorityNeverFalls rests on, inductive together with ResolutionInv: a
\* field without a value has no owner, and a draft is never below the row it
\* will replace.
OwnersHaveValues(row) == \A f \in Field : row.prov[f] # Null => row.val[f] # Null
DraftNeverLower(r) ==
    /\ Updating(r) => NeverLower(company[target[r]], draft[r].row)
    /\ Updating(r) \/ Inserting(r) => OwnersHaveValues(draft[r].row)
AuthorityInv ==
    /\ \A c \in CompanyId : Exists(c) => OwnersHaveValues(company[c])
    /\ \A r \in Run : DraftNeverLower(r)

\* Upserts never deadlock among themselves over the advisory key, the companies
\* rows and the domain index: the key is taken before any row lock, and foreign key
\* locks only ever wait for transactions that wait for no other (the "no lock-order
\* cycle" of _lock_resolution_key).  The parents child rows share are not in here.
UpsertsNeverDeadlock ==
    \A S \in (SUBSET Run) \ {{}} : \E s \in S : WaitsFor(s) \cap S = {}

\* What UpsertsNeverDeadlock rests on, inductive together with ResolutionInv: an
\* update holds its own row and nothing else, an insert holds no row, and the
\* domain conflict a run is recording names a company that has a domain, while
\* the run's own has none.
ConflictNamed(r) ==
    (pc[r] = "candidates" /\ ~ draft[r].created) =>
        /\ DomainOf(target[r]) = Null
        /\ \A c \in pending[r] \cup {other[r]} : Exists(c) => DomainOf(c) # Null
RowsHeld(r) ==
    /\ xlock[r] = IF Updating(r) THEN {target[r]} ELSE {}
    /\ slock[r] # {} => pc[r] \in {"candidates", "commit"}
    /\ pc[r] = "candidates" => other[r] < nextId
NewIdUnnamed(q, r) ==
    Inserting(q) => target[q] \notin pending[r] /\ (pc[r] = "candidates" => target[q] # other[r])
DeadlockInv ==
    /\ \A r \in Run : RowsHeld(r) /\ ConflictNamed(r)
    /\ \A q, r \in Run : NewIdUnnamed(q, r)

\* What DomainConflictQueued rests on, inductive together with ResolutionInv and
\* DeadlockInv.  The history tells of companies there are: what one
\* holds it has held, and one that has held a domain holds one.
HistoryTrue(c) ==
    IF Exists(c) THEN /\ DomainOf(c) # Null => DomainOf(c) \in owned[c]
                      /\ owned[c] # {} => DomainOf(c) # Null
    ELSE owned[c] = {} /\ reported[c] = {}

\* A pair names two companies, and the KEY SHARE lock of a pair to be keeps the other
\* company from being merged away.
PairsExist == \A p \in Pairs : pair[p] # "none" => Exists(p[1]) /\ Exists(p[2])
SharesHeld(r) ==
    /\ \A o \in slock[r] : Exists(o)
    /\ \A a \in Actor \ {r} : slock[r] \cap xlock[a] = {}
    /\ pc[r] \in {"merge", "flush", "candidates", "commit"} =>
          \A p \in draft[r].pairs :
              \E o \in slock[r] \ {target[r]} : p = PairOf(target[r], o)

\* An update that could not write the domain it has is about to record why, or has.
ConflictSeen(c, d, pairs) ==
    \/ <<c, d>> \in cleared
    \/ \E o \in CompanyId \ {c} : /\ Exists(o) /\ d \in owned[o]
                                  /\ PairOf(c, o) \in pairs \/ pair[PairOf(c, o)] # "none"
ConflictRecorded(r) ==
    LET d == rec[r].val["domain"] IN
    (/\ pc[r] \in {"candidates", "commit"} /\ ~ draft[r].created
     /\ d # Null /\ draft[r].row.val["domain"] = Null)
    => \/ ConflictSeen(target[r], d, draft[r].pairs)
       \/ pc[r] = "candidates" /\ (Exists(other[r]) => d \in owned[other[r]])
ConflictInv ==
    /\ \A c \in CompanyId : HistoryTrue(c)
    /\ PairsExist
    /\ \A r \in Run : SharesHeld(r) /\ ConflictRecorded(r)
    /\ DomainConflictQueued

\* A pair a reviewer called "not a duplicate" is never offered again: neither a
\* later upsert nor the repointing of another merge reopens it (SPEC section 8).
VerdictIsFinal ==
    [][\A p \in Pairs : pair[p] = "resolved" => pair'[p] # "open"]_pair

\* Every transaction ends: it commits, skips its record or fails, and no
\* interleaving of runs and merges leaves one waiting for ever.
EveryTransactionEnds == []<>(\A r \in Run : pc[r] = "idle")

\* What _lock_resolution_key says it prevents: "two companies with the same
\* normalized_name in one metro and no MergeCandidate".
NoUnqueuedTwin ==
    \A p \in Pairs : \A m \in Metro :
        (/\ Exists(p[1]) /\ Exists(p[2])
         /\ NameOf(p[1]) = NameOf(p[2])
         /\ {<<p[1], m>>, <<p[2], m>>} \subseteq located)
        => pair[p] # "none"
=============================================================================
