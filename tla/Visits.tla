------------------------------- MODULE Visits -------------------------------
(***************************************************************************)
(* Whom a run visits: the connectors that enrich companies already stored  *)
(* (company_site and the ATS connectors) get all of them at the start of a *)
(* run, those not seen for longest first (db/queries.py                    *)
(* load_company_targets), and stop at a cap.  A company goes to the back   *)
(* of the queue when the record of its visit is resolved to it             *)
(* (ingest/normalize.py) and stamped (company_sources.last_seen_at).       *)
(*                                                                         *)
(* Boards has what a board's listing does to the jobs, and companies that  *)
(* move; here the queue is as the code orders it, a record goes where it   *)
(* is resolved to, and boards stay where they are.                         *)
(***************************************************************************)
EXTENDS FieldMerge, FiniteSets

CONSTANTS
    Company,        \* ids: numbers
    Active,         \* the companies with status active
    Site,           \* the connector company_site
    Ats,            \* the ATS connectors, each also the provider it serves
    Token, IssuedBy,    \* board tokens, and the provider of each
    Dead,           \* boards that answer 404
    DomainOf,       \* company -> its domain, or Null
    Website,        \* companies with a website_url
    Local,          \* companies with a location in a configured metro
    Up,             \* companies whose pages always answer
    PageOf,         \* company -> the board its pages name, or Null
    Configured,     \* the sets of connectors that may be enabled
    MaxVisits,      \* max_companies_per_run
    MaxDiscovery,   \* max_discovery_per_run
    Command,        \* bound: the connectors a command runs while another runs
    MaxCommands,    \* bound: such commands
    MaxFaults       \* bound: failed requests and transactions, killed runs

VARIABLES
    enabled,    \* the connectors config/connectors.yaml enables
    row,        \* company -> its name and its two ATS columns, with their owners
    seen,       \* connector -> company -> last_seen_at, as a rank; 0 while there is no row
    ext,        \* connector -> company -> external_id of its company_sources row, or Null
    aged,       \* companies whose last visit of Site lies min_revisit_days back
    run,        \* connector -> its run, or Null
    commands,   \* bound: runs that overlapped so far
    faults

stored == <<enabled, row, seen, ext>>
vars == <<enabled, row, seen, ext, aged, run, commands, faults>>

Visitor == Ats \cup {Site}
HasHome(c) == c \in Website \/ DomainOf[c] # Null

\* The stamp of a run in progress; earlier ones are ranked below it.
Now == Cardinality(Company) + 1

ASSUME VisitAssumption ==
    /\ Company \subseteq Nat /\ IsFiniteSet(Company)
    /\ Active \subseteq Company /\ Local \subseteq Company /\ Website \subseteq Company
    /\ Up \subseteq Company /\ Command \subseteq Visitor
    /\ Configured \subseteq SUBSET Visitor
    /\ Visitor \subseteq Connector /\ Site \notin Ats
    /\ IssuedBy \in [Token -> Ats] /\ Token \subseteq Value /\ Ats \subseteq Value
    /\ Dead \subseteq Token
    /\ DomainOf \in [Company -> Value \cup {Null}]
    /\ \A c, d \in Company : DomainOf[c] = DomainOf[d] /\ DomainOf[c] # Null => c = d
    /\ PageOf \in [Company -> Token \cup {Null}]
    /\ {"ats_provider", "ats_token"} \subseteq Field
    /\ MaxVisits \in Nat \ {0} /\ MaxDiscovery \in Nat
    /\ MaxCommands \in Nat /\ MaxFaults \in Nat

AtsRow(b) == [f \in {"ats_provider", "ats_token"} |->
                IF b = Null THEN Null ELSE IF f = "ats_token" THEN b ELSE IssuedBy[b]]

(***************************************************************************)
(* The work list                                                           *)
(***************************************************************************)

\* Earlier stamps as ranks without gaps: only their order is ever used.
Ranked(f) == [c \in Company |-> Cardinality({f[d] : d \in {e \in Company : 0 < f[e] /\ f[e] <= f[c]}})]

Target(k, c) ==
    [company |-> c, name |-> row[c].val["name"], token |-> row[c].val["ats_token"],
     provider |-> row[c].val["ats_provider"],
     seen |-> Ranked(seen[k])[c], recent |-> k = Site /\ seen[k][c] > 0 /\ c \notin aged]

\* Mutant of Before: NULLS LAST.
BeforeNullsLast(g, h) ==
    LET at(t) == IF t.seen = 0 THEN Now ELSE t.seen
    IN  at(g) < at(h) \/ (at(g) = at(h) /\ g.company < h.company)

\* ORDER BY last_seen_at ASC NULLS FIRST, id.
Before(g, h) == g.seen < h.seen \/ (g.seen = h.seen /\ g.company < h.company)

\* run_connector loads the targets.  The scheduler runs one connector at a time; a command
\* does not ask whether another runs.
Start(k) ==
    /\ k \in enabled /\ run[k] = Null
    /\ IF \A j \in Visitor : run[j] = Null THEN UNCHANGED commands
       ELSE k \in Command /\ commands < MaxCommands /\ commands' = commands + 1
    /\ run' = [run EXCEPT ![k] = [todo |-> {Target(k, c) : c \in Active}, record |-> Null,
                                  left |-> IF k = Site THEN MaxVisits ELSE MaxDiscovery]]
    /\ seen' = [seen EXCEPT ![k] = Ranked(@)]
    /\ UNCHANGED <<enabled, row, ext, aged, faults>>

\* The next target, once the record of the one before has been upserted.
IsNext(k, g) ==
    /\ run[k] # Null /\ run[k].record = Null
    /\ g \in run[k].todo /\ \A h \in run[k].todo : h = g \/ Before(g, h)

Pass(k, g) == run' = [run EXCEPT ![k].todo = @ \ {g}]

\* A record of g, and what is left of the cap.
Yield(k, g, record, left) ==
    run' = [run EXCEPT ![k] = [todo |-> @.todo \ {g}, record |-> record, left |-> left]]

Record(g, id, token) ==
    [company |-> g.company, name |-> g.name, domain |-> DomainOf[g.company],
     external_id |-> id, token |-> token]

Fault == faults < MaxFaults /\ faults' = faults + 1

(***************************************************************************)
(* company_site                                                            *)
(***************************************************************************)

\* The cap, or a company visited within min_revisit_days: the rest is left alone.
SiteDone ==
    /\ \E g \in run[Site].todo :
        /\ IsNext(Site, g)
        /\ run[Site].left = 0 \/ g.recent
        /\ run' = [run EXCEPT ![Site].todo = {}]
    /\ UNCHANGED <<stored, aged, commands, faults>>

SiteNext(g) == IsNext(Site, g) /\ run[Site].left > 0 /\ ~g.recent

\* _visit: the home page answers, the visit counts.
VisitSite ==
    /\ \E g \in run[Site].todo :
        /\ SiteNext(g)
        /\ HasHome(g.company)
        /\ Yield(Site, g, Record(g, DomainOf[g.company], Null), run[Site].left - 1)
    /\ UNCHANGED <<stored, aged, commands, faults>>

\* No website, or none that answers: nothing is counted, and nothing stamped.
NoVisit ==
    /\ \E g \in run[Site].todo :
        /\ SiteNext(g)
        /\ \/ ~HasHome(g.company) /\ UNCHANGED faults
           \/ HasHome(g.company) /\ g.company \notin Up /\ UNCHANGED faults
           \/ HasHome(g.company) /\ g.company \in Up /\ Fault
        /\ Pass(Site, g)
    /\ UNCHANGED <<stored, aged, commands>>

(***************************************************************************)
(* The ATS connectors                                                      *)
(***************************************************************************)

\* A target of another provider, or of none once the budget is spent.
SkipTarget(k) ==
    /\ \E g \in run[k].todo :
        /\ IsNext(k, g)
        /\ \/ g.provider \notin {Null, k}
           \/ g.provider = k /\ g.token = Null
           \/ g.provider = Null /\ run[k].left = 0
        /\ Pass(k, g)
    /\ UNCHANGED <<stored, aged, commands, faults>>

IdOf(k, token) == IF token # Null /\ IssuedBy[token] = k THEN token ELSE Null

\* Mutant of Discover: without the empty record of a company that has no board.
DiscoverSilently(k, g) ==
    \E found \in IF HasHome(g.company) THEN {PageOf[g.company], Null} ELSE {Null} :
        /\ IF found = Null /\ HasHome(g.company) /\ PageOf[g.company] # Null
              /\ g.company \in Up
           THEN Fault ELSE UNCHANGED faults
        /\ IF found = Null
           THEN run' = [run EXCEPT ![k].todo = @ \ {g}, ![k].left = @ - 1]
           ELSE Yield(k, g, Record(g, IdOf(k, found), found), run[k].left - 1)

\* _discover: the board the pages name, whosever it is; a company where none is found, or
\* whose pages do not answer, gets a record that says nothing, to be stamped.
Discover(k, g) ==
    \E found \in IF HasHome(g.company) THEN {PageOf[g.company], Null} ELSE {Null} :
        /\ IF found = Null /\ HasHome(g.company) /\ PageOf[g.company] # Null
              /\ g.company \in Up
           THEN Fault ELSE UNCHANGED faults
        /\ Yield(k, g, Record(g, IdOf(k, found), found), run[k].left - 1)

Probe(k) ==
    /\ \E g \in run[k].todo :
        /\ IsNext(k, g) /\ g.provider = Null /\ run[k].left > 0
        /\ Discover(k, g)
    /\ UNCHANGED <<stored, aged, commands>>

\* _fetch_known_board: read, gone and looked for again, or gone with the budget spent.
KnownBoard(k) ==
    /\ \E g \in run[k].todo :
        /\ IsNext(k, g) /\ g.provider = k /\ g.token # Null
        /\ \/ g.token \notin Dead /\ UNCHANGED faults
              /\ Yield(k, g, Record(g, g.token, g.token), run[k].left)
           \/ g.token \notin Dead /\ Fault /\ Pass(k, g)
           \/ g.token \in Dead /\ run[k].left > 0 /\ Discover(k, g)
           \/ g.token \in Dead /\ run[k].left = 0 /\ UNCHANGED faults /\ Pass(k, g)
    /\ UNCHANGED <<stored, aged, commands>>

(***************************************************************************)
(* The record of a visit                                                   *)
(***************************************************************************)

TheOne(S) == CHOOSE c \in S : TRUE

\* resolve_company for a record without a location: the company the connector knows by this
\* external_id, if it is one; else by domain; else by name, if one local company has it.
Resolve(k, r) ==
    LET known == {d \in Company : r.external_id # Null /\ ext[k][d] = r.external_id}
        namesakes == {d \in Local : row[d].val["name"] = r.name}
    IN  IF Cardinality(known) = 1 THEN TheOne(known)
        ELSE IF r.domain # Null THEN TheOne({d \in Company : DomainOf[d] = r.domain})
        ELSE IF Cardinality(namesakes) = 1 THEN TheOne(namesakes) ELSE Null

Incoming(r) ==
    [f \in Field |-> IF f = "name" THEN r.name
                     ELSE IF f \in {"ats_provider", "ats_token"} THEN AtsRow(r.token)[f]
                     ELSE Null]

\* upsert_company_record: an enrich-only record that is nobody's is skipped; any other is
\* merged into the row of its company, which is stamped.  A known external_id is kept if the
\* record has none.
Upsert(k) ==
    /\ run[k] # Null /\ run[k].record # Null
    /\ LET r == run[k].record
           c == Resolve(k, r)
       IN  IF c = Null THEN UNCHANGED <<stored, aged>>
           ELSE /\ row' = [row EXCEPT ![c] = MergeCompanyFields(@, Incoming(r), k)]
                /\ seen' = [seen EXCEPT ![k][c] = Now]
                /\ ext' = [ext EXCEPT ![k][c] = IF r.external_id = Null THEN @
                                                ELSE r.external_id]
                /\ aged' = IF k = Site THEN aged \ {c} ELSE aged
                /\ UNCHANGED enabled
    /\ run' = [run EXCEPT ![k].record = Null]
    /\ UNCHANGED <<commands, faults>>

UpsertFails(k) ==
    /\ run[k] # Null /\ run[k].record # Null /\ Fault
    /\ run' = [run EXCEPT ![k].record = Null]
    /\ UNCHANGED <<stored, aged, commands>>

End(k) ==
    /\ run[k] # Null /\ run[k].todo = {} /\ run[k].record = Null
    /\ run' = [run EXCEPT ![k] = Null]
    /\ UNCHANGED <<stored, aged, commands, faults>>

\* The process is killed, or fetch raises.
Killed(k) ==
    /\ run[k] # Null /\ Fault
    /\ run' = [run EXCEPT ![k] = Null]
    /\ UNCHANGED <<stored, aged, commands>>

\* Days pass: the visits up to one of them are min_revisit_days old.
DaysPass ==
    /\ \E at \in 1 .. Now :
        /\ aged' = {c \in Company : 0 < seen[Site][c] /\ seen[Site][c] <= at}
        /\ aged \subseteq aged' /\ aged # aged'
    /\ UNCHANGED <<stored, run, commands, faults>>

(***************************************************************************)
(* The specification                                                       *)
(***************************************************************************)

\* Companies as other connectors have left them, with no board or with one that is gone.
Init ==
    /\ enabled \in Configured
    /\ row \in [Company -> Row]
    /\ \A c \in Company :
        /\ row[c].val["name"] # Null
        /\ \E b \in Dead \cup {Null} : \A f \in {"ats_provider", "ats_token"} :
            /\ row[c].val[f] = AtsRow(b)[f]
            /\ row[c].prov[f] = IF b = Null THEN Null ELSE IssuedBy[b]
    /\ seen = [k \in Visitor |-> [c \in Company |-> 0]]
    /\ ext = [k \in Visitor |-> [c \in Company |-> Null]]
    /\ aged = {}
    /\ run = [k \in Visitor |-> Null]
    /\ commands = 0 /\ faults = 0

Visit(k) ==
    \/ k = Site /\ run[k] # Null /\ (SiteDone \/ VisitSite \/ NoVisit)
    \/ k \in Ats /\ run[k] # Null /\ (SkipTarget(k) \/ Probe(k) \/ KnownBoard(k))

Work(k) == Visit(k) \/ Upsert(k) \/ End(k)

Next ==
    \/ \E k \in Visitor : Start(k) \/ Work(k) \/ UpsertFails(k) \/ Killed(k)
    \/ DaysPass

Spec == Init /\ [][Next]_vars

\* The scheduler fires every connector again and again, a run goes on, and days pass.
Fairness ==
    /\ \A k \in Visitor : WF_vars(Work(k)) /\ SF_vars(Start(k))
    /\ WF_vars(DaysPass)

FairSpec == Spec /\ Fairness

(***************************************************************************)
(* Properties                                                              *)
(***************************************************************************)

InHand(k, c) == run[k] # Null /\ run[k].record # Null /\ run[k].record.company = c

RecordOf(k, c) ==
    IF k = Site THEN Record(Target(k, c), DomainOf[c], Null)
    ELSE Record(Target(k, c), IdOf(k, PageOf[c]), PageOf[c])

\* Companies whose record goes elsewhere, or nowhere: no visit moves them to the back.
Stray(k) == {c \in Active : Resolve(k, RecordOf(k, c)) # c}

\* Those of them that use up the cap of every run: a board that is known costs nothing.
Stuck(k) == {c \in Stray(k) : k = Site \/ row[c].val["ats_provider"] = Null}

\* Nothing keeps k from coming round to c: its record is resolved to it, no record of another
\* company is, and fewer companies than the cap are at the front without ever leaving it.
Clear(k, c, cap) ==
    /\ c \notin Stray(k)
    /\ \A d \in Stray(k) : Resolve(k, RecordOf(k, d)) # c
    /\ Cardinality(Stuck(k)) < cap

\* company_site comes round to every company whose site answers, again and again, as long as
\* the way is clear ("round-robin the whole database instead of hammering the same first N").
SitesVisited ==
    Site \in enabled =>
        \A c \in {d \in Active \cap Up : HasHome(d)} :
            []<>(InHand(Site, c) \/ ~Clear(Site, c, MaxVisits))

\* Every board that is there and that its company's pages name is read again and again by the
\* connector of its provider, whichever connector discovers it and with whatever budget, as
\* long as the way is clear for all of them.
BoardsRead ==
    Ats \subseteq enabled =>
        \A c \in {d \in Active \cap Up : HasHome(d) /\ PageOf[d] \notin Dead \cup {Null}} :
            LET k == IssuedBy[PageOf[c]]
            IN  []<>(\/ InHand(k, c) /\ run[k].record.token = PageOf[c]
                     \/ \E j \in Ats : ~Clear(j, c, MaxDiscovery))

\* No two companies are known to a connector by one external_id, though the schema has no
\* such constraint and boards are shared: resolve_company's "two matches" never come about.
IdentifiersDistinct ==
    \A k \in Visitor : \A c, d \in Company :
        ext[k][c] # Null /\ ext[k][c] = ext[k][d] => c = d
=============================================================================
