------------------------------- MODULE Regions -------------------------------
(***************************************************************************)
(* The cities companies are placed in, and the metros config/regions.yaml  *)
(* files them under.  Every process reads the file once and keeps what it  *)
(* read (ingest/config.py), so after an edit upserts of an older vintage   *)
(* go on writing its labels, beside sync-regions (cli.py), which goes      *)
(* through the table with the file as it is.                               *)
(*                                                                         *)
(* Cities, sectors and investors are shared by all companies: an upsert    *)
(* (ingest/pipeline.py) keeps what it writes of them locked to its commit, *)
(* and so it does the company it updates and those its merge candidates    *)
(* name.  The links of its company to the rest are that company's alone,   *)
(* and left out.  So is country, written with metro.                       *)
(***************************************************************************)
EXTENDS Integers, FiniteSets, Sequences

CONSTANTS
    Null,
    Process,            \* the scheduler, and commands that ingest
    Metro,              \* labels
    Spelling,           \* what a source or a row calls a city: its name and state
    Folded,             \* spelling -> the same without its casing and padding
    Rank,               \* spelling -> its place in the order of (city, state)
    Company, Shared,    \* companies; sectors and investors
    File,               \* the files somebody may save, readable or not
    Record,             \* what connectors report, with the stored company it resolves to, or
                        \* Null, and the companies its merge candidates name
    Stored,             \* cities of a database that exists: spelling -> metro, or Null
    Batch,              \* REGION_SYNC_BATCH
    MaxEdits, MaxRecords, MaxSweeps     \* bounds

VARIABLES
    file,       \* config/regions.yaml
    loaded,     \* process -> the file it keeps, or Null while it has loaded none
    place,      \* the locations committed: spelling -> [id, metro], or Null
    shared,     \* the sectors and investors committed
    tx,         \* process -> the upsert in progress, or Null
    sweep,      \* the sweep of sync-regions, or Null
    nextId,     \* of the identity column of locations
    left        \* bounds: edits, records and sweeps to come

vars == <<file, loaded, place, shared, tx, sweep, nextId, left>>

\* A location as committed, and as the sweep has read it.
LocationRow == [id : Nat \ {0}, metro : Metro]

SweepType ==
    [file : File, dry : BOOLEAN, pc : {"page", "row", "update", "commit"}, after : Nat,
     page : SUBSET [city : Spelling, row : LocationRow], at : Spelling \cup {Null},
     held : SUBSET ({"location"} \X Spelling), recipe : BOOLEAN]

ASSUME RegionsAssumption ==
    /\ IsFiniteSet(Spelling)
    /\ "sweep" \notin Process
    /\ Shared \cap (Company \cup Spelling) = {}
    /\ Null \notin File \cup Metro \cup LocationRow \cup SweepType
    /\ Folded \in [Spelling -> Spelling] /\ Rank \in [Spelling -> Nat]
    /\ \A s, t \in Spelling : Rank[s] = Rank[t] => s = t
    /\ \A f \in File : f \subseteq
          [metro : Metro, enabled : BOOLEAN, cities : SUBSET [name : Spelling,
                                                               aliases : SUBSET Spelling]]
    /\ \A r \in Record : /\ r.company \in Company \cup {Null}
                         /\ r.candidates \in Seq(Company)
                         /\ r.locations \in Seq([city : Spelling, metro : Metro \cup {Null}])
                         /\ r.sectors \in Seq(Shared) /\ r.investors \in Seq(Shared)
    /\ Stored \in [Spelling -> Metro \cup {Null}]
    /\ Batch \in Nat \ {0}

(***************************************************************************)
(* The file                                                                *)
(***************************************************************************)

Cities(f) == UNION {g.cities : g \in f}

\* RegionsConfig._reject_unsatisfiable_files: one metro a region, one metro a city and one city
\* a spelling, the disabled ones included, and one region enabled.
Valid(f) ==
    /\ \A g, h \in f : g.metro = h.metro => g = h
    /\ \A g, h \in f : \A a \in g.cities, b \in h.cities :
          <<g, a>> # <<h, b>> =>
             /\ Folded[a.name] # Folded[b.name]
             /\ {Folded[s] : s \in a.aliases} \cap {Folded[s] : s \in b.aliases} = {}
    /\ \A a \in Cities(f) : \A s, t \in a.aliases : Folded[s] = Folded[t] => s = t
    /\ \A a, b \in Cities(f) : Folded[a.name] \notin {Folded[s] : s \in b.aliases}
    /\ \E g \in f : g.enabled

\* Whether one of the spellings of a city is s, in whatever casing.
Answers(city, s) == Folded[s] \in {Folded[n] : n \in {city.name} \cup city.aliases}

\* RegionsConfig.lookup: of the enabled regions, the canonical name and the metro of s, or none.
Lookup(f, s) ==
    UNION {{[city |-> a.name, metro |-> g.metro] : a \in {b \in g.cities : Answers(b, s)}} :
              g \in {h \in f : h.enabled}}

(***************************************************************************)
(* What an upsert writes of shared rows                                    *)
(***************************************************************************)

\* Mutant of FillMetros: a metro is filled in only where the connector reports none.
FillMissingMetros(f, locations) ==
    LET Fill(l) == IF Lookup(f, l.city) = {} THEN l
                   ELSE LET c == CHOOSE c \in Lookup(f, l.city) : TRUE
                        IN  IF l.metro = Null THEN c ELSE [c EXCEPT !.metro = l.metro]
    IN  [i \in DOMAIN locations |-> Fill(locations[i])]

\* _fill_metros: the configured name and metro of a configured city, whatever the connector
\* calls them; elsewhere the connector's own metro, and without one the location is dropped
\* (it stays here with Null, and Firsts passes it over).
FillMetros(f, locations) ==
    LET Fill(l) == IF Lookup(f, l.city) = {} THEN l
                   ELSE CHOOSE c \in Lookup(f, l.city) : TRUE
    IN  [i \in DOMAIN locations |-> Fill(locations[i])]

\* The first location of each city, of those that have a metro.
Firsts(locations) ==
    LET placed == {i \in DOMAIN locations : locations[i].metro # Null}
    IN  {i \in placed : \A j \in placed : j < i => locations[j].city # locations[i].city}

\* sorted: an element has as many before it as there are smaller ones.
Sorted(S, key) ==
    [i \in 1 .. Cardinality(S) |->
        CHOOSE x \in S : Cardinality({y \in S : key[y] < key[x]}) = i - 1]

\* Mutant of LockOrder: in the order of the record.
RecordOrder(locations) ==
    LET order == Sorted(Firsts(locations), [i \in Firsts(locations) |-> i])
    IN  [k \in DOMAIN order |-> locations[order[k]]]

\* _upsert_locations: one row a city, in the order of (city, state).
LockOrder(locations) ==
    LET rows == {locations[i] : i \in Firsts(locations)}
    IN  Sorted(rows, [l \in rows |-> Rank[l.city]])

\* The rows of others' that upsert_company_record locks or inserts for a record, in its order.  A
\* stored company is locked first, and with it one that owns the domain reported; a new one is
\* nobody else's yet, and what resembles it is named last.  In between come the cities, then
\* sectors and investors as the record has them.
Plan(f, r) ==
    LET locations == LockOrder(FillMetros(f, r.locations))
        names == r.sectors \o r.investors
        company == <<[kind |-> "company", key |-> r.company, metro |-> Null]>>
        cities == [i \in DOMAIN locations |-> [kind |-> "location", key |-> locations[i].city,
                                               metro |-> locations[i].metro]]
        shares == [i \in DOMAIN names |-> [kind |-> "shared", key |-> names[i], metro |-> Null]]
        pairs == [i \in DOMAIN r.candidates |->
                     [kind |-> "candidate", key |-> r.candidates[i], metro |-> Null]]
    IN  IF r.company = Null THEN cities \o (shares \o pairs)
        ELSE company \o (pairs \o (cities \o shares))

(***************************************************************************)
(* Locks                                                                   *)
(***************************************************************************)

Agent == Process \cup {"sweep"}

Held(a) == IF a = "sweep" THEN IF sweep = Null THEN {} ELSE sweep.held
           ELSE IF tx[a] = Null THEN {} ELSE tx[a].held

\* What the next statement of a locks; of a sector or investor that is committed, nothing.
Wanted(a) ==
    IF a = "sweep"
    THEN IF sweep = Null \/ sweep.pc # "update" THEN {} ELSE {<<"location", sweep.at>>}
    ELSE IF tx[a] = Null \/ tx[a].todo = <<>> THEN {}
    ELSE LET item == Head(tx[a].todo)
         IN  IF item.key \in shared THEN {} ELSE {<<item.kind, item.key>>}

\* Two locks of a row, or two inserts of one, exclude each other, but for the KEY SHARE locks of
\* foreign keys, which only a company's FOR UPDATE excludes.
Conflict(v, w) ==
    /\ v[2] = w[2]
    /\ \/ v[1] = w[1] /\ v[1] # "candidate"
       \/ {v[1], w[1]} = {"company", "candidate"}

WaitsFor(a) == {b \in Agent \ {a} : \E v \in Wanted(a) : \E w \in Held(b) : Conflict(v, w)}

(***************************************************************************)
(* The processes that ingest                                               *)
(***************************************************************************)

\* Somebody saves the file.
Edit(f) ==
    /\ left.edits > 0 /\ f # file
    /\ file' = f /\ left' = [left EXCEPT !.edits = @ - 1]
    /\ sweep' = IF sweep = Null THEN Null ELSE [sweep EXCEPT !.recipe = FALSE]
    /\ UNCHANGED <<loaded, place, shared, tx, nextId>>

\* load_regions_config, by its first caller in the process; a file that does not validate ends
\* the command or the run, with nothing loaded.
Load(p) ==
    /\ loaded[p] = Null /\ Valid(file)
    /\ loaded' = [loaded EXCEPT ![p] = file]
    /\ UNCHANGED <<file, place, shared, tx, sweep, nextId, left>>

\* The process ends, is restarted or is killed; an upsert in progress is rolled back.
Stop(p) ==
    /\ loaded[p] # Null
    /\ loaded' = [loaded EXCEPT ![p] = Null] /\ tx' = [tx EXCEPT ![p] = Null]
    /\ UNCHANGED <<file, place, shared, sweep, nextId, left>>

BeginRecord(p, r) ==
    /\ loaded[p] # Null /\ tx[p] = Null /\ left.records > 0
    /\ tx' = [tx EXCEPT ![p] = [todo |-> Plan(loaded[p], r), held |-> {}, places |-> {}]]
    /\ left' = [left EXCEPT !.records = @ - 1]
    /\ UNCHANGED <<file, loaded, place, shared, sweep, nextId>>

\* The next statement of p is about a row of this kind, and it waits for nobody.
Gets(p, kind) ==
    /\ tx[p] # Null /\ tx[p].todo # <<>> /\ Head(tx[p].todo).kind = kind
    /\ WaitsFor(p) = {}

Done(p) == [tx EXCEPT ![p].todo = Tail(@), ![p].held = @ \cup Wanted(p)]

\* _update_company: SELECT ... FOR UPDATE.
LockCompany(p) ==
    /\ Gets(p, "company")
    /\ tx' = Done(p)
    /\ UNCHANGED <<file, loaded, place, shared, sweep, nextId, left>>

\* _record_domain_conflict, record_merge_candidates: the foreign keys of the row inserted.
ShareCandidate(p) ==
    /\ Gets(p, "candidate")
    /\ tx' = Done(p)
    /\ UNCHANGED <<file, loaded, place, shared, sweep, nextId, left>>

\* INSERT ... ON CONFLICT (city, state) DO UPDATE SET metro: only a new row has a new id.
WriteLocation(p) ==
    /\ Gets(p, "location")
    /\ LET l == Head(tx[p].todo)
           isNew == place[l.key] = Null
           row == [city |-> l.key, metro |-> l.metro,
                   id |-> IF isNew THEN nextId ELSE place[l.key].id]
       IN  /\ tx' = [Done(p) EXCEPT ![p].places = @ \cup {row}]
           /\ nextId' = IF isNew THEN nextId + 1 ELSE nextId
    /\ UNCHANGED <<file, loaded, place, shared, sweep, left>>

\* INSERT ... ON CONFLICT DO NOTHING, and the SELECT of a row that is there.
GetOrCreate(p) ==
    /\ Gets(p, "shared")
    /\ tx' = Done(p)
    /\ UNCHANGED <<file, loaded, place, shared, sweep, nextId, left>>

Commit(p) ==
    /\ tx[p] # Null /\ tx[p].todo = <<>>
    /\ place' = [s \in Spelling |->
                    IF \E row \in tx[p].places : row.city = s
                    THEN LET row == CHOOSE row \in tx[p].places : row.city = s
                         IN  [id |-> row.id, metro |-> row.metro]
                    ELSE place[s]]
    /\ shared' = shared \cup {n \in Shared : <<"shared", n>> \in tx[p].held}
    /\ tx' = [tx EXCEPT ![p] = Null]
    /\ UNCHANGED <<file, loaded, sweep, nextId, left>>

\* A statement of the upsert fails, that of a deadlock's victim too: the run goes on.
RecordFails(p) ==
    /\ tx[p] # Null /\ tx[p].held # {}
    /\ tx' = [tx EXCEPT ![p] = Null]
    /\ UNCHANGED <<file, loaded, place, shared, sweep, nextId, left>>

(***************************************************************************)
(* The sweep                                                               *)
(***************************************************************************)

Running == {loaded[p] : p \in {q \in Process : loaded[q] # Null}}

\* sync_regions_once, in a process of its own.  That the README's recipe is followed (the
\* scheduler restarted before, no other vintage running, no edit since) is history of the model.
StartSweep(dry) ==
    /\ sweep = Null /\ left.sweeps > 0 /\ Valid(file)
    /\ sweep' = [file |-> file, dry |-> dry, pc |-> "page", after |-> 0, page |-> {},
                 at |-> Null, held |-> {}, recipe |-> Running \subseteq {file}]
    /\ left' = [left EXCEPT !.sweeps = @ - 1]
    /\ UNCHANGED <<file, loaded, place, shared, tx, nextId>>

Beyond == {s \in Spelling : place[s] # Null /\ place[s].id > sweep.after}
Page == {s \in Beyond : Cardinality({t \in Beyond : place[t].id < place[s].id}) < Batch}
LastId(S) == CHOOSE i \in {place[s].id : s \in S} : \A s \in S : place[s].id <= i

\* Mutant of ReadPage: the position moves past the whole table.
ReadPageOnce ==
    /\ sweep # Null /\ sweep.pc = "page" /\ Beyond # {}
    /\ sweep' = [sweep EXCEPT !.page = {[city |-> s, row |-> place[s]] : s \in Page},
                              !.after = LastId(Beyond), !.pc = "row"]
    /\ UNCHANGED <<file, loaded, place, shared, tx, nextId, left>>

\* SELECT ... ORDER BY id LIMIT batch_size: the labels compared are those of this moment.
ReadPage ==
    /\ sweep # Null /\ sweep.pc = "page" /\ Beyond # {}
    /\ sweep' = [sweep EXCEPT !.page = {[city |-> s, row |-> place[s]] : s \in Page},
                              !.after = LastId(Page), !.pc = "row"]
    /\ UNCHANGED <<file, loaded, place, shared, tx, nextId, left>>

Differs(r) == \E c \in Lookup(sweep.file, r.city) : c.metro # r.row.metro

\* The next row of the page: unconfigured, in sync or of a dry run, it is passed.
NextRow(r) ==
    /\ sweep # Null /\ sweep.pc = "row" /\ r \in sweep.page
    /\ \A q \in sweep.page : r.row.id <= q.row.id
    /\ sweep' = [sweep EXCEPT !.page = @ \ {r},
                              !.pc = IF Differs(r) /\ ~sweep.dry THEN "update" ELSE "row",
                              !.at = IF Differs(r) /\ ~sweep.dry THEN r.city ELSE Null]
    /\ UNCHANGED <<file, loaded, place, shared, tx, nextId, left>>

\* UPDATE locations, which waits for an upsert that has written the row.
UpdateRow ==
    /\ sweep # Null /\ sweep.pc = "update" /\ WaitsFor("sweep") = {}
    /\ sweep' = [sweep EXCEPT !.held = @ \cup Wanted("sweep"), !.pc = "commit"]
    /\ UNCHANGED <<file, loaded, place, shared, tx, nextId, left>>

CommitRow ==
    /\ sweep # Null /\ sweep.pc = "commit"
    /\ LET c == CHOOSE c \in Lookup(sweep.file, sweep.at) : TRUE
       IN  place' = [place EXCEPT ![sweep.at].metro = c.metro]
    /\ sweep' = [sweep EXCEPT !.held = {}, !.pc = "row", !.at = Null]
    /\ UNCHANGED <<file, loaded, shared, tx, nextId, left>>

PageDone ==
    /\ sweep # Null /\ sweep.pc = "row" /\ sweep.page = {}
    /\ sweep' = [sweep EXCEPT !.pc = "page"]
    /\ UNCHANGED <<file, loaded, place, shared, tx, nextId, left>>

SweepDone ==
    /\ sweep # Null /\ sweep.pc = "page" /\ Beyond = {}
    /\ sweep' = Null
    /\ UNCHANGED <<file, loaded, place, shared, tx, nextId, left>>

\* An interrupt, or a statement that fails: rows already committed stay.
SweepStops ==
    /\ sweep # Null /\ sweep.pc # "page"
    /\ sweep' = Null
    /\ UNCHANGED <<file, loaded, place, shared, tx, nextId, left>>

(***************************************************************************)
(* The specification                                                       *)
(***************************************************************************)

Numbered(rows) == [s \in Spelling |->
    IF rows[s] = Null THEN Null
    ELSE [id |-> 1 + Cardinality({t \in Spelling : rows[t] # Null /\ Rank[t] < Rank[s]}),
          metro |-> rows[s]]]

Init ==
    /\ file \in {f \in File : Valid(f)}
    /\ loaded \in [Process -> {Null, file}]
    /\ place = Numbered(Stored)
    /\ shared = {} /\ tx = [p \in Process |-> Null] /\ sweep = Null
    /\ nextId = 1 + Cardinality({s \in Spelling : Stored[s] # Null})
    /\ left = [edits |-> MaxEdits, records |-> MaxRecords, sweeps |-> MaxSweeps]

Ingest(p) ==
    \/ Load(p) \/ Stop(p)
    \/ \E r \in Record : BeginRecord(p, r)
    \/ LockCompany(p) \/ ShareCandidate(p) \/ WriteLocation(p) \/ GetOrCreate(p)
    \/ Commit(p) \/ RecordFails(p)

Sweep ==
    \/ \E dry \in BOOLEAN : StartSweep(dry)
    \/ ReadPage \/ UpdateRow \/ CommitRow \/ PageDone \/ SweepDone \/ SweepStops
    \/ sweep # Null /\ \E r \in sweep.page : NextRow(r)

Next == (\E f \in File : Edit(f)) \/ (\E p \in Process : Ingest(p)) \/ Sweep

Spec == Init /\ [][Next]_vars

(***************************************************************************)
(* Properties                                                              *)
(***************************************************************************)

\* Everyone in S waits for one of S, and for each of S one of S waits.
Cycle(S) == \A a \in S : /\ S \cap WaitsFor(a) # {}
                         /\ \E b \in S : a \in WaitsFor(b)

\* Cities alone never deadlock, whatever order records list them in and whatever sync-regions
\* relabels meanwhile: upserts take cities in one order, and the sweep, which commits one before
\* the next, is in no cycle of waits.  In every cycle somebody waits for what upserts do not sort:
\* a sector or an investor not stored yet, or a company that its merge candidate names.
CitiesAloneNeverDeadlock ==
    \A S \in (SUBSET Agent) \ {{}} :
        Cycle(S) => /\ "sweep" \notin S
                    /\ \E a \in S : \E w \in Wanted(a) : w[1] \in {"shared", "candidate"}

\* The metro the file gives a stored city, or the one it has: one a region switched off or no
\* region claims is left as ingested.
Right(s) ==
    \A g \in file : \A a \in g.cities :
        place[s] # Null /\ g.enabled /\ Answers(a, s) => place[s].metro = g.metro

\* Once nobody runs with another vintage of the file, a city whose label is right stays right
\* until the next edit, whatever upserts and sweeps are in the middle of (_upsert_locations:
\* "It converges rather than corrupts").
LabelsSettle ==
    [][Valid(file) /\ Running \cup (IF sweep = Null THEN {} ELSE {sweep.file}) \subseteq {file}
         => \A s \in Spelling : Right(s) => Right(s)' \/ file' # file]_vars

\* The recipe of the README: scheduler restarted, then a sweep to its end.  After it every
\* stored city is labelled as the file says, those inserted or moved meanwhile included.
RecipeReachesAll ==
    [][sweep # Null /\ sweep' = Null /\ sweep.pc = "page" /\ sweep.recipe /\ ~sweep.dry
         => \A s \in Spelling : Right(s)]_vars
=============================================================================
