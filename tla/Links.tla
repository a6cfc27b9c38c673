-------------------------------- MODULE Links --------------------------------
(***************************************************************************)
(* What a company can be reached by: the contacts its own pages publish,   *)
(* and the two LinkedIn links constructed from its name and domain         *)
(* (ingest/pipeline.py).  They are written by upserts, by merges, which    *)
(* move the contacts, people and sources of one company to another         *)
(* (db/queries.py), and by the sweep of sync-contacts, which goes through  *)
(* the whole table page by page while the others run.                      *)
(*                                                                         *)
(* Each of these transactions holds the row lock of its company from its   *)
(* first read to its commit; that a transaction is seen by others as one   *)
(* step rests on it.  Which company a record is resolved to is the subject *)
(* of Resolution: here it is any.                                          *)
(***************************************************************************)
EXTENDS Integers, FiniteSets

CONSTANTS
    Null,
    Company,            \* ids, in the order of insertion
    Name, Blank,        \* names; Blank is one of white space
    Domain,
    LinkOf, SearchOf,   \* domain -> constructed company URL; name -> people search
    Account,            \* URLs of accounts a site may publish
    Connector,          \* connectors, and
    ExternalId,         \* their identifiers of companies
    Person, Title,      \* full names and titles
    Record,             \* the records the connectors report
    Batch,              \* CONTACT_SYNC_BATCH
    Drift,              \* bound: what contacts a database of an earlier phase may hold
    MaxRecords, MaxMerges, MaxSweeps    \* bounds

VARIABLES
    company,        \* id -> [name, domain], or Null
    contact,        \* id -> <<kind, value>> -> "none", "constructed" or "published"
    person,         \* id -> full_name and title, NULL folded, -> whether there is a row
    source,         \* id -> connector -> "none", Null or an external_id
    lock,           \* id -> the transaction that has its row FOR UPDATE, or Null
    upsert,         \* the upsert in progress, or Null
    merge,          \* the merge in progress, or Null
    sweep,          \* the sweep of sync-contacts, or Null
    lost,           \* external ids of the last merge that were printed (sources_discarded)
    left            \* bounds: records, merges and sweeps to come

tables == <<company, contact, person, source>>
vars == <<company, contact, person, source, lock, upsert, merge, sweep, lost, left>>

Key ==
    {<<"linkedin_company", a>> : a \in Account \cup {LinkOf[d] : d \in Domain}}
    \cup {<<"linkedin_people", SearchOf[n]>> : n \in Name}
Confidence == {"none", "constructed", "published"}
Nobody == [p \in Person \X (Title \cup {Null}) |-> FALSE]
Unseen == [k \in Connector |-> "none"]
NoContact == [k \in Key |-> "none"]
Row == [name : Name, domain : Domain \cup {Null}]
Sweeping == [after : {0} \cup Company, page : SUBSET Company, read : Row \cup {Null},
             dry : BOOLEAN, pc : {"page", "company", "write"}]

ASSUME LinksAssumption ==
    /\ Company \subseteq Nat \ {0}
    /\ Blank \in Name /\ LinkOf \in [Domain -> Account] /\ DOMAIN SearchOf = Name
    /\ Null \notin Domain \cup Company \cup Account \cup ExternalId
    /\ Null \notin Row /\ Null \notin Sweeping
    /\ Null \notin {"none", "upsert", "merge", "sweep"} /\ "none" \notin ExternalId
    /\ Record \subseteq [connector : Connector, external_id : ExternalId \cup {Null},
                         name : Name, domain : Domain \cup {Null},
                         published : SUBSET Key, people : SUBSET DOMAIN Nobody]
    /\ Drift \subseteq [Key -> {"none", "constructed"}]
    /\ Batch \in Nat \ {0}

Free(c) == lock[c] = Null
Released(t) == [c \in Company |-> IF lock[c] = t THEN Null ELSE lock[c]]

(***************************************************************************)
(* The constructed links of one company                                    *)
(***************************************************************************)

Published(t, kind) == \E k \in Key : k[1] = kind /\ t[k] = "published"

\* The rows of one kind once value is constructed and other constructed values are dropped:
\* _insert_constructed_contact (ON CONFLICT DO NOTHING), _drop_superseded_constructed.
Rebuilt(t, kind, value) ==
    [k \in Key |->
        IF k[1] # kind THEN t[k]
        ELSE IF k[2] = value THEN IF t[k] = "none" THEN "constructed" ELSE t[k]
        ELSE IF t[k] = "constructed" THEN "none" ELSE t[k]]

\* _ensure_constructed_contacts.  Without a published company page and without a domain there
\* is nothing better than what is there.
Reconciled(t, name, domain) ==
    LET u == IF Published(t, "linkedin_company")
                THEN Rebuilt(t, "linkedin_company", Null)
             ELSE IF domain # Null
                THEN Rebuilt(t, "linkedin_company", LinkOf[domain])
             ELSE t
    IN  IF name = Blank THEN u ELSE Rebuilt(u, "linkedin_people", SearchOf[name])

(***************************************************************************)
(* An upsert                                                               *)
(***************************************************************************)

DomainTaken(d, c) == \E e \in Company \ {c} : company[e] # Null /\ company[e].domain = d

\* The row after the merge of a record: whether the name may be overwritten is FieldMerge's; a
\* domain is written once, and never one of another company.
Updated(row, r, c) ==
    {[name |-> n, domain |-> IF row.domain # Null \/ r.domain = Null \/ DomainTaken(r.domain, c)
                             THEN row.domain ELSE r.domain] : n \in {row.name, r.name}}

\* _upsert_contacts, with the contacts of the page.
WithPublished(t, r) == [k \in Key |-> IF k \in r.published THEN "published" ELSE t[k]]

\* _upsert_people: who is stored by that name, under any title, takes the title reported; of
\* several of one name the oldest, which the model leaves open, does.
WithPeople(t, r) ==
    {u \in [DOMAIN Nobody -> BOOLEAN] :
        \A n \in Person :
            LET reported == {p[2] : p \in {q \in r.people : q[1] = n}}
                stored == {p[2] : p \in {q \in DOMAIN Nobody : q[1] = n /\ t[q]}}
                now == {p[2] : p \in {q \in DOMAIN Nobody : q[1] = n /\ u[q]}}
            IN  IF reported = {} THEN now = stored
                ELSE IF stored = {} THEN now = reported
                ELSE IF reported = {Null} THEN now = stored
                ELSE \E s \in stored : now = (stored \ {s}) \cup (reported \ {Null})}

WithSource(t, r) ==
    [t EXCEPT ![r.connector] = IF r.external_id # Null THEN r.external_id
                               ELSE IF @ = "none" THEN Null ELSE @]

\* _update_company: SELECT ... FOR UPDATE.
LockCompany(c, r) ==
    /\ upsert = Null /\ left.records > 0
    /\ company[c] # Null /\ Free(c)
    /\ lock' = [lock EXCEPT ![c] = "upsert"]
    /\ upsert' = [company |-> c, record |-> r]
    /\ left' = [left EXCEPT !.records = @ - 1]
    /\ UNCHANGED <<tables, merge, sweep, lost>>

\* The rest of the upsert, to its commit: the name and domain just written are read back.
CommitUpsert ==
    /\ upsert # Null
    /\ LET c == upsert.company
           r == upsert.record
       IN  /\ \E row \in Updated(company[c], r, c) :
                /\ company' = [company EXCEPT ![c] = row]
                /\ contact' = [contact EXCEPT
                                 ![c] = Reconciled(WithPublished(@, r), row.name, row.domain)]
           /\ \E t \in WithPeople(person[c], r) : person' = [person EXCEPT ![c] = t]
           /\ source' = [source EXCEPT ![c] = WithSource(@, r)]
    /\ lock' = Released("upsert") /\ upsert' = Null
    /\ UNCHANGED <<merge, sweep, lost, left>>

\* A record of a company not known yet: nobody sees the row before the commit.
InsertCompany(c, r) ==
    /\ upsert = Null /\ left.records > 0
    /\ company[c] = Null /\ \A e \in Company : e > c => company[e] = Null /\ e \notin left.used
    /\ c \notin left.used
    /\ r.domain # Null => ~DomainTaken(r.domain, c)
    /\ company' = [company EXCEPT ![c] = [name |-> r.name, domain |-> r.domain]]
    /\ contact' = [contact EXCEPT ![c] = Reconciled(WithPublished(NoContact, r), r.name, r.domain)]
    /\ person' = [person EXCEPT ![c] = [p \in DOMAIN Nobody |-> p \in r.people]]
    /\ source' = [source EXCEPT ![c] = WithSource(Unseen, r)]
    /\ left' = [left EXCEPT !.records = @ - 1, !.used = @ \cup {c}]
    /\ UNCHANGED <<lock, upsert, merge, sweep, lost>>

UpsertFails ==
    /\ upsert # Null
    /\ lock' = Released("upsert") /\ upsert' = Null
    /\ UNCHANGED <<tables, merge, sweep, lost, left>>

(***************************************************************************)
(* A merge                                                                 *)
(***************************************************************************)

\* _move_guarded: a row moves unless the survivor has one for the same key.
MoveGuarded(keep, drop) == [k \in DOMAIN keep |-> IF keep[k] = "none" THEN drop[k] ELSE keep[k]]

\* Mutant of Promoted: the survivor's own row stands as it is.
NotPromoted(keep, drop) == keep

\* _promote_colliding_contacts: an observation is not given up for a guess.
Promoted(keep, drop) ==
    [k \in DOMAIN keep |-> IF keep[k] = "constructed" /\ drop[k] = "published" THEN "published"
                           ELSE keep[k]]

\* _dedupe_people, after all of them have moved: only identical rows are one.
Deduped(keep, drop) == [p \in DOMAIN keep |-> keep[p] \/ drop[p]]

\* Mutant of Adopted: the discarded company's id replaces the survivor's.
AdoptedAlways(keep, drop) ==
    [k \in DOMAIN keep |-> IF keep[k] # "none" /\ drop[k] \in ExternalId THEN drop[k] ELSE keep[k]]

\* _adopt_source_external_ids: only an id the survivor does not have.
Adopted(keep, drop) ==
    [k \in DOMAIN keep |-> IF keep[k] = Null /\ drop[k] \in ExternalId THEN drop[k] ELSE keep[k]]

\* _stranded_source_external_ids, after the move and the adoption.
Stranded(keep, drop) ==
    {<<k, drop[k]>> : k \in {j \in Connector : drop[j] \in ExternalId /\ keep[j] # drop[j]}}

\* merge_companies: SELECT ... FOR UPDATE of both, in the order of their ids.
LockPair(keep, drop) ==
    /\ merge = Null /\ left.merges > 0
    /\ keep # drop /\ company[keep] # Null /\ company[drop] # Null
    /\ Free(keep) /\ Free(drop)
    /\ lock' = [lock EXCEPT ![keep] = "merge", ![drop] = "merge"]
    /\ merge' = [keep |-> keep, drop |-> drop]
    /\ left' = [left EXCEPT !.merges = @ - 1]
    /\ UNCHANGED <<tables, upsert, sweep, lost>>

\* The children move, the row goes, the survivor's NULL domain is filled, its links are
\* reconciled in the same transaction (merge_review_once), and it commits.
CommitMerge ==
    /\ merge # Null
    /\ LET keep == merge.keep
           drop == merge.drop
           moved == MoveGuarded(source[keep], source[drop])
           sources == Adopted(moved, source[drop])
           row == [company[keep] EXCEPT !.domain = IF @ = Null THEN company[drop].domain ELSE @]
           contacts == MoveGuarded(Promoted(contact[keep], contact[drop]), contact[drop])
       IN  /\ company' = [company EXCEPT ![keep] = row, ![drop] = Null]
           /\ contact' = [contact EXCEPT ![keep] = Reconciled(contacts, row.name, row.domain),
                                         ![drop] = NoContact]
           /\ person' = [person EXCEPT ![keep] = Deduped(@, person[drop]), ![drop] = Nobody]
           /\ source' = [source EXCEPT ![keep] = sources, ![drop] = Unseen]
           /\ lost' = Stranded(sources, source[drop])
    /\ lock' = Released("merge") /\ merge' = Null
    /\ UNCHANGED <<upsert, sweep, left>>

\* A statement of the merge fails, or the process is killed.
MergeFails ==
    /\ merge # Null
    /\ lock' = Released("merge") /\ merge' = Null
    /\ UNCHANGED <<tables, upsert, sweep, lost, left>>

(***************************************************************************)
(* The sweep                                                               *)
(***************************************************************************)

\* sync_constructed_contacts; dry_run rolls every company back.
StartSweep(dry) ==
    /\ sweep = Null /\ left.sweeps > 0
    /\ sweep' = [after |-> 0, page |-> {}, read |-> Null, dry |-> dry, pc |-> "page"]
    /\ left' = [left EXCEPT !.sweeps = @ - 1]
    /\ UNCHANGED <<tables, lock, upsert, merge, lost>>

Beyond == {c \in Company : company[c] # Null /\ c > sweep.after}
Last(S) == CHOOSE c \in S : \A d \in S : d <= c

\* Mutant of ReadPage: the position moves past the whole table.
ReadPageOnce ==
    /\ sweep # Null /\ sweep.pc = "page" /\ Beyond # {}
    /\ LET page == {c \in Beyond : Cardinality({d \in Beyond : d < c}) < Batch}
       IN  sweep' = [sweep EXCEPT !.page = page, !.after = Last(Beyond), !.pc = "company"]
    /\ UNCHANGED <<tables, lock, upsert, merge, lost, left>>

\* SELECT id ... ORDER BY id LIMIT batch_size.
ReadPage ==
    /\ sweep # Null /\ sweep.pc = "page" /\ Beyond # {}
    /\ LET page == {c \in Beyond : Cardinality({d \in Beyond : d < c}) < Batch}
       IN  sweep' = [sweep EXCEPT !.page = page, !.after = Last(page), !.pc = "company"]
    /\ UNCHANGED <<tables, lock, upsert, merge, lost, left>>

NextOf(c) == /\ sweep # Null /\ sweep.pc = "company" /\ c \in sweep.page
             /\ \A d \in sweep.page : c <= d

\* A company merged away since its page was read.
PassGone(c) ==
    /\ NextOf(c) /\ company[c] = Null
    /\ sweep' = [sweep EXCEPT !.page = @ \ {c}]
    /\ UNCHANGED <<tables, lock, upsert, merge, lost, left>>

\* Mutant of ReadCompany: without FOR UPDATE.
ReadCompanyUnlocked(c) ==
    /\ NextOf(c) /\ company[c] # Null
    /\ sweep' = [sweep EXCEPT !.read = company[c], !.pc = "write"]
    /\ UNCHANGED <<tables, lock, upsert, merge, lost, left>>

\* SELECT name, domain ... FOR UPDATE.
ReadCompany(c) ==
    /\ NextOf(c) /\ company[c] # Null /\ Free(c)
    /\ lock' = [lock EXCEPT ![c] = "sweep"]
    /\ sweep' = [sweep EXCEPT !.read = company[c], !.pc = "write"]
    /\ UNCHANGED <<tables, upsert, merge, lost, left>>

\* The links are written from what was read, and committed, or rolled back.
WriteLinks ==
    /\ sweep # Null /\ sweep.pc = "write"
    /\ LET c == CHOOSE d \in sweep.page : \A e \in sweep.page : d <= e
       IN  /\ contact' = IF sweep.dry THEN contact
                         ELSE [contact EXCEPT
                                 ![c] = Reconciled(@, sweep.read.name, sweep.read.domain)]
           /\ sweep' = [sweep EXCEPT !.page = @ \ {c}, !.read = Null, !.pc = "company"]
    /\ lock' = Released("sweep")
    /\ UNCHANGED <<company, person, source, upsert, merge, lost, left>>

PageDone ==
    /\ sweep # Null /\ sweep.pc = "company" /\ sweep.page = {}
    /\ sweep' = [sweep EXCEPT !.pc = "page"]
    /\ UNCHANGED <<tables, lock, upsert, merge, lost, left>>

\* No id beyond the last page.
SweepDone ==
    /\ sweep # Null /\ sweep.pc = "page" /\ Beyond = {}
    /\ sweep' = Null
    /\ UNCHANGED <<tables, lock, upsert, merge, lost, left>>

\* An interrupt: what is committed stays.
SweepKilled ==
    /\ sweep # Null /\ sweep.pc \in {"company", "write"}
    /\ sweep' = Null /\ lock' = Released("sweep")
    /\ UNCHANGED <<tables, upsert, merge, lost, left>>

(***************************************************************************)
(* The specification                                                       *)
(***************************************************************************)

\* Companies of an earlier phase: with some constructed links, the wrong ones, or none.
Init ==
    /\ company \in [Company -> {Null} \cup Row]
    /\ \A c, d \in Company : c < d /\ company[c] = Null => company[d] = Null
    /\ \A c, d \in Company : /\ c # d /\ company[c] # Null /\ company[d] # Null
                             /\ company[c].domain # Null
                             => company[c].domain # company[d].domain
    /\ contact \in [Company -> {NoContact} \cup Drift]
    /\ \A c \in Company : company[c] = Null => contact[c] = NoContact
    /\ person = [c \in Company |-> Nobody]
    /\ source = [c \in Company |-> Unseen]
    /\ lock = [c \in Company |-> Null]
    /\ upsert = Null /\ merge = Null /\ sweep = Null /\ lost = {}
    /\ left = [records |-> MaxRecords, merges |-> MaxMerges, sweeps |-> MaxSweeps,
               used |-> {c \in Company : company[c] # Null}]

Ingest ==
    \/ \E c \in Company, r \in Record : LockCompany(c, r) \/ InsertCompany(c, r)
    \/ CommitUpsert \/ UpsertFails

Review == (\E keep, drop \in Company : LockPair(keep, drop)) \/ CommitMerge \/ MergeFails

Sweep ==
    \/ \E dry \in BOOLEAN : StartSweep(dry)
    \/ ReadPage \/ WriteLinks \/ PageDone \/ SweepDone \/ SweepKilled
    \/ \E c \in Company : PassGone(c) \/ ReadCompany(c)

Next == Ingest \/ Review \/ Sweep

Spec == Init /\ [][Next]_vars

(***************************************************************************)
(* Properties                                                              *)
(***************************************************************************)

Built(t, kind) == {k[2] : k \in {j \in Key : j[1] = kind /\ t[j] = "constructed"}}

\* The constructed links of a company are what its name and domain now give: no company page
\* beside a published one, none of another domain, and one people search.
Matching(row, t) ==
    /\ IF Published(t, "linkedin_company") THEN Built(t, "linkedin_company") = {}
       ELSE row.domain # Null => Built(t, "linkedin_company") = {LinkOf[row.domain]}
    /\ row.name # Blank =>
          LET search == SearchOf[row.name]
          IN  Built(t, "linkedin_people") =
                IF t[<<"linkedin_people", search>>] = "published" THEN {} ELSE {search}

Right(c) == company[c] # Null => Matching(company[c], contact[c])

\* Once its links are right they are right in every committed state, whatever upserts, merges
\* and sweeps run at once ("the company pointing at somebody else's LinkedIn page").
LinksStayRight == [][\A c \in Company : company[c] # Null /\ Right(c) => Right(c)']_vars

\* A sweep that is not dry and comes to its end leaves every company right, those inserted,
\* renamed and merged into while it ran included.
SweepReachesAll ==
    [][sweep # Null /\ sweep' = Null /\ sweep.pc = "page" /\ ~sweep.dry
         => \A c \in Company : Right(c)]_vars

\* An observation is never deleted and never becomes a guess: a published contact stays
\* published on its company, or on the one that company has been merged into.
PublishedKept ==
    [][\A c \in Company, k \in Key :
          contact[c][k] = "published" =>
             \/ contact'[c][k] = "published"
             \/ merge # Null /\ c = merge.drop /\ contact'[merge.keep][k] = "published"]_vars

\* A merge gives up nothing but what it prints: every person of either company is one of the
\* survivor, and so is every external id by which a connector knows either, or it is printed.
MergeLosesNothing ==
    [][\A c \in Company :
          merge # Null /\ company[merge.drop] # Null /\ company'[merge.drop] = Null
            /\ c \in {merge.keep, merge.drop}
          => /\ \A p \in DOMAIN Nobody : person[c][p] => person'[merge.keep][p]
             /\ \A k \in Connector : source[c][k] \in ExternalId =>
                    \/ source'[merge.keep][k] = source[c][k]
                    \/ <<k, source[c][k]>> \in lost']_vars
=============================================================================
