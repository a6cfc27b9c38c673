-------------------------- MODULE ResolutionProofs --------------------------
(***************************************************************************)
(* Proofs about Resolution for every set of runs, feeds, connectors,       *)
(* priorities and values.  ResolutionInv is inductive: the types hold and  *)
(* no record is lost to the unique index on companies.domain.  On it rest  *)
(* the rest: no interleaving of upserts and merges lowers the authority of *)
(* a field or changes a stored domain, verdicts are final, upserts never   *)
(* wait for one another in a cycle, and no conflict over a domain is       *)
(* forgotten.                                                              *)
(***************************************************************************)
EXTENDS Resolution, TLAPS

(***************************************************************************)
(* The priority merge                                                      *)
(***************************************************************************)

\* merge_company_fields returns a row.
LEMMA MergeType ==
    ASSUME NEW row \in Row, NEW inc \in [Field -> OptValue], NEW c \in Connector
    PROVE  MergeCompanyFields(row, inc, c) \in Row
<1> DEFINE W == Writable(row, inc, c)
<1>1. [f \in Field |-> IF f \in W THEN inc[f] ELSE row.val[f]] \in [Field -> OptValue]
  BY DEF Row
<1>2. [f \in Field |-> IF f \in W THEN c ELSE row.prov[f]] \in [Field -> Connector \cup {Null}]
  BY DEF Row
<1> QED BY <1>1, <1>2, Zenon DEF MergeCompanyFields, Row

\* It writes the domain only where the row has none, and then the record's.
LEMMA MergeDomain ==
    ASSUME NEW row \in Row, NEW inc \in [Field -> OptValue], NEW c \in Connector
    PROVE  LET d == MergeCompanyFields(row, inc, c).val["domain"] IN
           \/ d = row.val["domain"]
           \/ row.val["domain"] = Null /\ d = inc["domain"] /\ d # Null
BY FieldMergeAssumption DEF MergeCompanyFields, Writable

\* A new row has exactly the record's domain.
LEMMA InsertDomain ==
    ASSUME NEW inc \in [Field -> OptValue], NEW c \in Connector
    PROVE  MergeCompanyFields(EmptyRow, inc, c).val["domain"] = inc["domain"]
BY FieldMergeAssumption DEF MergeCompanyFields, Writable, EmptyRow, MayOverwrite

\* The row of a company nothing was reported about is a row.
LEMMA EmptyRowType == EmptyRow \in Row
BY DEF EmptyRow, Row, OptValue

\* merge_companies fills the survivor's fields from the discarded row only.
LEMMA FillType ==
    ASSUME NEW keep \in Row, NEW drop \in Row
    PROVE  /\ FillFromDiscarded(keep, drop) \in Row
           /\ FillFromDiscarded(keep, drop).val["domain"]
                \in {keep.val["domain"], drop.val["domain"]}
<1> DEFINE Filled == {f \in Field : keep.val[f] = Null /\ drop.val[f] # Null}
           val == [f \in Field |-> IF f \in Filled THEN drop.val[f] ELSE keep.val[f]]
           prov == [f \in Field |-> IF f \in Filled /\ keep.prov[f] = Null
                                    THEN drop.prov[f] ELSE keep.prov[f]]
<1>1. FillFromDiscarded(keep, drop) = [val |-> val, prov |-> prov]
  BY DEF FillFromDiscarded
<1>2. val \in [Field -> OptValue] /\ prov \in [Field -> Connector \cup {Null}]
  BY DEF Row
<1>3. val["domain"] \in {keep.val["domain"], drop.val["domain"]}
  BY FieldMergeAssumption
<1> HIDE DEF val, prov
<1> QED BY <1>1, <1>2, <1>3 DEF Row

\* What an update writes when the domain is another company's.
LEMMA KeptType ==
    ASSUME NEW merged \in Row, NEW stored \in Row
    PROVE  /\ WithoutDomain(merged, stored) \in Row
           /\ WithoutDomain(merged, stored).val["domain"] = stored.val["domain"]
<1>1. stored.val["domain"] \in OptValue /\ stored.prov["domain"] \in Connector \cup {Null}
  BY FieldMergeAssumption DEF Row
<1> QED BY <1>1, FieldMergeAssumption DEF WithoutDomain, Row

\* The pair of two companies is a pair.
LEMMA PairType ==
    ASSUME NEW a \in CompanyId, NEW b \in CompanyId, a # b
    PROVE  PairOf(a, b) \in Pairs
BY ResolutionAssumption DEF PairOf, Pairs, CompanyId

\* What a feed holds is a record, and the record being processed keeps its type.
LEMMA RecordType ==
    ASSUME TypeOK, NEW r \in Run, rec[r] # Null
    PROVE  /\ rec[r] \in Record
           /\ rec[r].val \in [Field -> OptValue]
           /\ rec[r].val["domain"] \in OptValue
           /\ ConnectorOf[r] \in Connector
<1>1. rec[r] \in Record
  BY DEF TypeOK
<1> QED BY <1>1, FieldMergeAssumption, ResolutionAssumption DEF Record

\* The key of a record is a key, or none.
LEMMA KeyType ==
    ASSUME NEW x \in Record
    PROVE  LockKey(x) \in Key \cup {Null}
BY FieldMergeAssumption DEF LockKey, Key, Record, OptValue

(***************************************************************************)
(* ResolutionInv is inductive                                              *)
(***************************************************************************)

\* The invariant holds of the empty database.
THEOREM InitInv == Init => ResolutionInv
<1> SUFFICES ASSUME Init PROVE ResolutionInv
  OBVIOUS
<1> USE DEF Init
<1>1. TypeOK
  BY EmptyRowType, ResolutionAssumption
  DEF TypeOK, Stage, Fault, NoDraft, NoReview, CompanyId, Pairs
<1>2. ASSUME NEW r \in Run
      PROVE  KeyHeld(r) /\ DraftFaithful(r) /\ DomainStaysFree(r)
  BY DEF KeyHeld, DraftFaithful, Updating, Inserting, DomainStaysFree
<1>3. Exclusive
  BY DEF Exclusive, Inserting, NoReview
<1>4. IdsFresh
  BY DEF IdsFresh, Exists
<1>5. NoIntegrityError
  BY DEF NoIntegrityError
<1> QED BY <1>1, <1>2, <1>3, <1>4, <1>5 DEF ResolutionInv

\* What the other actors see of a step of run r that writes no company: nothing.
Others(r) ==
    /\ \A q \in Run \ {r} :
        /\ pc'[q] = pc[q] /\ rec'[q] = rec[q] /\ target'[q] = target[q]
        /\ pending'[q] = pending[q] /\ other'[q] = other[q] /\ draft'[q] = draft[q]
        /\ advisory'[q] = advisory[q] /\ fault'[q] = fault[q]
    /\ \A a \in Actor \ {r} : xlock'[a] = xlock[a]
    /\ company' = company
    /\ review' = review
    /\ nextId' \in {nextId, nextId + 1}

\* A run that keeps its place, its record and its advisory lock keeps its key.
LEMMA KeyKept ==
    ASSUME NEW q \in Run, KeyHeld(q),
           pc'[q] = pc[q], rec'[q] = rec[q], advisory'[q] = advisory[q]
    PROVE  KeyHeld(q)'
<1>1. LockKey(rec'[q]) = LockKey(rec[q])
  OBVIOUS
<1> QED BY <1>1 DEF KeyHeld

\* Such a step keeps the invariant if it keeps the part about r, and r takes no
\* key, row or id another actor has.
LEMMA LocalStep ==
    ASSUME ResolutionInv, NEW r \in Run, Others(r), TypeOK',
           KeyHeld(r)', DraftFaithful(r)', DomainStaysFree(r)',
           fault'[r] \notin {"insert_raced", "integrity_error"},
           advisory'[r] \in {Null, advisory[r]} \/ \A q \in Run : advisory[q] # advisory'[r],
           \A a \in Actor \ {r} : xlock'[r] \cap xlock[a] = {},
           Inserting(r)' => \/ Inserting(r) /\ target'[r] = target[r]
                            \/ target'[r] = nextId
    PROVE  ResolutionInv'
<1> USE DEF Others
<1>1. ASSUME NEW q \in Run, q # r
      PROVE  /\ KeyHeld(q)' /\ DraftFaithful(q)' /\ DomainStaysFree(q)'
             /\ Inserting(q)' <=> Inserting(q)
  <2>1. Inserting(q)' <=> Inserting(q)
    BY <1>1 DEF Inserting
  <2>2. KeyHeld(q)'
    <3>1. KeyHeld(q) /\ pc'[q] = pc[q] /\ rec'[q] = rec[q] /\ advisory'[q] = advisory[q]
      BY <1>1 DEF ResolutionInv
    <3> QED BY <3>1, KeyKept
  <2>3. DomainStaysFree(q)'
    <3>1. (Owners(rec[q].val["domain"]))' = Owners(rec[q].val["domain"])
      BY <1>1 DEF Owners, Exists, DomainOf
    <3> QED BY <1>1, <3>1 DEF ResolutionInv, DomainStaysFree
  <2>4. DraftFaithful(q)'
    <3>1. DraftFaithful(q)
      BY <1>1 DEF ResolutionInv
    <3>2. Updating(q)' <=> Updating(q)
      BY <1>1 DEF Updating
    <3>3. UpdateFaithful(q) => UpdateFaithful(q)'
      BY <1>1 DEF UpdateFaithful, Exists, DomainOf, Actor
    <3>4. Inserting(q) => InsertFaithful(q)'
      BY <1>1, <3>1 DEF ResolutionInv, TypeOK, CompanyId, DraftFaithful, Inserting,
                        InsertFaithful, Exists
    <3>5. (\A c \in pending[q] : c < nextId) => (\A c \in pending[q] : c < nextId)'
      BY <1>1 DEF ResolutionInv, TypeOK, CompanyId
    <3> QED BY <1>1, <2>1, <3>1, <3>2, <3>3, <3>4, <3>5 DEF DraftFaithful
  <2> QED BY <2>1, <2>2, <2>3, <2>4
<1>2. Exclusive'
  <2>1. ASSUME NEW p \in Run, NEW q \in Run, p # q
        PROVE  /\ advisory'[p] # Null => advisory'[p] # advisory'[q]
               /\ (Inserting(p) /\ Inserting(q))' => target'[p] # target'[q]
    <3>1. advisory'[p] # Null => advisory'[p] # advisory'[q]
      BY <2>1 DEF ResolutionInv, Exclusive
    <3>2. ASSUME NEW s \in Run, Inserting(s) PROVE target[s] < nextId
      BY <3>2 DEF ResolutionInv, DraftFaithful, InsertFaithful
    <3>3. CASE p # r /\ q # r
      BY <2>1, <3>1, <3>3, <1>1 DEF ResolutionInv, Exclusive
    <3>4. CASE p = r \/ q = r
      BY <2>1, <3>1, <3>2, <3>4, <1>1 DEF ResolutionInv, TypeOK, Exclusive, CompanyId
    <3> QED BY <3>3, <3>4
  <2>2. \A a, b \in Actor : a # b => xlock'[a] \cap xlock'[b] = {}
    BY DEF ResolutionInv, Exclusive
  <2>3. xlock'[Reviewer] = xlock[Reviewer]
    BY ResolutionAssumption DEF Actor
  <2> QED BY <2>1, <2>2, <2>3 DEF ResolutionInv, Exclusive, Exists
<1>3. IdsFresh'
  BY DEF ResolutionInv, TypeOK, IdsFresh, Exists, CompanyId
<1>4. NoIntegrityError'
  BY DEF ResolutionInv, NoIntegrityError
<1> QED BY <1>1, <1>2, <1>3, <1>4 DEF ResolutionInv

\* The end of a transaction, however it ends, as long as it wrote nothing.
LEMMA ReleaseInv ==
    ASSUME ResolutionInv, NEW r \in Run, Release(r),
           UNCHANGED <<database, nextId, review, history>>,
           todo' \in [Run -> SUBSET Record],
           \/ UNCHANGED fault
           \/ \E why \in Fault \ {"insert_raced", "integrity_error"} :
                fault' = [fault EXCEPT ![r] = why]
    PROVE  ResolutionInv'
<1> USE DEF Release, database, history
<1>1. TypeOK'
  <2>1. fault' \in [Run -> Fault]
    BY DEF ResolutionInv, TypeOK
  <2>2. NoDraft \in [row: Row, created: BOOLEAN, pairs: SUBSET Pairs]
    BY EmptyRowType DEF NoDraft
  <2>3. draft' \in [Run -> [row: Row, created: BOOLEAN, pairs: SUBSET Pairs]]
    BY <2>2 DEF ResolutionInv, TypeOK
  <2> QED BY <2>1, <2>3 DEF ResolutionInv, TypeOK, Stage, Actor
<1>2. Others(r)
  BY DEF ResolutionInv, TypeOK, Others, Actor
<1>3. pc'[r] = "idle" /\ advisory'[r] = Null /\ pending'[r] = {} /\ xlock'[r] = {}
  BY DEF ResolutionInv, TypeOK, Actor
<1>4. KeyHeld(r)' /\ DraftFaithful(r)' /\ DomainStaysFree(r)' /\ ~ Inserting(r)'
  BY <1>3 DEF KeyHeld, DraftFaithful, DomainStaysFree, Updating, Inserting
<1>5. fault'[r] \notin {"insert_raced", "integrity_error"}
  BY DEF ResolutionInv, TypeOK, NoIntegrityError
<1> QED BY <1>1, <1>2, <1>3, <1>4, <1>5, LocalStep

\* A record that fails leaves the database and the other runs alone.
LEMMA FailInv ==
    ASSUME ResolutionInv, NEW r \in Run,
           NEW why \in Fault \ {"insert_raced", "integrity_error"}, Fail(r, why)
    PROVE  ResolutionInv'
<1>1. todo' \in [Run -> SUBSET Record]
  BY DEF Fail, ResolutionInv, TypeOK
<1> QED BY <1>1, ReleaseInv DEF Fail

\* A resolution step that finds a company.
LEMMA FoundInv ==
    ASSUME ResolutionInv, NEW r \in Run, NEW c \in CompanyId, Found(r, c),
           pc[r] \in {"external", "domain", "name"},
           UNCHANGED <<database, nextId, todo, review, fault, history>>
    PROVE  ResolutionInv'
<1> USE DEF Found, database, locks, history
<1>1. TypeOK'
  BY DEF ResolutionInv, TypeOK, Stage
<1>2. Others(r) /\ pc'[r] = "row" /\ target'[r] = c
  BY DEF ResolutionInv, TypeOK, Others
<1>3. KeyHeld(r)'
  BY <1>2 DEF ResolutionInv, KeyHeld, LockKey
<1>4. DraftFaithful(r)' /\ DomainStaysFree(r)' /\ ~ Inserting(r)'
  BY <1>2 DEF ResolutionInv, DraftFaithful, DomainStaysFree, Updating, Inserting
<1>5. fault'[r] \notin {"insert_raced", "integrity_error"}
  BY DEF ResolutionInv, NoIntegrityError
<1>6. \A a \in Actor \ {r} : xlock'[r] \cap xlock[a] = {}
  BY DEF ResolutionInv, Exclusive, Actor
<1> QED BY <1>1, <1>2, <1>3, <1>4, <1>5, <1>6, LocalStep

\* A resolution step that goes on to the next one.
LEMMA GoOnInv ==
    ASSUME ResolutionInv, NEW r \in Run, NEW label \in {"domain", "name", "similar", "insert"},
           GoOn(r, label),
           pc[r] \in {"external", "domain", "name"},
           label # "domain" => Owners(rec[r].val["domain"]) = {},
           UNCHANGED <<database, nextId, todo, review, fault, history>>
    PROVE  ResolutionInv'
<1> USE DEF GoOn, database, locks, history
<1>1. TypeOK'
  BY DEF ResolutionInv, TypeOK, Stage
<1>2. Others(r) /\ pc'[r] = label
  BY DEF ResolutionInv, TypeOK, Others
<1>3. KeyHeld(r)'
  BY <1>2 DEF ResolutionInv, KeyHeld, LockKey
<1>4. DraftFaithful(r)' /\ ~ Inserting(r)'
  BY <1>2 DEF ResolutionInv, DraftFaithful, Updating, Inserting
<1>5. DomainStaysFree(r)'
  BY <1>2 DEF DomainStaysFree, Owners, Exists, DomainOf
<1>6. fault'[r] \notin {"insert_raced", "integrity_error"}
  BY DEF ResolutionInv, NoIntegrityError
<1>7. \A a \in Actor \ {r} : xlock'[r] \cap xlock[a] = {}
  BY DEF ResolutionInv, Exclusive, Actor
<1> QED BY <1>1, <1>2, <1>3, <1>4, <1>5, <1>6, <1>7, LocalStep

\* A record that names no company is skipped or goes on to its insert.
LEMMA AbsentInv ==
    ASSUME ResolutionInv, NEW r \in Run, Absent(r),
           pc[r] \in {"external", "domain", "name"},
           Owners(rec[r].val["domain"]) = {},
           UNCHANGED <<database, nextId, todo, review, fault, history>>
    PROVE  ResolutionInv'
<1>1. CASE rec[r].enrich
  BY <1>1, ReleaseInv DEF Absent, ResolutionInv, TypeOK
<1>2. CASE ~ rec[r].enrich
  BY <1>2, GoOnInv DEF Absent, GoOn
<1> QED BY <1>1, <1>2

\* A run takes up its next record.
LEMMA BeginInv ==
    ASSUME ResolutionInv, NEW r \in Run, Begin(r)
    PROVE  ResolutionInv'
<1> USE DEF Begin, database, locks, history
<1>1. PICK x \in todo[r] :
          /\ rec' = [rec EXCEPT ![r] = x]
          /\ todo' = [todo EXCEPT ![r] = @ \ {x}]
          /\ pc' = [pc EXCEPT ![r] = IF LockKey(x) = Null THEN "external" ELSE "lock"]
  OBVIOUS
<1>2. x \in Record /\ x # Null
  BY ResolutionAssumption DEF ResolutionInv, TypeOK
<1>3. TypeOK'
  BY <1>1, <1>2 DEF ResolutionInv, TypeOK, Stage, Fault
<1>4. /\ Others(r) /\ rec'[r] = x
      /\ pc'[r] = IF LockKey(x) = Null THEN "external" ELSE "lock"
      /\ fault'[r] = "none"
  BY <1>1 DEF ResolutionInv, TypeOK, Others
<1>5. KeyHeld(r)'
  BY <1>2, <1>4 DEF ResolutionInv, KeyHeld, LockKey
<1>6. DraftFaithful(r)' /\ DomainStaysFree(r)' /\ ~ Inserting(r)'
  BY <1>4 DEF ResolutionInv, DraftFaithful, DomainStaysFree, Updating, Inserting
<1>7. \A a \in Actor \ {r} : xlock'[r] \cap xlock[a] = {}
  BY DEF ResolutionInv, Exclusive, Actor
<1> QED BY <1>3, <1>4, <1>5, <1>6, <1>7, LocalStep

\* The advisory lock is given to one run at a time.
LEMMA TakeLockInv ==
    ASSUME ResolutionInv, NEW r \in Run, TakeLock(r)
    PROVE  ResolutionInv'
<1> USE DEF TakeLock, database, history
<1>1. rec[r] \in Record
  BY RecordType DEF ResolutionInv, KeyHeld
<1>2. TypeOK'
  BY <1>1, KeyType DEF ResolutionInv, TypeOK, Stage
<1>3. Others(r) /\ pc'[r] = "external" /\ advisory'[r] = LockKey(rec[r])
  BY DEF ResolutionInv, TypeOK, Others
<1>4. KeyHeld(r)'
  BY <1>3 DEF ResolutionInv, KeyHeld, LockKey
<1>5. DraftFaithful(r)' /\ DomainStaysFree(r)' /\ ~ Inserting(r)'
  BY <1>3 DEF ResolutionInv, DraftFaithful, DomainStaysFree, Updating, Inserting
<1>6. fault'[r] \notin {"insert_raced", "integrity_error"}
  BY DEF ResolutionInv, NoIntegrityError
<1>7. \A a \in Actor \ {r} : xlock'[r] \cap xlock[a] = {}
  BY DEF ResolutionInv, Exclusive, Actor
<1> QED BY <1>2, <1>3, <1>4, <1>5, <1>6, <1>7, LocalStep

\* The first three questions of resolve_company; what the domain says stays true.
LEMMA ResolveInv ==
    ASSUME ResolutionInv, NEW r \in Run,
           ResolveExternal(r) \/ ResolveDomain(r) \/ ResolveName(r)
    PROVE  ResolutionInv'
<1>1. CASE ResolveExternal(r)
  <2>1. CASE \E c \in CompanyId : Found(r, c)
    BY <1>1, <2>1, FoundInv DEF ResolveExternal
  <2>2. CASE GoOn(r, "domain")
    BY <1>1, <2>2, GoOnInv DEF ResolveExternal
  <2> QED BY <1>1, <2>1, <2>2 DEF ResolveExternal
<1>2. CASE ResolveDomain(r)
  <2>1. CASE \E c \in CompanyId : Found(r, c)
    BY <1>2, <2>1, FoundInv DEF ResolveDomain
  <2>2. CASE Owners(rec[r].val["domain"]) = {} /\ GoOn(r, "name")
    BY <1>2, <2>2, GoOnInv DEF ResolveDomain
  <2>3. CASE Owners(rec[r].val["domain"]) = {} /\ Absent(r)
    BY <1>2, <2>3, AbsentInv DEF ResolveDomain
  <2>4. Owners(rec[r].val["domain"]) \subseteq CompanyId
    BY DEF Owners
  <2> QED BY <1>2, <2>1, <2>2, <2>3, <2>4 DEF ResolveDomain
<1>3. CASE ResolveName(r)
  <2>1. Owners(rec[r].val["domain"]) = {}
    BY <1>3 DEF ResolutionInv, DomainStaysFree, ResolveName
  <2>2. CASE \E c \in CompanyId : Found(r, c)
    BY <1>3, <2>2, FoundInv DEF ResolveName
  <2>3. CASE GoOn(r, "similar")
    BY <1>3, <2>1, <2>3, GoOnInv DEF ResolveName
  <2>4. CASE Absent(r)
    BY <1>3, <2>1, <2>4, AbsentInv DEF ResolveName
  <2> QED BY <1>3, <2>2, <2>3, <2>4 DEF ResolveName, Named
<1> QED BY <1>1, <1>2, <1>3

\* The fourth question, which names existing companies.
LEMMA ResolveSimilarInv ==
    ASSUME ResolutionInv, NEW r \in Run, ResolveSimilar(r)
    PROVE  ResolutionInv'
<1> USE DEF ResolveSimilar, database, locks, history
<1>1. CASE rec[r].enrich
  BY <1>1, ReleaseInv DEF ResolutionInv, TypeOK
<1>2. CASE ~ rec[r].enrich
  <2> DEFINE P == {c \in CompanyId : /\ Exists(c)
                                     /\ <<c, rec[r].metro>> \in located
                                     /\ <<NameOf(c), rec[r].val["name"]>> \in Similar}
  <2>1. \A c \in P : c < nextId
    BY DEF ResolutionInv, IdsFresh
  <2>2. pending' = [pending EXCEPT ![r] = P]
    BY <1>2
  <2> HIDE DEF P
  <2>3. P \subseteq CompanyId
    BY DEF P
  <2>4. TypeOK'
    BY <1>2, <2>2, <2>3 DEF ResolutionInv, TypeOK, Stage
  <2>5. Others(r) /\ pc'[r] = "insert" /\ pending'[r] = P
    BY <1>2, <2>2 DEF ResolutionInv, TypeOK, Others
  <2>6. KeyHeld(r)'
    BY <1>2, <2>5 DEF ResolutionInv, KeyHeld, LockKey
  <2>7. DraftFaithful(r)' /\ ~ Inserting(r)'
    BY <1>2, <2>1, <2>5 DEF ResolutionInv, DraftFaithful, Updating, Inserting
  <2>8. DomainStaysFree(r)'
    BY <1>2, <2>5 DEF ResolutionInv, DomainStaysFree, Owners, Exists, DomainOf
  <2>9. fault'[r] \notin {"insert_raced", "integrity_error"}
    BY DEF ResolutionInv, NoIntegrityError
  <2>10. \A a \in Actor \ {r} : xlock'[r] \cap xlock[a] = {}
    BY <1>2 DEF ResolutionInv, Exclusive, Actor
  <2>11. advisory' = advisory
    BY <1>2
  <2> QED BY <2>4, <2>5, <2>6, <2>7, <2>8, <2>9, <2>10, <2>11, LocalStep
<1> QED BY <1>1, <1>2

\* An insert takes a fresh id, and finds its domain as free as resolution did.
LEMMA InsertInv ==
    ASSUME ResolutionInv, NEW r \in Run, Insert(r)
    PROVE  ResolutionInv'
<1> DEFINE row == MergeCompanyFields(EmptyRow, rec[r].val, ConnectorOf[r])
           d == rec[r].val["domain"]
           new == [row |-> row, created |-> TRUE, pairs |-> {}]
<1> USE DEF database, locks, history
<1>1. rec[r] # Null /\ Owners(d) = {} /\ pc[r] = "insert"
  BY DEF Insert, ResolutionInv, KeyHeld, DomainStaysFree
<1>2. row \in Row /\ row.val["domain"] = d
  BY <1>1, RecordType, EmptyRowType, MergeType, InsertDomain DEF ResolutionInv
<1>3. /\ nextId \in CompanyId
      /\ target' = [target EXCEPT ![r] = nextId]
      /\ nextId' = nextId + 1
      /\ draft' = [draft EXCEPT ![r] = new]
      /\ NextCandidate(r, pending[r])
      /\ UNCHANGED <<database, todo, rec, locks, review, history, fault>>
  BY <1>1, <1>2, Zenon DEF Insert
<1> HIDE DEF row, d
<1>4. new \in [row: Row, created: BOOLEAN, pairs: SUBSET Pairs]
  BY <1>2
<1>5. /\ pending' = [pending EXCEPT ![r] = pending[r]]
      /\ \/ pc' = [pc EXCEPT ![r] = "commit"] /\ UNCHANGED other
         \/ /\ pc' = [pc EXCEPT ![r] = "candidates"]
            /\ \E c \in pending[r] : other' = [other EXCEPT ![r] = c]
  BY <1>3 DEF NextCandidate
<1>6. TypeOK'
  <2>1. nextId' \in 1..MaxId + 1
    BY <1>3, ResolutionAssumption DEF CompanyId
  <2>2. draft' \in [Run -> [row: Row, created: BOOLEAN, pairs: SUBSET Pairs]]
    BY <1>3, <1>4 DEF ResolutionInv, TypeOK
  <2>3. other' \in [Run -> CompanyId \cup {Null}] /\ pc' \in [Run -> Stage]
    <3>1. /\ pending[r] \subseteq CompanyId
          /\ other \in [Run -> CompanyId \cup {Null}] /\ pc \in [Run -> Stage]
          /\ "commit" \in Stage /\ "candidates" \in Stage
      BY DEF ResolutionInv, TypeOK, Stage
    <3> QED BY <1>5, <3>1
  <2>4. pending' \in [Run -> SUBSET CompanyId] /\ target' \in [Run -> CompanyId \cup {Null}]
    BY <1>3, <1>5 DEF ResolutionInv, TypeOK
  <2> QED BY <1>3, <2>1, <2>2, <2>3, <2>4 DEF ResolutionInv, TypeOK
<1>7. Others(r)
  BY <1>3, <1>5 DEF ResolutionInv, TypeOK, Others
<1>8. /\ pc'[r] \in {"candidates", "commit"} /\ target'[r] = nextId /\ draft'[r] = new
      /\ pending'[r] = pending[r]
      /\ pc'[r] = "candidates" => other'[r] \in pending[r]
  BY <1>3, <1>5 DEF ResolutionInv, TypeOK
<1>9. KeyHeld(r)'
  BY <1>1, <1>3, <1>8 DEF ResolutionInv, KeyHeld, LockKey
<1>10. ~ Exists(nextId)
  BY <1>3 DEF ResolutionInv, IdsFresh, CompanyId
<1>11. DraftFaithful(r)'
  <2>1. \A c \in pending[r] : c \in CompanyId /\ c < nextId
    BY DEF ResolutionInv, TypeOK, DraftFaithful
  <2>2. ~ Updating(r)'
    BY <1>8 DEF Updating
  <2>3. InsertFaithful(r)'
    BY <1>2, <1>3, <1>8, <1>10 DEF InsertFaithful, Exists, CompanyId, d
  <2>4. nextId \in Int /\ nextId \notin pending[r] /\ \A c \in pending[r] : c < nextId'
    BY <1>3, <2>1 DEF CompanyId
  <2>5. pc'[r] = "candidates" => other'[r] \in CompanyId \ {nextId}
    BY <1>8, <2>1, <2>4
  <2> QED BY <1>3, <1>8, <2>2, <2>3, <2>4, <2>5 DEF DraftFaithful
<1>12. DomainStaysFree(r)'
  BY <1>8 DEF DomainStaysFree
<1>13. fault'[r] \notin {"insert_raced", "integrity_error"}
  BY <1>3 DEF ResolutionInv, NoIntegrityError
<1>14. \A a \in Actor \ {r} : xlock'[r] \cap xlock[a] = {}
  BY <1>3 DEF ResolutionInv, Exclusive, Actor
<1>15. advisory' = advisory
  BY <1>3
<1> QED BY <1>6, <1>7, <1>8, <1>9, <1>11, <1>12, <1>13, <1>14, <1>15, LocalStep

\* A row is locked for one update at a time and read as committed.
LEMMA LockRowInv ==
    ASSUME ResolutionInv, NEW r \in Run, LockRow(r)
    PROVE  ResolutionInv'
<1> USE DEF database, history
<1>1. CASE ~ Exists(target[r])
  BY <1>1, FailInv DEF LockRow, Fault
<1>2. CASE Exists(target[r])
  <2> DEFINE new == [row |-> company[target[r]], created |-> FALSE, pairs |-> {}]
  <2>1. /\ pc[r] = "row"
        /\ UpdateBlockers(r, target[r]) = {}
        /\ xlock' = [xlock EXCEPT ![r] = {target[r]}]
        /\ draft' = [draft EXCEPT ![r] = new]
        /\ pc' = [pc EXCEPT ![r] = "merge"]
        /\ UNCHANGED <<database, nextId, todo, rec, target, pending, other,
                       advisory, slock, review, fault, history>>
    BY <1>2 DEF LockRow
  <2>2. target[r] \in CompanyId
    BY <2>1 DEF ResolutionInv, DraftFaithful
  <2>3. company[target[r]] \in Row
    BY <1>2, <2>2 DEF ResolutionInv, TypeOK, Exists
  <2>4. new \in [row: Row, created: BOOLEAN, pairs: SUBSET Pairs]
    BY <2>3
  <2>5. TypeOK'
    BY <2>1, <2>2, <2>4 DEF ResolutionInv, TypeOK, Stage, Actor
  <2>6. /\ Others(r) /\ pc'[r] = "merge" /\ draft'[r] = new
        /\ xlock'[r] = {target[r]}
    BY <2>1 DEF ResolutionInv, TypeOK, Others, Actor
  <2>7. KeyHeld(r)'
    BY <2>1, <2>6 DEF ResolutionInv, KeyHeld, LockKey
  <2>8. UpdateFaithful(r)' /\ ~ Inserting(r)'
    BY <1>2, <2>1, <2>6 DEF UpdateFaithful, Inserting, Exists, DomainOf
  <2>9. DraftFaithful(r)'
    BY <2>1, <2>2, <2>6, <2>8 DEF ResolutionInv, DraftFaithful
  <2>10. DomainStaysFree(r)'
    BY <2>6 DEF DomainStaysFree
  <2>11. fault'[r] \notin {"insert_raced", "integrity_error"}
    BY <2>1 DEF ResolutionInv, NoIntegrityError
  <2>12. \A a \in Actor \ {r} : xlock'[r] \cap xlock[a] = {}
    BY <2>1, <2>6 DEF UpdateBlockers
  <2> QED BY <2>1, <2>5, <2>6, <2>7, <2>8, <2>9, <2>10, <2>11, <2>12, LocalStep
<1> QED BY <1>1, <1>2

\* What the step to the next candidate leaves of the run.
LEMMA NextCandidateEffect ==
    ASSUME TypeOK, NEW r \in Run, NEW P \in SUBSET CompanyId, NextCandidate(r, P)
    PROVE  /\ pc' \in [Run -> Stage] /\ other' \in [Run -> CompanyId \cup {Null}]
           /\ pending' \in [Run -> SUBSET CompanyId] /\ pending'[r] = P
           /\ pc'[r] \in {"candidates", "commit"}
           /\ pc'[r] = "candidates" => other'[r] \in P
           /\ \A q \in Run \ {r} : /\ pc'[q] = pc[q] /\ other'[q] = other[q]
                                   /\ pending'[q] = pending[q]
<1>1. pending' = [pending EXCEPT ![r] = P]
  BY DEF NextCandidate
<1>2. CASE pc' = [pc EXCEPT ![r] = "commit"] /\ UNCHANGED other
  BY <1>1, <1>2 DEF TypeOK, Stage
<1>3. ASSUME NEW c \in P, pc' = [pc EXCEPT ![r] = "candidates"],
             other' = [other EXCEPT ![r] = c]
      PROVE  /\ pc' \in [Run -> Stage] /\ other' \in [Run -> CompanyId \cup {Null}]
             /\ pc'[r] = "candidates" /\ other'[r] \in P
             /\ \A q \in Run \ {r} : pc'[q] = pc[q] /\ other'[q] = other[q]
  BY <1>3 DEF TypeOK, Stage
<1> QED BY <1>1, <1>2, <1>3 DEF NextCandidate, TypeOK

\* A merge fills the domain of its row only where no other company has it.
LEMMA UpdateInv ==
    ASSUME ResolutionInv, NEW r \in Run, Update(r)
    PROVE  ResolutionInv'
<1> DEFINE stored == draft[r].row
           merged == MergeCompanyFields(stored, rec[r].val, ConnectorOf[r])
           kept == WithoutDomain(merged, stored)
           rivals == Owners(merged.val["domain"]) \ {target[r]}
           d == rec[r].val["domain"]
<1> USE DEF database, locks, history
<1>1. /\ pc[r] = "merge" /\ rec[r] # Null /\ target[r] \in CompanyId
      /\ UNCHANGED <<database, nextId, todo, rec, target, locks, review, fault, history>>
  BY DEF Update, ResolutionInv, KeyHeld, DraftFaithful
<1>2. /\ UpdateFaithful(r) /\ stored = company[target[r]] /\ stored \in Row
      /\ \A c \in pending[r] : c < nextId
  BY <1>1 DEF ResolutionInv, TypeOK, DraftFaithful, UpdateFaithful, Updating
<1>3. merged \in Row
  BY <1>1, <1>2, MergeType, RecordType DEF ResolutionInv
<1>4. \/ merged.val["domain"] = stored.val["domain"]
      \/ stored.val["domain"] = Null /\ merged.val["domain"] = d /\ d # Null
  BY <1>1, <1>2, MergeDomain, RecordType DEF ResolutionInv
<1>5. kept \in Row /\ kept.val["domain"] = stored.val["domain"]
  BY <1>2, <1>3, KeptType
<1>6. \A c \in rivals : c \in CompanyId /\ c < nextId /\ c # target[r]
  BY DEF Owners, ResolutionInv, IdsFresh
<1>7. \E row \in {merged, kept} :
        /\ draft' = [draft EXCEPT ![r].row = row]
        /\ \/ row = kept /\ NextCandidate(r, rivals)
           \/ /\ row.val["domain"] = d /\ d # Null /\ Owners(d) = {}
              /\ pc' = [pc EXCEPT ![r] = "flush"]
              /\ UNCHANGED <<pending, other>>
           \/ /\ row.val["domain"] = stored.val["domain"]
              /\ pc' = [pc EXCEPT ![r] = "commit"]
              /\ UNCHANGED <<pending, other>>
  <2>1. ASSUME merged.val["domain"] # stored.val["domain"], rivals = {}
        PROVE  merged.val["domain"] = d /\ d # Null /\ Owners(d) = {}
    BY <1>2, <1>4, <2>1 DEF Owners, DomainOf
  <2>2. \/ /\ draft' = [draft EXCEPT ![r].row = kept]
           /\ NextCandidate(r, rivals)
        \/ /\ merged.val["domain"] # stored.val["domain"] /\ rivals = {}
           /\ draft' = [draft EXCEPT ![r].row = merged]
           /\ pc' = [pc EXCEPT ![r] = "flush"]
           /\ UNCHANGED <<pending, other>>
        \/ /\ merged.val["domain"] = stored.val["domain"]
           /\ draft' = [draft EXCEPT ![r].row = merged]
           /\ pc' = [pc EXCEPT ![r] = "commit"]
           /\ UNCHANGED <<pending, other>>
    BY Zenon DEF Update
  <2> HIDE DEF kept, merged, stored, rivals, d
  <2> QED BY <2>1, <2>2
<1>8. PICK row \in {merged, kept} :
        /\ draft' = [draft EXCEPT ![r].row = row]
        /\ \/ row = kept /\ NextCandidate(r, rivals)
           \/ /\ row.val["domain"] = d /\ d # Null /\ Owners(d) = {}
              /\ pc' = [pc EXCEPT ![r] = "flush"]
              /\ UNCHANGED <<pending, other>>
           \/ /\ row.val["domain"] = stored.val["domain"]
              /\ pc' = [pc EXCEPT ![r] = "commit"]
              /\ UNCHANGED <<pending, other>>
  BY <1>7
<1>9. row \in Row
  BY <1>3, <1>5
<1> HIDE DEF kept, merged, rivals, stored
<1>10. /\ pc' \in [Run -> Stage] /\ other' \in [Run -> CompanyId \cup {Null}]
       /\ pending' \in [Run -> SUBSET CompanyId]
       /\ pc'[r] \in {"flush", "candidates", "commit"}
       /\ pc'[r] = "candidates" => other'[r] \in rivals /\ pending'[r] = rivals
       /\ pending'[r] \in {pending[r], rivals}
       /\ \A q \in Run \ {r} : /\ pc'[q] = pc[q] /\ other'[q] = other[q]
                               /\ pending'[q] = pending[q]
  <2>1. CASE NextCandidate(r, rivals)
    BY <1>6, <2>1, NextCandidateEffect DEF ResolutionInv
  <2>2. CASE pc' = [pc EXCEPT ![r] = "flush"] /\ UNCHANGED <<pending, other>>
    BY <2>2 DEF ResolutionInv, TypeOK, Stage
  <2>3. CASE pc' = [pc EXCEPT ![r] = "commit"] /\ UNCHANGED <<pending, other>>
    BY <2>3 DEF ResolutionInv, TypeOK, Stage
  <2> QED BY <1>8, <2>1, <2>2, <2>3
<1>11. /\ draft' \in [Run -> [row: Row, created: BOOLEAN, pairs: SUBSET Pairs]]
       /\ draft'[r].row = row /\ draft'[r].created = draft[r].created
       /\ \A q \in Run \ {r} : draft'[q] = draft[q]
  <2>1. draft \in [Run -> [row: Row, created: BOOLEAN, pairs: SUBSET Pairs]]
    BY DEF ResolutionInv, TypeOK
  <2>2. /\ [draft[r] EXCEPT !.row = row] \in [row: Row, created: BOOLEAN, pairs: SUBSET Pairs]
        /\ [draft[r] EXCEPT !.row = row].row = row
        /\ [draft[r] EXCEPT !.row = row].created = draft[r].created
    BY <1>9, <2>1
  <2>3. draft' = [draft EXCEPT ![r] = [draft[r] EXCEPT !.row = row]]
    BY <1>8
  <2> QED BY <2>1, <2>2, <2>3
<1>12. \/ row.val["domain"] = stored.val["domain"]
       \/ row.val["domain"] = d /\ stored.val["domain"] = Null
  <2>1. row \in {merged, kept}
    OBVIOUS
  <2> HIDE DEF d
  <2> QED BY <1>4, <1>5, <2>1
<1>13. TypeOK'
  BY <1>1, <1>10, <1>11 DEF ResolutionInv, TypeOK
<1>14. Others(r)
  BY <1>1, <1>10, <1>11 DEF Others
<1>15. KeyHeld(r)'
  BY <1>1, <1>10 DEF ResolutionInv, KeyHeld, LockKey
<1>16. (row.val["domain"] = d /\ d # Null /\ Owners(d) = {}) \/ pc'[r] # "flush"
  BY <1>8, <1>10, NextCandidateEffect, <1>6 DEF ResolutionInv, TypeOK
<1>17. UpdateFaithful(r)' /\ ~ Inserting(r)'
  <2>1. ~ Inserting(r)'
    BY <1>2, <1>11 DEF UpdateFaithful, Inserting
  <2>2. UpdateFaithful(r)'
    BY <1>1, <1>2, <1>10, <1>11, <1>12, <1>16 DEF UpdateFaithful, Exists, DomainOf
  <2> QED BY <2>1, <2>2
<1>18. DraftFaithful(r)'
  BY <1>1, <1>2, <1>6, <1>10, <1>17 DEF DraftFaithful
<1>19. DomainStaysFree(r)'
  BY <1>1, <1>10, <1>16 DEF DomainStaysFree, Owners, Exists, DomainOf
<1>20. fault'[r] \notin {"insert_raced", "integrity_error"}
  BY <1>1 DEF ResolutionInv, NoIntegrityError
<1>21. \A a \in Actor \ {r} : xlock'[r] \cap xlock[a] = {}
  BY <1>1 DEF ResolutionInv, Exclusive, Actor
<1>22. advisory' = advisory
  BY <1>1
<1> QED BY <1>13, <1>14, <1>15, <1>17, <1>18, <1>19, <1>20, <1>21, <1>22, LocalStep

\* The UPDATE of a domain finds it as free as the merge did.
LEMMA FlushInv ==
    ASSUME ResolutionInv, NEW r \in Run, Flush(r)
    PROVE  ResolutionInv'
<1> USE DEF database, locks, history
<1>1. pc[r] = "flush" /\ Owners(rec[r].val["domain"]) = {} /\ UpdateFaithful(r)
  BY DEF Flush, ResolutionInv, DomainStaysFree, DraftFaithful, Updating
<1>2. WrittenDomain(r) = rec[r].val["domain"]
  BY <1>1 DEF WrittenDomain, UpdateFaithful
<1>3. /\ pc' = [pc EXCEPT ![r] = "commit"]
      /\ UNCHANGED <<database, nextId, todo, rec, target, pending, other, draft,
                     locks, review, fault, history>>
  BY <1>1, <1>2 DEF Flush
<1>4. TypeOK'
  BY <1>3 DEF ResolutionInv, TypeOK, Stage
<1>5. Others(r) /\ pc'[r] = "commit"
  BY <1>3 DEF ResolutionInv, TypeOK, Others
<1>6. KeyHeld(r)'
  BY <1>1, <1>3, <1>5 DEF ResolutionInv, KeyHeld, LockKey
<1>7. UpdateFaithful(r)' /\ ~ Inserting(r)'
  BY <1>1, <1>3, <1>5 DEF UpdateFaithful, Inserting, Exists, DomainOf
<1>8. DraftFaithful(r)'
  BY <1>1, <1>3, <1>5, <1>7 DEF ResolutionInv, DraftFaithful
<1>9. DomainStaysFree(r)'
  BY <1>5 DEF DomainStaysFree
<1>10. fault'[r] \notin {"insert_raced", "integrity_error"}
  BY <1>3 DEF ResolutionInv, NoIntegrityError
<1>11. \A a \in Actor \ {r} : xlock'[r] \cap xlock[a] = {}
  BY <1>3 DEF ResolutionInv, Exclusive, Actor
<1>12. advisory' = advisory
  BY <1>3
<1> QED BY <1>4, <1>5, <1>6, <1>7, <1>8, <1>9, <1>10, <1>11, <1>12, LocalStep

\* A candidate pair names another company, and disturbs no row.
LEMMA RecordCandidateInv ==
    ASSUME ResolutionInv, NEW r \in Run, RecordCandidate(r)
    PROVE  ResolutionInv'
<1> DEFINE c == other[r]
           p == PairOf(target[r], c)
           P == pending[r] \ {c}
<1> USE DEF database, history
<1>1. CASE pair[p] = "none" /\ ~ Exists(c)
  BY <1>1, FailInv DEF RecordCandidate, Fault
<1>2. CASE ~ (pair[p] = "none" /\ ~ Exists(c))
  <2>1. /\ pc[r] = "candidates" /\ target[r] \in CompanyId /\ c \in CompanyId
        /\ c # target[r] /\ target[r] \notin pending[r]
        /\ P \subseteq CompanyId /\ \A i \in P : i < nextId
    BY DEF RecordCandidate, ResolutionInv, TypeOK, DraftFaithful
  <2>2. p \in Pairs
    BY <2>1, PairType
  <2>3. /\ NextCandidate(r, P)
        /\ \/ /\ slock' = [slock EXCEPT ![r] = @ \cup {c}]
              /\ draft' = [draft EXCEPT ![r].pairs = @ \cup {p}]
           \/ UNCHANGED <<slock, draft>>
        /\ UNCHANGED <<database, nextId, todo, rec, target, advisory, xlock,
                       review, fault, history>>
    BY <1>2 DEF RecordCandidate
  <2> HIDE DEF c, p, P
  <2>4. /\ draft' \in [Run -> [row: Row, created: BOOLEAN, pairs: SUBSET Pairs]]
        /\ draft'[r].row = draft[r].row /\ draft'[r].created = draft[r].created
        /\ \A q \in Run \ {r} : draft'[q] = draft[q]
    <3>1. draft \in [Run -> [row: Row, created: BOOLEAN, pairs: SUBSET Pairs]]
      BY DEF ResolutionInv, TypeOK
    <3>2. CASE UNCHANGED draft
      BY <3>1, <3>2
    <3>3. CASE draft' = [draft EXCEPT ![r].pairs = @ \cup {p}]
      <4> DEFINE new == [draft[r] EXCEPT !.pairs = draft[r].pairs \cup {p}]
      <4>1. /\ new \in [row: Row, created: BOOLEAN, pairs: SUBSET Pairs]
            /\ new.row = draft[r].row /\ new.created = draft[r].created
        BY <2>2, <3>1
      <4>2. draft' = [draft EXCEPT ![r] = new]
        BY <3>3
      <4> HIDE DEF new
      <4> QED BY <3>1, <4>1, <4>2
    <3> QED BY <2>3, <3>2, <3>3
  <2>5. /\ pc' \in [Run -> Stage] /\ other' \in [Run -> CompanyId \cup {Null}]
        /\ pending' \in [Run -> SUBSET CompanyId] /\ pending'[r] = P
        /\ pc'[r] \in {"candidates", "commit"}
        /\ pc'[r] = "candidates" => other'[r] \in P
        /\ \A q \in Run \ {r} : /\ pc'[q] = pc[q] /\ other'[q] = other[q]
                                /\ pending'[q] = pending[q]
    BY <2>1, <2>3, NextCandidateEffect DEF ResolutionInv
  <2>6. slock' \in [Actor -> SUBSET CompanyId]
    <3>1. slock \in [Actor -> SUBSET CompanyId] /\ r \in Actor
      BY DEF ResolutionInv, TypeOK, Actor
    <3> QED BY <2>1, <2>3, <3>1
  <2>7. TypeOK'
    BY <2>3, <2>4, <2>5, <2>6 DEF ResolutionInv, TypeOK
  <2>8. Others(r)
    BY <2>3, <2>4, <2>5 DEF Others
  <2>9. KeyHeld(r)'
    BY <2>1, <2>3, <2>5 DEF ResolutionInv, KeyHeld, LockKey
  <2>10. DraftFaithful(r)
    BY DEF ResolutionInv
  <2>11. Inserting(r)' <=> Inserting(r)
    BY <2>1, <2>4, <2>5 DEF Inserting
  <2>12. DraftFaithful(r)'
    <3>1. Updating(r)' => UpdateFaithful(r)'
      BY <2>1, <2>3, <2>4, <2>5, <2>10 DEF DraftFaithful, Updating, UpdateFaithful,
         Exists, DomainOf
    <3>2. Inserting(r)' => InsertFaithful(r)'
      BY <2>1, <2>3, <2>4, <2>5, <2>10, <2>11 DEF DraftFaithful, InsertFaithful, Exists
    <3>3. P \subseteq pending[r]
      BY DEF P
    <3> QED BY <2>1, <2>3, <2>5, <3>1, <3>2, <3>3 DEF DraftFaithful
  <2>13. DomainStaysFree(r)'
    BY <2>5 DEF DomainStaysFree
  <2>14. fault'[r] \notin {"insert_raced", "integrity_error"}
    BY <2>3 DEF ResolutionInv, NoIntegrityError
  <2>15. \A a \in Actor \ {r} : xlock'[r] \cap xlock[a] = {}
    BY <2>3 DEF ResolutionInv, Exclusive, Actor
  <2>16. advisory' = advisory /\ target' = target
    BY <2>3
  <2> QED BY <2>7, <2>8, <2>9, <2>11, <2>12, <2>13, <2>14, <2>15, <2>16, LocalStep
<1> QED BY <1>1, <1>2

(***************************************************************************)
(* The steps that write companies                                          *)
(***************************************************************************)

\* What the invariant says of run q survives a step that leaves q, its locks
\* and its company alone, and gives nobody a domain q found free.
LEMMA FrameRun ==
    ASSUME ResolutionInv, NEW q \in Run,
           /\ pc'[q] = pc[q] /\ rec'[q] = rec[q] /\ target'[q] = target[q]
           /\ pending'[q] = pending[q] /\ other'[q] = other[q] /\ draft'[q] = draft[q]
           /\ advisory'[q] = advisory[q] /\ xlock'[q] = xlock[q] /\ nextId' = nextId,
           Updating(q) \/ Inserting(q) => company'[target[q]] = company[target[q]],
           pc[q] \in {"name", "similar", "insert", "flush"} =>
               Owners(rec[q].val["domain"])' = {}
    PROVE  /\ KeyHeld(q)' /\ DraftFaithful(q)' /\ DomainStaysFree(q)'
           /\ Inserting(q)' <=> Inserting(q)
<1>1. KeyHeld(q)'
  <2>1. KeyHeld(q)
    BY DEF ResolutionInv
  <2> QED BY <2>1, KeyKept
<1>2. (Inserting(q)' <=> Inserting(q)) /\ (Updating(q)' <=> Updating(q))
  BY DEF Inserting, Updating
<1>3. Updating(q) => UpdateFaithful(q)'
  BY DEF ResolutionInv, DraftFaithful, UpdateFaithful, Exists, DomainOf
<1>4. Inserting(q) => InsertFaithful(q)'
  BY DEF ResolutionInv, DraftFaithful, InsertFaithful, Exists
<1>5. DraftFaithful(q)'
  BY <1>2, <1>3, <1>4 DEF ResolutionInv, DraftFaithful
<1>6. DomainStaysFree(q)'
  BY DEF DomainStaysFree
<1> QED BY <1>1, <1>2, <1>5, <1>6

\* A commit writes the row it has locked or the id it has drawn.
LEMMA CommitInv ==
    ASSUME ResolutionInv, NEW r \in Run, Commit(r)
    PROVE  ResolutionInv'
<1> DEFINE c == target[r]
           row == draft[r].row
           d == rec[r].val["domain"]
<1> USE DEF database
<1>1. /\ pc[r] = "commit" /\ c \in CompanyId /\ row \in Row /\ c < nextId /\ nextId \in Int
      /\ rec[r] \in Record /\ d \in OptValue /\ advisory[r] = LockKey(rec[r])
      /\ ConnectorOf[r] \in Connector /\ row.val["domain"] \in OptValue
  <2>1. pc[r] = "commit" /\ c \in CompanyId /\ row \in Row /\ nextId \in Int
    BY DEF Commit, ResolutionInv, TypeOK, DraftFaithful, CompanyId
  <2>2. c < nextId
    BY <2>1 DEF ResolutionInv, IdsFresh, DraftFaithful, Updating, Inserting,
                UpdateFaithful, InsertFaithful
  <2>3. rec[r] # Null /\ advisory[r] = LockKey(rec[r])
    BY <2>1 DEF ResolutionInv, KeyHeld
  <2>4. row.val["domain"] \in OptValue
    BY <2>1, FieldMergeAssumption DEF Row
  <2> QED BY <2>1, <2>2, <2>3, <2>4, RecordType DEF ResolutionInv
<1>2. \/ Updating(r) /\ UpdateFaithful(r)
      \/ Inserting(r) /\ InsertFaithful(r)
  BY <1>1 DEF ResolutionInv, DraftFaithful, Updating, Inserting
<1>3. company' = [company EXCEPT ![c] = row]
  BY DEF Commit
<1>4. TypeOK'
  <2>1. company' \in [CompanyId -> Row \cup {Null}]
    BY <1>1, <1>3 DEF ResolutionInv, TypeOK
  <2>2. sources' \subseteq CompanyId \X Connector \X (Ext \cup {Null})
    BY <1>1 DEF Commit, WithSource, ResolutionInv, TypeOK, Record
  <2>3. located' \subseteq CompanyId \X Metro
    BY <1>1 DEF Commit, ResolutionInv, TypeOK, Record
  <2>4. pair' \in [Pairs -> {"none", "open", "resolved"}]
    BY DEF Commit, ResolutionInv, TypeOK
  <2>5. reported' \in [CompanyId -> SUBSET Value] /\ owned' \in [CompanyId -> SUBSET Value]
    BY <1>1 DEF Commit, ResolutionInv, TypeOK, OptValue
  <2>6. NoDraft \in [row: Row, created: BOOLEAN, pairs: SUBSET Pairs]
    BY EmptyRowType DEF NoDraft
  <2>7. draft' \in [Run -> [row: Row, created: BOOLEAN, pairs: SUBSET Pairs]]
    BY <2>6 DEF Commit, Release, ResolutionInv, TypeOK
  <2>8. /\ pc' \in [Run -> Stage] /\ rec' \in [Run -> Record \cup {Null}]
        /\ target' \in [Run -> CompanyId \cup {Null}]
        /\ pending' \in [Run -> SUBSET CompanyId]
        /\ other' \in [Run -> CompanyId \cup {Null}]
        /\ advisory' \in [Run -> Key \cup {Null}]
        /\ xlock' \in [Actor -> SUBSET CompanyId] /\ slock' \in [Actor -> SUBSET CompanyId]
    BY DEF Commit, Release, ResolutionInv, TypeOK, Stage, Actor
  <2>9. UNCHANGED <<nextId, todo, review, fault, cleared>>
    BY DEF Commit
  <2> QED BY <2>1, <2>2, <2>3, <2>4, <2>5, <2>7, <2>8, <2>9 DEF ResolutionInv, TypeOK
<1>5. /\ \A q \in Run \ {r} :
            /\ pc'[q] = pc[q] /\ rec'[q] = rec[q] /\ target'[q] = target[q]
            /\ pending'[q] = pending[q] /\ other'[q] = other[q] /\ draft'[q] = draft[q]
            /\ advisory'[q] = advisory[q]
      /\ \A a \in Actor \ {r} : xlock'[a] = xlock[a]
      /\ pc'[r] = "idle" /\ advisory'[r] = Null /\ xlock'[r] = {} /\ pending'[r] = {}
      /\ UNCHANGED <<nextId, review, fault>>
  BY DEF Commit, Release, ResolutionInv, TypeOK, Actor
<1>6. \A i \in CompanyId : i # c => company'[i] = company[i]
  BY <1>1, <1>3 DEF ResolutionInv, TypeOK
<1>7. company'[c] = row /\ row # Null
  BY <1>1, <1>3, ResolutionAssumption DEF ResolutionInv, TypeOK
<1> HIDE DEF c, row, d
<1>8. ASSUME NEW q \in Run, q # r
      PROVE  /\ KeyHeld(q)' /\ DraftFaithful(q)' /\ DomainStaysFree(q)'
             /\ Inserting(q)' <=> Inserting(q)
  <2>1. Updating(q) \/ Inserting(q) => company'[target[q]] = company[target[q]]
    <3>1. Updating(q) => target[q] \in CompanyId /\ UpdateFaithful(q)
      BY <1>8 DEF ResolutionInv, DraftFaithful, Updating
    <3>2. Inserting(q) => target[q] \in CompanyId /\ InsertFaithful(q)
      BY <1>8 DEF ResolutionInv, DraftFaithful, Inserting
    <3>3. q \in Actor /\ r \in Actor /\ xlock[q] \cap xlock[r] = {}
      BY <1>8 DEF ResolutionInv, Exclusive, Actor
    <3>4. Updating(q) \/ Inserting(q) => target[q] # c
      BY <1>2, <1>8, <3>1, <3>2, <3>3
      DEF ResolutionInv, Exclusive, UpdateFaithful, InsertFaithful, c
    <3> QED BY <1>6, <3>1, <3>2, <3>4
  <2>2. ASSUME pc[q] \in {"name", "similar", "insert", "flush"}
        PROVE  Owners(rec[q].val["domain"])' = {}
    <3> DEFINE e == rec[q].val["domain"]
    <3>1. Owners(e) = {} /\ advisory[q] = LockKey(rec[q])
      BY <1>8, <2>2 DEF ResolutionInv, DomainStaysFree, KeyHeld
    <3>2. ASSUME e # Null, row.val["domain"] = e PROVE FALSE
      <4>1. d = e
        BY <1>1, <1>2, <3>1, <3>2
        DEF UpdateFaithful, InsertFaithful, Owners, Exists, DomainOf, c, row, d
      <4>2. advisory[q] = advisory[r] /\ advisory[q] = <<"domain", e>>
        BY <1>1, <3>1, <3>2, <4>1 DEF LockKey, d
      <4>3. e \in Value
        BY <1>1, <3>2, <4>1 DEF OptValue
      <4> QED BY <1>8, <4>2, <4>3, ResolutionAssumption DEF ResolutionInv, Exclusive
    <3>3. e' = e
      BY <1>5, <1>8
    <3> HIDE DEF e
    <3>4. Owners(e)' = {}
      BY <1>6, <1>7, <3>1, <3>2, <3>3 DEF Owners, Exists, DomainOf
    <3> QED BY <3>4 DEF e
  <2> QED BY <1>5, <1>8, <2>1, <2>2, FrameRun DEF Actor
<1>9. KeyHeld(r)' /\ DraftFaithful(r)' /\ DomainStaysFree(r)' /\ ~ Inserting(r)'
  BY <1>5 DEF KeyHeld, DraftFaithful, DomainStaysFree, Updating, Inserting
<1>10. Exclusive'
  <2>1. ASSUME NEW p \in Run, NEW q \in Run, p # q
        PROVE  /\ advisory'[p] # Null => advisory'[p] # advisory'[q]
               /\ (Inserting(p) /\ Inserting(q))' => target'[p] # target'[q]
    BY <1>5, <1>8, <1>9, <2>1 DEF ResolutionInv, Exclusive
  <2>2. \A a, b \in Actor : a # b => xlock'[a] \cap xlock'[b] = {}
    BY <1>5 DEF ResolutionInv, Exclusive
  <2>3. xlock'[Reviewer] = xlock[Reviewer]
    BY <1>5, ResolutionAssumption DEF Actor
  <2>4. \A i \in CompanyId : Exists(i) => Exists(i)'
    BY <1>6, <1>7 DEF Exists
  <2> QED BY <1>5, <2>1, <2>2, <2>3, <2>4 DEF ResolutionInv, Exclusive
<1>11. IdsFresh' /\ NoIntegrityError'
  BY <1>1, <1>5, <1>6 DEF ResolutionInv, IdsFresh, NoIntegrityError, Exists
<1> QED BY <1>4, <1>8, <1>9, <1>10, <1>11 DEF ResolutionInv

\* A merge writes two rows it has locked, and its domain is in nobody's hands.
LEMMA FoldInv ==
    ASSUME ResolutionInv, Fold
    PROVE  ResolutionInv'
<1> DEFINE keep == review.keep
           drop == review.drop
           row == FillFromDiscarded(company[keep], company[drop])
<1>1. /\ keep \in CompanyId /\ drop \in CompanyId /\ keep # drop
      /\ Exists(keep) /\ Exists(drop) /\ {keep, drop} \subseteq xlock[Reviewer]
  BY DEF Fold, ResolutionInv, Exclusive
<1>2. /\ company[keep] \in Row /\ company[drop] \in Row /\ row \in Row
      /\ row.val["domain"] \in {DomainOf(keep), DomainOf(drop)}
  BY <1>1, FillType DEF ResolutionInv, TypeOK, Exists, DomainOf
<1>3. /\ company' = [company EXCEPT ![keep] = row, ![drop] = Null]
      /\ UNCHANGED <<nextId, todo, pc, rec, target, pending, other, draft, advisory, slock, fault>>
      /\ xlock' = [xlock EXCEPT ![Reviewer] = {}]
      /\ review' = NoReview
  BY DEF Fold, progress
<1> HIDE DEF row
<1>4. TypeOK'
  <2>1. company' \in [CompanyId -> Row \cup {Null}]
    BY <1>1, <1>2, <1>3 DEF ResolutionInv, TypeOK
  <2>2. sources' \subseteq CompanyId \X Connector \X (Ext \cup {Null})
    BY <1>1 DEF Fold, MergedSources, ResolutionInv, TypeOK
  <2>3. located' \subseteq CompanyId \X Metro
    <3>1. located' = {l \in located : l[1] # drop}
                     \cup {<<keep, m>> : m \in {n \in Metro : <<drop, n>> \in located}}
      BY DEF Fold
    <3>2. located \subseteq CompanyId \X Metro
      BY DEF ResolutionInv, TypeOK
    <3> HIDE DEF keep, drop
    <3>3. ASSUME NEW m \in Metro PROVE <<keep, m>> \in CompanyId \X Metro
      BY <1>1
    <3> QED BY <3>1, <3>2, <3>3
  <2>4. pair' \in [Pairs -> {"none", "open", "resolved"}]
    BY DEF Fold, RepointedPairs, ResolutionInv, TypeOK
  <2>5. reported' \in [CompanyId -> SUBSET Value] /\ owned' \in [CompanyId -> SUBSET Value]
    BY <1>1 DEF Fold, ResolutionInv, TypeOK
  <2>6. cleared' \subseteq CompanyId \X Value
    <3>1. cleared' = cleared \cup DeletedVerdicts(keep, drop)
      BY DEF Fold
    <3>2. cleared \subseteq CompanyId \X Value
      BY DEF ResolutionInv, TypeOK
    <3>3. DeletedVerdicts(keep, drop) \subseteq CompanyId \X Value
      BY DEF DeletedVerdicts
    <3> HIDE DEF keep, drop
    <3> QED BY <3>1, <3>2, <3>3
  <2>7. xlock' \in [Actor -> SUBSET CompanyId] /\ review' = NoReview
    BY <1>3 DEF ResolutionInv, TypeOK, Actor
  <2>8. review' \in [pc: {"idle", "first", "second", "fold"},
                      keep: CompanyId \cup {Null}, drop: CompanyId \cup {Null}]
    BY <2>7 DEF NoReview
  <2> HIDE DEF keep, drop
  <2> QED BY <1>3, <2>1, <2>2, <2>3, <2>4, <2>5, <2>6, <2>7, <2>8 DEF ResolutionInv, TypeOK
<1>5. /\ \A i \in CompanyId \ {keep, drop} : company'[i] = company[i]
      /\ company'[keep] = row /\ company'[drop] = Null /\ row # Null
  BY <1>1, <1>2, <1>3, ResolutionAssumption DEF ResolutionInv, TypeOK
<1>6. /\ \A a \in Actor \ {Reviewer} : xlock'[a] = xlock[a]
      /\ xlock'[Reviewer] = {}
  BY <1>3 DEF ResolutionInv, TypeOK, Actor
<1>7. ASSUME NEW e \in OptValue, Owners(e) = {}
      PROVE  Owners(e)' = {}
  BY <1>1, <1>2, <1>5, <1>7 DEF Owners, Exists, DomainOf
<1>8. ASSUME NEW q \in Run
      PROVE  /\ KeyHeld(q)' /\ DraftFaithful(q)' /\ DomainStaysFree(q)'
             /\ Inserting(q)' <=> Inserting(q)
  <2>1. Updating(q) \/ Inserting(q) => company'[target[q]] = company[target[q]]
    <3>1. Updating(q) => target[q] \in CompanyId /\ UpdateFaithful(q)
      BY <1>8 DEF ResolutionInv, DraftFaithful, Updating
    <3>2. Inserting(q) => target[q] \in CompanyId /\ InsertFaithful(q)
      BY <1>8 DEF ResolutionInv, DraftFaithful, Inserting
    <3>3. q \in Actor /\ Reviewer \in Actor /\ xlock[q] \cap xlock[Reviewer] = {}
      BY <1>8, ResolutionAssumption DEF ResolutionInv, Exclusive, Actor
    <3>4. Updating(q) \/ Inserting(q) => target[q] \notin {keep, drop}
      BY <1>1, <3>1, <3>2, <3>3 DEF UpdateFaithful, InsertFaithful
    <3> QED BY <1>5, <3>1, <3>2, <3>4
  <2>2. ASSUME pc[q] \in {"name", "similar", "insert", "flush"}
        PROVE  Owners(rec[q].val["domain"])' = {}
    <3> DEFINE e == rec[q].val["domain"]
    <3>1. Owners(e) = {} /\ e \in OptValue /\ e' = e
      BY <1>3, <1>8, <2>2, RecordType DEF ResolutionInv, DomainStaysFree, KeyHeld
    <3> HIDE DEF e
    <3>2. Owners(e)' = {}
      BY <1>7, <3>1
    <3> QED BY <3>2 DEF e
  <2>3. q \in Actor \ {Reviewer}
    BY <1>8, ResolutionAssumption DEF Actor
  <2> QED BY <1>3, <1>6, <1>8, <2>1, <2>2, <2>3, FrameRun
<1>9. Exclusive'
  <2>1. ASSUME NEW p \in Run, NEW q \in Run, p # q
        PROVE  /\ advisory'[p] # Null => advisory'[p] # advisory'[q]
               /\ (Inserting(p) /\ Inserting(q))' => target'[p] # target'[q]
    BY <1>3, <1>8, <2>1 DEF ResolutionInv, Exclusive
  <2>2. \A a, b \in Actor : a # b => xlock'[a] \cap xlock'[b] = {}
    BY <1>6 DEF ResolutionInv, Exclusive
  <2> QED BY <1>3, <2>1, <2>2 DEF Exclusive, NoReview
<1>10. IdsFresh' /\ NoIntegrityError'
  BY <1>1, <1>3, <1>5 DEF ResolutionInv, IdsFresh, NoIntegrityError, Exists
<1> QED BY <1>4, <1>8, <1>9, <1>10 DEF ResolutionInv

(***************************************************************************)
(* The other steps of a reviewer                                           *)
(***************************************************************************)

\* A step of merge-review that writes no company and keeps its row locks apart.
LEMMA ReviewStep ==
    ASSUME ResolutionInv,
           UNCHANGED <<company, nextId, pc, rec, target, pending, other, draft, advisory, fault>>,
           TypeOK',
           \A a \in Actor \ {Reviewer} : xlock'[a] = xlock[a] /\ xlock'[Reviewer] \cap xlock[a] = {},
           review'.pc # "idle" => /\ review'.keep \in CompanyId /\ review'.drop \in CompanyId
                                  /\ review'.keep # review'.drop,
           review'.pc = "second" =>
               PairOf(review'.keep, review'.drop)[1] \in xlock'[Reviewer],
           review'.pc = "fold" => /\ {review'.keep, review'.drop} \subseteq xlock'[Reviewer]
                                  /\ Exists(review'.keep) /\ Exists(review'.drop)
    PROVE  ResolutionInv'
<1>1. ASSUME NEW q \in Run
      PROVE  /\ KeyHeld(q)' /\ DraftFaithful(q)' /\ DomainStaysFree(q)'
             /\ Inserting(q)' <=> Inserting(q)
  <2>1. q \in Actor \ {Reviewer}
    BY <1>1, ResolutionAssumption DEF Actor
  <2>2. pc[q] \in {"name", "similar", "insert", "flush"} => Owners(rec[q].val["domain"])' = {}
    BY <1>1 DEF ResolutionInv, DomainStaysFree, Owners, Exists, DomainOf
  <2> QED BY <1>1, <2>1, <2>2, FrameRun
<1>2. Exclusive'
  <2>1. \A a, b \in Actor : a # b => xlock'[a] \cap xlock'[b] = {}
    BY DEF ResolutionInv, Exclusive
  <2>2. \A i : Exists(i)' <=> Exists(i)
    BY DEF Exists
  <2> QED BY <1>1, <2>1, <2>2 DEF ResolutionInv, Exclusive
<1>3. IdsFresh' /\ NoIntegrityError'
  BY DEF ResolutionInv, IdsFresh, NoIntegrityError, Exists
<1> QED BY <1>1, <1>2, <1>3 DEF ResolutionInv

\* A verdict changes no company.
LEMMA NotDuplicateInv ==
    ASSUME ResolutionInv, NotDuplicate
    PROVE  ResolutionInv'
<1> USE DEF progress, locks, history
<1>1. PICK p \in OpenPairs : pair' = [pair EXCEPT ![p] = "resolved"]
  BY DEF NotDuplicate
<1>2. pair' \in [Pairs -> {"none", "open", "resolved"}]
  BY <1>1 DEF ResolutionInv, TypeOK
<1>3. TypeOK'
  BY <1>2 DEF NotDuplicate, ResolutionInv, TypeOK
<1>4. UNCHANGED <<company, nextId, pc, rec, target, pending, other, draft, advisory, fault,
                  review, xlock>> /\ review.pc = "idle"
  BY DEF NotDuplicate
<1>5. \A a \in Actor \ {Reviewer} : xlock[Reviewer] \cap xlock[a] = {}
  BY DEF ResolutionInv, Exclusive, Actor
<1> QED BY <1>3, <1>4, <1>5, ReviewStep

\* A merge starts with two distinct companies.
LEMMA ChooseSurvivorInv ==
    ASSUME ResolutionInv, ChooseSurvivor
    PROVE  ResolutionInv'
<1> USE DEF database, progress, locks, history
<1>1. PICK p \in OpenPairs, i \in {1, 2} :
          review' = [pc |-> "first", keep |-> p[i], drop |-> p[3 - i]]
  BY DEF ChooseSurvivor
<1>2. p[i] \in CompanyId /\ p[3 - i] \in CompanyId /\ p[i] # p[3 - i]
  BY DEF OpenPairs, Pairs, CompanyId
<1>3. TypeOK'
  BY <1>1, <1>2 DEF ChooseSurvivor, ResolutionInv, TypeOK
<1>4. UNCHANGED <<company, nextId, pc, rec, target, pending, other, draft, advisory, fault, xlock>>
  BY DEF ChooseSurvivor
<1>5. \A a \in Actor \ {Reviewer} : xlock[Reviewer] \cap xlock[a] = {}
  BY DEF ResolutionInv, Exclusive, Actor
<1> QED BY <1>1, <1>2, <1>3, <1>4, <1>5, ReviewStep

\* The merge takes its first row lock.
LEMMA LockFirstInv ==
    ASSUME ResolutionInv, LockFirst
    PROVE  ResolutionInv'
<1> DEFINE c == PairOf(review.keep, review.drop)[1]
<1> USE DEF database, progress, history
<1>1. /\ review.pc = "first" /\ UpdateBlockers(Reviewer, c) = {}
      /\ xlock' = [xlock EXCEPT ![Reviewer] = {c}]
      /\ review' = [review EXCEPT !.pc = "second"]
      /\ UNCHANGED <<database, nextId, todo, progress, advisory, slock, fault, history>>
  BY DEF LockFirst
<1>2. /\ review.keep \in CompanyId /\ review.drop \in CompanyId /\ review.keep # review.drop
      /\ c \in CompanyId
  BY <1>1 DEF ResolutionInv, Exclusive, PairOf
<1> HIDE DEF c
<1>3. xlock' \in [Actor -> SUBSET CompanyId] /\ xlock'[Reviewer] = {c}
      /\ \A a \in Actor \ {Reviewer} : xlock'[a] = xlock[a]
  BY <1>1, <1>2 DEF ResolutionInv, TypeOK, Actor
<1>4. /\ review'.pc = "second" /\ review'.keep = review.keep /\ review'.drop = review.drop
      /\ review' \in [pc: {"idle", "first", "second", "fold"},
                      keep: CompanyId \cup {Null}, drop: CompanyId \cup {Null}]
  BY <1>1 DEF ResolutionInv, TypeOK
<1>5. TypeOK'
  BY <1>1, <1>3, <1>4 DEF ResolutionInv, TypeOK
<1>6. \A a \in Actor \ {Reviewer} : xlock'[Reviewer] \cap xlock[a] = {}
  BY <1>1, <1>3 DEF UpdateBlockers
<1> QED BY <1>1, <1>2, <1>3, <1>4, <1>5, <1>6, ReviewStep DEF c

\* The merge takes its second row lock, or finds a company gone.
LEMMA LockSecondInv ==
    ASSUME ResolutionInv, LockSecond
    PROVE  ResolutionInv'
<1> DEFINE c == PairOf(review.keep, review.drop)[2]
<1> USE DEF database, progress, history
<1>1. /\ review.pc = "second" /\ UpdateBlockers(Reviewer, c) = {}
      /\ UNCHANGED <<database, nextId, todo, progress, advisory, slock, fault, history>>
      /\ \/ /\ Exists(review.keep) /\ Exists(review.drop)
            /\ xlock' = [xlock EXCEPT ![Reviewer] = {review.keep, review.drop}]
            /\ review' = [review EXCEPT !.pc = "fold"]
         \/ xlock' = [xlock EXCEPT ![Reviewer] = {}] /\ review' = NoReview
  BY DEF LockSecond
<1>2. /\ review.keep \in CompanyId /\ review.drop \in CompanyId /\ review.keep # review.drop
      /\ PairOf(review.keep, review.drop)[1] \in xlock[Reviewer]
      /\ {review.keep, review.drop} = {PairOf(review.keep, review.drop)[1], c}
  BY <1>1 DEF ResolutionInv, Exclusive, PairOf
<1>3. \A a \in Actor \ {Reviewer} : /\ {review.keep, review.drop} \cap xlock[a] = {}
                                    /\ Reviewer \in Actor
  <2>1. ASSUME NEW a \in Actor \ {Reviewer}
        PROVE  c \notin xlock[a] /\ PairOf(review.keep, review.drop)[1] \notin xlock[a]
    <3>1. Reviewer \in Actor
      BY DEF Actor
    <3> HIDE DEF c
    <3> QED BY <1>1, <1>2, <2>1, <3>1 DEF ResolutionInv, Exclusive, UpdateBlockers
  <2> HIDE DEF c
  <2> QED BY <1>2, <2>1 DEF Actor
<1> HIDE DEF c
<1>4. /\ xlock' \in [Actor -> SUBSET CompanyId]
      /\ xlock'[Reviewer] \in {{review.keep, review.drop}, {}}
      /\ \A a \in Actor \ {Reviewer} : xlock'[a] = xlock[a]
      /\ review'.pc = "fold" => xlock'[Reviewer] = {review.keep, review.drop}
  <2>1. xlock \in [Actor -> SUBSET CompanyId] /\ Reviewer \in Actor
    BY DEF ResolutionInv, TypeOK, Actor
  <2>2. NoReview.pc = "idle"
    BY DEF NoReview
  <2> QED BY <1>1, <1>2, <2>1, <2>2
<1>5. /\ review' \in [pc: {"idle", "first", "second", "fold"},
                      keep: CompanyId \cup {Null}, drop: CompanyId \cup {Null}]
      /\ review'.pc # "second"
      /\ review'.pc # "idle" => review'.keep = review.keep /\ review'.drop = review.drop
      /\ review'.pc = "fold" => Exists(review.keep) /\ Exists(review.drop)
  BY <1>1 DEF ResolutionInv, TypeOK, NoReview
<1>6. TypeOK'
  BY <1>1, <1>4, <1>5 DEF ResolutionInv, TypeOK
<1>7. \A a \in Actor \ {Reviewer} : xlock'[Reviewer] \cap xlock[a] = {}
  BY <1>3, <1>4
<1> QED BY <1>1, <1>2, <1>4, <1>5, <1>6, <1>7, ReviewStep

\* A merge that is rolled back gives its locks back.
LEMMA RollBackReviewInv ==
    ASSUME ResolutionInv, RollBackReview
    PROVE  ResolutionInv'
<1> USE DEF database, progress, history
<1>1. /\ xlock' = [xlock EXCEPT ![Reviewer] = {}] /\ review' = NoReview
      /\ UNCHANGED <<database, nextId, todo, progress, advisory, slock, fault, history>>
  BY DEF RollBackReview
<1>2. xlock' \in [Actor -> SUBSET CompanyId] /\ xlock'[Reviewer] = {}
      /\ \A a \in Actor \ {Reviewer} : xlock'[a] = xlock[a]
  BY <1>1 DEF ResolutionInv, TypeOK, Actor
<1>3. TypeOK'
  <2>1. review' \in [pc: {"idle", "first", "second", "fold"},
                     keep: CompanyId \cup {Null}, drop: CompanyId \cup {Null}]
    BY <1>1 DEF NoReview
  <2> QED BY <1>1, <1>2, <2>1 DEF ResolutionInv, TypeOK
<1>4. review'.pc = "idle"
  BY <1>1 DEF NoReview
<1>5. \A a \in Actor \ {Reviewer} : xlock'[Reviewer] \cap xlock[a] = {}
  BY <1>2
<1> QED BY <1>1, <1>2, <1>3, <1>4, <1>5, ReviewStep

(***************************************************************************)
(* Theorems                                                                *)
(***************************************************************************)

\* Every step of runs and reviewer keeps the invariant.
THEOREM NextInv == ResolutionInv /\ [Next]_vars => ResolutionInv'
<1> SUFFICES ASSUME ResolutionInv, [Next]_vars PROVE ResolutionInv'
  OBVIOUS
<1>1. CASE UNCHANGED vars
  <2> USE <1>1 DEF vars, database, progress, locks, history
  <2>1. TypeOK'
    BY DEF ResolutionInv, TypeOK
  <2>2. \A a \in Actor \ {Reviewer} : xlock[Reviewer] \cap xlock[a] = {}
    BY DEF ResolutionInv, Exclusive, Actor
  <2>3. review' = review /\ xlock' = xlock /\ \A i : Exists(i)' <=> Exists(i)
    BY DEF Exists
  <2> QED BY <2>1, <2>2, <2>3, ReviewStep DEF ResolutionInv, Exclusive
<1>2. ASSUME NEW r \in Run, Begin(r) \/ Upsert(r) \/ Crash(r)
      PROVE  ResolutionInv'
  <2>1. CASE RunIsVictim(r)
    BY <2>1, FailInv DEF RunIsVictim, Fault
  <2>2. CASE Crash(r)
    <3>1. todo' \in [Run -> SUBSET Record]
      BY <2>2 DEF Crash, ResolutionInv, TypeOK
    <3> QED BY <2>2, <3>1, ReleaseInv DEF Crash
  <2> QED BY <1>2, <2>1, <2>2, BeginInv, TakeLockInv, ResolveInv, ResolveSimilarInv,
             InsertInv, LockRowInv, UpdateInv, FlushInv, RecordCandidateInv, CommitInv
          DEF Upsert
<1>3. CASE NotDuplicate \/ ChooseSurvivor \/ Merge \/ ReviewCrash
  BY <1>3, NotDuplicateInv, ChooseSurvivorInv, LockFirstInv, LockSecondInv, FoldInv,
     RollBackReviewInv DEF Merge, ReviewIsVictim, ReviewCrash
<1> QED BY <1>1, <1>2, <1>3 DEF Next

\* Every reachable state satisfies the strengthened invariant.
THEOREM Invariance == Spec => []ResolutionInv
BY InitInv, NextInv, PTL DEF Spec

\* Every variable keeps its type, for any number of runs, records and values.
THEOREM TypesHold == Spec => []TypeOK
<1>1. ResolutionInv => TypeOK
  BY DEF ResolutionInv
<1> QED BY <1>1, Invariance, PTL

\* No record is lost to the unique index on companies.domain, whatever runs and
\* merges overlap: the advisory lock on the domain, taken before resolution, is
\* enough (_lock_resolution_key, _insert_company, _update_company).
THEOREM DomainsNeverCollide == Spec => []NoIntegrityError
<1>1. ResolutionInv => NoIntegrityError
  BY DEF ResolutionInv
<1> QED BY <1>1, Invariance, PTL

(***************************************************************************)
(* What a step of one run leaves alone                                     *)
(***************************************************************************)

\* Run q, its transaction and its locks are where they were.
Frozen(q) ==
    /\ pc'[q] = pc[q] /\ rec'[q] = rec[q] /\ draft'[q] = draft[q]
    /\ target'[q] = target[q] /\ pending'[q] = pending[q] /\ other'[q] = other[q]
    /\ xlock'[q] = xlock[q] /\ slock'[q] = slock[q]

\* A step of run r is no step of the other runs.
LEMMA OthersFrozen ==
    ASSUME TypeOK, NEW r \in Run, Begin(r) \/ Upsert(r) \/ Crash(r),
           NEW q \in Run, q # r
    PROVE  Frozen(q)
<1> USE DEF locks, Frozen
<1>1. CASE Begin(r) \/ TakeLock(r)
  BY <1>1 DEF Begin, TakeLock, TypeOK
<1>2. CASE Release(r)
  BY <1>2 DEF Release, TypeOK, Actor
<1>3. CASE (\E c : Found(r, c)) \/ (\E label : GoOn(r, label)) \/ Absent(r)
  BY <1>2, <1>3 DEF Found, GoOn, Absent, TypeOK
<1>4. CASE ResolveExternal(r) \/ ResolveDomain(r) \/ ResolveName(r)
  BY <1>3, <1>4 DEF ResolveExternal, ResolveDomain, ResolveName
<1>5. CASE ResolveSimilar(r)
  BY <1>2, <1>5 DEF ResolveSimilar, TypeOK
<1>6. CASE Insert(r)
  BY <1>6 DEF Insert, NextCandidate, TypeOK
<1>7. CASE LockRow(r)
  BY <1>2, <1>7 DEF LockRow, Fail, TypeOK, Actor
<1>8. CASE Update(r)
  BY <1>8 DEF Update, NextCandidate, TypeOK
<1>9. CASE Flush(r)
  BY <1>2, <1>9 DEF Flush, Fail, TypeOK
<1>10. CASE RecordCandidate(r)
  BY <1>2, <1>10 DEF RecordCandidate, NextCandidate, Fail, TypeOK, Actor
<1>11. CASE Commit(r) \/ Crash(r) \/ RunIsVictim(r)
  BY <1>2, <1>11 DEF Commit, Crash, RunIsVictim, Fail
<1> QED BY <1>1, <1>4, <1>5, <1>6, <1>7, <1>8, <1>9, <1>10, <1>11 DEF Upsert

\* Until it commits, a run writes nothing the others read.
LEMMA DatabaseFrozen ==
    ASSUME NEW r \in Run, Begin(r) \/ Upsert(r) \/ Crash(r), ~ Commit(r)
    PROVE  UNCHANGED <<database, history, review>>
<1> USE DEF Fail
<1>1. CASE Begin(r) \/ TakeLock(r) \/ Insert(r) \/ LockRow(r) \/ Update(r) \/ Flush(r)
  BY <1>1 DEF Begin, TakeLock, Insert, LockRow, Update, Flush
<1>2. CASE ResolveExternal(r) \/ ResolveDomain(r) \/ ResolveName(r) \/ ResolveSimilar(r)
  BY <1>2 DEF ResolveExternal, ResolveDomain, ResolveName, ResolveSimilar
<1>3. CASE RecordCandidate(r) \/ RunIsVictim(r) \/ Crash(r)
  BY <1>3 DEF RecordCandidate, RunIsVictim, Crash
<1> QED BY <1>1, <1>2, <1>3 DEF Upsert

(***************************************************************************)
(* The merge operators                                                     *)
(***************************************************************************)

\* The rank of a connector is an integer, whatever the connector.
LEMMA RankType ==
    ASSUME NEW c
    PROVE  ConnectorRank(c) \in Int
<1>1. Len(Priority) \in Nat /\ DOMAIN Priority = 1..Len(Priority)
  BY FieldMergeAssumption
<1>2. CASE \E i \in DOMAIN Priority : Priority[i] = c
  <2>1. (CHOOSE i \in DOMAIN Priority : Priority[i] = c) \in DOMAIN Priority
    BY <1>2
  <2> QED BY <1>1, <1>2, <2>1 DEF ConnectorRank
<1>3. CASE ~ \E i \in DOMAIN Priority : Priority[i] = c
  BY <1>3 DEF ConnectorRank
<1> QED BY <1>2, <1>3

\* A row is never below itself.
LEMMA NeverLowerReflexive ==
    ASSUME NEW row
    PROVE  NeverLower(row, row)
BY RankType DEF NeverLower

\* merge_company_fields takes a field over only from an equal or lower rank.
LEMMA MergeNeverLowers ==
    ASSUME NEW row \in Row, NEW inc \in [Field -> OptValue], NEW c \in Connector,
           OwnersHaveValues(row)
    PROVE  /\ NeverLower(row, MergeCompanyFields(row, inc, c))
           /\ OwnersHaveValues(MergeCompanyFields(row, inc, c))
<1> DEFINE W == Writable(row, inc, c)
           new == MergeCompanyFields(row, inc, c)
<1>1. \A f \in Field : /\ new.val[f] = IF f \in W THEN inc[f] ELSE row.val[f]
                       /\ new.prov[f] = IF f \in W THEN c ELSE row.prov[f]
  BY DEF MergeCompanyFields
<1>2. \A f \in W : /\ f \in Field /\ inc[f] # Null
                   /\ ~ (f = "domain" /\ row.val[f] # Null)
                   /\ MayOverwrite(row.val[f], row.prov[f], c)
  BY DEF Writable
<1> HIDE DEF W, new
<1>3. c # Null
  BY FieldMergeAssumption
<1>4. OwnersHaveValues(new)
  BY <1>1, <1>2, <1>3 DEF OwnersHaveValues
<1>5. row.val["domain"] # Null => new.val["domain"] = row.val["domain"]
  BY <1>1, <1>2, FieldMergeAssumption
<1>6. ASSUME NEW f \in Field, row.prov[f] # Null
      PROVE  new.prov[f] # Null /\ ConnectorRank(new.prov[f]) >= ConnectorRank(row.prov[f])
  <2>1. CASE f \in W
    <3>1. row.val[f] # Null
      BY <1>6 DEF OwnersHaveValues
    <3>2. row.prov[f] = c \/ ConnectorRank(c) > ConnectorRank(row.prov[f])
      BY <1>2, <1>6, <2>1, <3>1 DEF MayOverwrite
    <3> QED BY <1>1, <1>3, <2>1, <3>2, RankType
  <2>2. CASE f \notin W
    BY <1>1, <1>6, <2>2, RankType
  <2> QED BY <2>1, <2>2
<1> QED BY <1>4, <1>5, <1>6 DEF NeverLower, new

\* Leaving the domain out of a merge keeps both facts.
LEMMA WithoutDomainNeverLowers ==
    ASSUME NEW stored \in Row, NEW merged \in Row,
           NeverLower(stored, merged), OwnersHaveValues(stored), OwnersHaveValues(merged)
    PROVE  /\ NeverLower(stored, WithoutDomain(merged, stored))
           /\ OwnersHaveValues(WithoutDomain(merged, stored))
<1> DEFINE new == WithoutDomain(merged, stored)
<1>1. \A f \in Field : /\ new.val[f] = IF f = "domain" THEN stored.val[f] ELSE merged.val[f]
                       /\ new.prov[f] = IF f = "domain" THEN stored.prov[f] ELSE merged.prov[f]
  BY DEF WithoutDomain, Row
<1> HIDE DEF new
<1>2. new.val["domain"] = stored.val["domain"]
  BY <1>1, FieldMergeAssumption
<1>3. NeverLower(stored, new)
  BY <1>1, <1>2, RankType DEF NeverLower
<1>4. OwnersHaveValues(new)
  BY <1>1 DEF OwnersHaveValues
<1> QED BY <1>3, <1>4 DEF new

\* merge_companies only fills what the survivor lacks.
LEMMA FillNeverLowers ==
    ASSUME NEW keep \in Row, NEW drop \in Row,
           OwnersHaveValues(keep), OwnersHaveValues(drop)
    PROVE  /\ NeverLower(keep, FillFromDiscarded(keep, drop))
           /\ OwnersHaveValues(FillFromDiscarded(keep, drop))
<1> DEFINE Filled == {f \in Field : keep.val[f] = Null /\ drop.val[f] # Null}
           new == FillFromDiscarded(keep, drop)
<1>1. \A f \in Field :
          /\ new.val[f] = IF f \in Filled THEN drop.val[f] ELSE keep.val[f]
          /\ new.prov[f] = IF f \in Filled /\ keep.prov[f] = Null
                           THEN drop.prov[f] ELSE keep.prov[f]
  BY DEF FillFromDiscarded
<1> HIDE DEF new
<1>2. NeverLower(keep, new)
  BY <1>1, RankType, FieldMergeAssumption DEF NeverLower
<1>3. OwnersHaveValues(new)
  BY <1>1 DEF OwnersHaveValues
<1> QED BY <1>2, <1>3 DEF new

\* A new row is credited to its connector alone.
LEMMA InsertOwnersHaveValues ==
    ASSUME NEW inc \in [Field -> OptValue], NEW c \in Connector
    PROVE  OwnersHaveValues(MergeCompanyFields(EmptyRow, inc, c))
<1>1. OwnersHaveValues(EmptyRow)
  BY DEF OwnersHaveValues, EmptyRow
<1> QED BY <1>1, EmptyRowType, MergeNeverLowers

(***************************************************************************)
(* The steps                                                               *)
(***************************************************************************)

\* A step after which run q's draft is what it was, or is gone.
Quiet(q) ==
    /\ Updating(q)' => Updating(q) /\ draft'[q].row = draft[q].row /\ target'[q] = target[q]
    /\ Inserting(q)' => Inserting(q) /\ draft'[q].row = draft[q].row

\* Steps that write no row and no draft keep the invariant.
LEMMA QuietStep ==
    ASSUME AuthorityInv, company' = company, \A q \in Run : Quiet(q)
    PROVE  AuthorityInv'
<1>1. \A c \in CompanyId : Exists(c)' => OwnersHaveValues(company[c])'
  BY DEF AuthorityInv, Exists, OwnersHaveValues
<1>2. ASSUME NEW q \in Run PROVE DraftNeverLower(q)'
  <2>1. /\ Updating(q)' => NeverLower(company[target[q]], draft[q].row)'
        /\ (Updating(q) \/ Inserting(q))' => OwnersHaveValues(draft[q].row)'
    BY <1>2 DEF AuthorityInv, DraftNeverLower, Quiet, NeverLower, OwnersHaveValues
  <2> QED BY <2>1 DEF DraftNeverLower
<1> QED BY <1>1, <1>2 DEF AuthorityInv

\* The steps of run r leave the other runs' drafts alone.
LEMMA OthersQuiet ==
    ASSUME TypeOK, NEW r \in Run, Begin(r) \/ Upsert(r) \/ Crash(r),
           NEW q \in Run, q # r
    PROVE  pc'[q] = pc[q] /\ draft'[q] = draft[q] /\ target'[q] = target[q] /\ Quiet(q)
BY OthersFrozen DEF Frozen, Quiet, Updating, Inserting

\* Every step of a run but the three that write a draft and Commit is quiet.
LEMMA QuietRun ==
    ASSUME ResolutionInv, AuthorityInv, NEW r \in Run, Begin(r) \/ Upsert(r) \/ Crash(r),
           ~ Insert(r), ~ LockRow(r), ~ Update(r), ~ Commit(r)
    PROVE  AuthorityInv' /\ company' = company
<1>1. TypeOK
  BY DEF ResolutionInv
<1>2. CASE Release(r) /\ UNCHANGED database
  BY <1>1, <1>2, OthersQuiet, QuietStep
  DEF Release, database, Quiet, Updating, Inserting, TypeOK
<1>3. CASE Begin(r) \/ TakeLock(r)
  <2>1. Quiet(r) /\ company' = company
    BY <1>1, <1>3 DEF Begin, TakeLock, database, Quiet, Updating, Inserting, TypeOK
  <2> QED BY <1>1, <2>1, OthersQuiet, QuietStep
<1>4. CASE ResolveExternal(r) \/ ResolveDomain(r) \/ ResolveName(r) \/ ResolveSimilar(r)
  <2>1. CASE ~ Release(r)
    <3>1. pc'[r] \in {"row", "domain", "name", "similar", "insert"} /\ company' = company
      BY <1>1, <1>4, <2>1 DEF ResolveExternal, ResolveDomain, ResolveName, ResolveSimilar,
         Found, GoOn, Absent, database, TypeOK
    <3>2. Quiet(r)
      BY <3>1 DEF Quiet, Updating, Inserting
    <3> QED BY <1>1, <3>1, <3>2, OthersQuiet, QuietStep
  <2>2. CASE Release(r)
    BY <1>2, <1>4, <2>2
    DEF ResolveExternal, ResolveDomain, ResolveName, ResolveSimilar, database
  <2> QED BY <2>1, <2>2
<1>5. CASE Flush(r) \/ RecordCandidate(r)
  <2>1. CASE ~ Release(r)
    <3>1. /\ pc[r] \in {"flush", "candidates"}
          /\ pc[r] = "flush" => ~ draft[r].created
          /\ pc'[r] \in {"candidates", "commit"} /\ company' = company /\ target' = target
          /\ draft'[r].row = draft[r].row /\ draft'[r].created = draft[r].created
      <4>1. pc[r] = "flush" => ~ draft[r].created
        BY DEF ResolutionInv, DraftFaithful, Updating, UpdateFaithful
      <4>2. CASE Flush(r)
        BY <1>1, <2>1, <4>1, <4>2 DEF Flush, Fail, database, TypeOK
      <4>3. CASE RecordCandidate(r)
        <5>1. draft[r] \in [row: Row, created: BOOLEAN, pairs: SUBSET Pairs]
          BY <1>1 DEF TypeOK
        <5>2. \/ UNCHANGED draft
              \/ draft' = [draft EXCEPT ![r].pairs = @ \cup {PairOf(target[r], other[r])}]
          BY <2>1, <4>3 DEF RecordCandidate, Fail
        <5>3. draft'[r].row = draft[r].row /\ draft'[r].created = draft[r].created
          BY <1>1, <5>1, <5>2 DEF TypeOK
        <5> QED BY <1>1, <2>1, <4>1, <4>3, <5>3
                DEF RecordCandidate, NextCandidate, Fail, database, TypeOK
      <4> QED BY <1>5, <4>2, <4>3
    <3>2. Quiet(r)
      BY <3>1 DEF Quiet, Updating, Inserting
    <3> QED BY <1>1, <3>1, <3>2, OthersQuiet, QuietStep
  <2>2. CASE Release(r)
    BY <1>2, <1>5, <2>2 DEF Flush, RecordCandidate, Fail, database
  <2> QED BY <2>1, <2>2
<1>6. CASE Crash(r) \/ RunIsVictim(r)
  BY <1>2, <1>6 DEF Crash, RunIsVictim, Fail
<1> QED BY <1>2, <1>3, <1>4, <1>5, <1>6 DEF Upsert, database

\* A step of run r that leaves the companies alone and a sound draft behind.
LEMMA DraftStep ==
    ASSUME ResolutionInv, AuthorityInv, NEW r \in Run, Begin(r) \/ Upsert(r) \/ Crash(r),
           company' = company, DraftNeverLower(r)'
    PROVE  AuthorityInv'
<1>1. \A c \in CompanyId : Exists(c)' => OwnersHaveValues(company[c])'
  BY DEF AuthorityInv, Exists, OwnersHaveValues
<1>2. ASSUME NEW q \in Run, q # r PROVE DraftNeverLower(q)'
  <2>1. pc'[q] = pc[q] /\ draft'[q] = draft[q] /\ target'[q] = target[q]
    BY <1>2, OthersQuiet DEF ResolutionInv
  <2>2. DraftNeverLower(q)
    BY DEF AuthorityInv
  <2> QED BY <2>1, <2>2 DEF DraftNeverLower, Updating, Inserting, NeverLower, OwnersHaveValues
<1> QED BY <1>1, <1>2 DEF AuthorityInv

\* A new row credits only fields it has a value for.
LEMMA InsertAuthority ==
    ASSUME ResolutionInv, AuthorityInv, NEW r \in Run, Insert(r)
    PROVE  AuthorityInv' /\ company' = company
<1> DEFINE row == MergeCompanyFields(EmptyRow, rec[r].val, ConnectorOf[r])
           new == [row |-> row, created |-> TRUE, pairs |-> {}]
<1>1. rec[r] # Null
  BY DEF Insert, ResolutionInv, KeyHeld
<1>2. OwnersHaveValues(row)
  BY <1>1, RecordType, InsertOwnersHaveValues DEF ResolutionInv
<1>3. company' = company
  BY DEF Insert, database
<1>4. pc'[r] = "row" \/ draft'[r] = new
  BY DEF Insert, ResolutionInv, TypeOK
<1>5. new.row = row /\ new.created = TRUE
  OBVIOUS
<1> HIDE DEF row, new
<1>6. DraftNeverLower(r)'
  <2>1. CASE pc'[r] = "row"
    BY <2>1 DEF DraftNeverLower, Updating, Inserting
  <2>2. CASE draft'[r] = new
    <3>1. pc'[r] \in {"row", "candidates", "commit"}
      BY DEF Insert, NextCandidate, ResolutionInv, TypeOK
    <3>2. ~ Updating(r)'
      BY <1>5, <2>2, <3>1 DEF Updating
    <3>3. OwnersHaveValues(draft[r].row)'
      BY <1>2, <1>5, <2>2 DEF OwnersHaveValues
    <3> QED BY <3>2, <3>3 DEF DraftNeverLower
  <2> QED BY <1>4, <2>1, <2>2
<1> QED BY <1>3, <1>6, DraftStep DEF Upsert

\* The draft of an update starts as the row that was just locked.
LEMMA LockRowAuthority ==
    ASSUME ResolutionInv, AuthorityInv, NEW r \in Run, LockRow(r)
    PROVE  AuthorityInv' /\ company' = company
<1>1. company' = company
  BY DEF LockRow, Fail, database
<1>2. CASE ~ Exists(target[r])
  <2>1. pc'[r] = "idle"
    BY <1>2 DEF LockRow, Fail, Release, ResolutionInv, TypeOK
  <2>2. DraftNeverLower(r)'
    BY <2>1 DEF DraftNeverLower, Updating, Inserting
  <2> QED BY <1>1, <2>2, DraftStep DEF Upsert
<1>3. CASE Exists(target[r])
  <2>1. target[r] \in CompanyId
    BY DEF LockRow, ResolutionInv, DraftFaithful
  <2>2. draft'[r].row = company[target[r]] /\ target' = target
    BY <1>3 DEF LockRow, ResolutionInv, TypeOK
  <2>3. OwnersHaveValues(company[target[r]]) /\ NeverLower(company[target[r]], company[target[r]])
    BY <1>3, <2>1, NeverLowerReflexive DEF AuthorityInv
  <2>4. DraftNeverLower(r)'
    BY <1>1, <2>2, <2>3 DEF DraftNeverLower, NeverLower, OwnersHaveValues
  <2> QED BY <1>1, <2>4, DraftStep DEF Upsert
<1> QED BY <1>2, <1>3

\* The priority merge raises the draft, with or without the domain.
LEMMA UpdateAuthority ==
    ASSUME ResolutionInv, AuthorityInv, NEW r \in Run, Update(r)
    PROVE  AuthorityInv' /\ company' = company
<1> DEFINE stored == draft[r].row
           merged == MergeCompanyFields(stored, rec[r].val, ConnectorOf[r])
           kept == WithoutDomain(merged, stored)
<1>1. /\ pc[r] = "merge" /\ rec[r] # Null /\ stored = company[target[r]] /\ stored \in Row
      /\ company' = company /\ target' = target
  BY DEF Update, database, ResolutionInv, TypeOK, KeyHeld, DraftFaithful, UpdateFaithful,
         Updating
<1>2. OwnersHaveValues(stored)
  BY <1>1 DEF AuthorityInv, DraftNeverLower, Updating
<1>3. merged \in Row /\ NeverLower(stored, merged) /\ OwnersHaveValues(merged)
  BY <1>1, <1>2, MergeType, MergeNeverLowers, RecordType DEF ResolutionInv
<1>4. NeverLower(stored, kept) /\ OwnersHaveValues(kept)
  BY <1>1, <1>2, <1>3, WithoutDomainNeverLowers
<1>5. \E row \in {merged, kept} : draft' = [draft EXCEPT ![r].row = row]
  BY DEF Update
<1> HIDE DEF stored, merged, kept
<1>6. draft'[r].row \in {merged, kept}
  BY <1>5 DEF ResolutionInv, TypeOK
<1>7. DraftNeverLower(r)'
  BY <1>1, <1>3, <1>4, <1>6 DEF DraftNeverLower, NeverLower, OwnersHaveValues
<1> QED BY <1>1, <1>7, DraftStep DEF Upsert

\* The two steps that write companies replace a row by one that is not below it.
LEMMA CommitAuthority ==
    ASSUME ResolutionInv, AuthorityInv, NEW r \in Run, Commit(r)
    PROVE  /\ AuthorityInv'
           /\ \A c \in CompanyId : Exists(c) => NeverLower(company[c], company'[c])
<1> DEFINE t == target[r]
           row == draft[r].row
<1>1. /\ pc[r] = "commit" /\ t \in CompanyId
      /\ company' = [company EXCEPT ![t] = row]
      /\ \A i \in CompanyId : i # t => company'[i] = company[i]
      /\ company'[t] = row
  BY DEF Commit, ResolutionInv, TypeOK, DraftFaithful
<1>2. Updating(r) \/ (Inserting(r) /\ ~ Exists(t))
  BY <1>1 DEF ResolutionInv, DraftFaithful, InsertFaithful, Updating, Inserting
<1>3. OwnersHaveValues(row) /\ (Exists(t) => NeverLower(company[t], row))
  BY <1>2 DEF AuthorityInv, DraftNeverLower
<1>4. pc'[r] = "idle"
  BY DEF Commit, Release, ResolutionInv, TypeOK
<1> HIDE DEF t, row
<1>5. \A c \in CompanyId : Exists(c) => NeverLower(company[c], company'[c])
  BY <1>1, <1>3, NeverLowerReflexive
<1>6. \A c \in CompanyId : Exists(c)' => OwnersHaveValues(company[c])'
  BY <1>1, <1>3 DEF AuthorityInv, Exists, OwnersHaveValues
<1>7. ASSUME NEW q \in Run PROVE DraftNeverLower(q)'
  <2>1. CASE q = r
    BY <1>4, <2>1 DEF DraftNeverLower, Updating, Inserting
  <2>2. CASE q # r
    <3>1. pc'[q] = pc[q] /\ draft'[q] = draft[q] /\ target'[q] = target[q]
      BY <2>2, OthersQuiet DEF ResolutionInv, Upsert
    <3>2. Updating(q) => company'[target[q]] = company[target[q]]
      <4>1. Updating(q) => target[q] \in CompanyId /\ UpdateFaithful(q)
        BY DEF ResolutionInv, DraftFaithful, Updating
      <4>2. Updating(r) => t \in xlock[r]
        BY DEF ResolutionInv, DraftFaithful, UpdateFaithful, t
      <4>3. xlock[q] \cap xlock[r] = {}
        BY <2>2 DEF ResolutionInv, Exclusive, Actor
      <4> QED BY <1>1, <1>2, <4>1, <4>2, <4>3 DEF UpdateFaithful
    <3>3. DraftNeverLower(q)
      BY DEF AuthorityInv
    <3> QED BY <3>1, <3>2, <3>3
            DEF DraftNeverLower, Updating, Inserting, NeverLower, OwnersHaveValues
  <2> QED BY <2>1, <2>2
<1> QED BY <1>5, <1>6, <1>7 DEF AuthorityInv

\* A merge fills fields of the survivor and takes none away from it.
LEMMA FoldAuthority ==
    ASSUME ResolutionInv, AuthorityInv, Fold
    PROVE  /\ AuthorityInv'
           /\ \A c \in CompanyId :
                  Exists(c) /\ Exists(c)' => NeverLower(company[c], company'[c])
<1> DEFINE keep == review.keep
           drop == review.drop
           row == FillFromDiscarded(company[keep], company[drop])
<1>1. /\ keep \in CompanyId /\ drop \in CompanyId /\ keep # drop
      /\ Exists(keep) /\ Exists(drop) /\ {keep, drop} \subseteq xlock[Reviewer]
  BY DEF Fold, ResolutionInv, Exclusive
<1>2. company[keep] \in Row /\ company[drop] \in Row
  BY <1>1 DEF ResolutionInv, TypeOK, Exists
<1>3. NeverLower(company[keep], row) /\ OwnersHaveValues(row)
  BY <1>1, <1>2, FillNeverLowers DEF AuthorityInv
<1>4. /\ company' = [company EXCEPT ![keep] = row, ![drop] = Null]
      /\ UNCHANGED <<pc, draft, target>>
  BY DEF Fold, progress
<1> HIDE DEF row
<1>5. /\ \A i \in CompanyId \ {keep, drop} : company'[i] = company[i]
      /\ company'[keep] = row /\ company'[drop] = Null
  BY <1>1, <1>4 DEF ResolutionInv, TypeOK
<1>6. \A c \in CompanyId : Exists(c) /\ Exists(c)' => NeverLower(company[c], company'[c])
  BY <1>3, <1>5, NeverLowerReflexive DEF Exists
<1>7. \A c \in CompanyId : Exists(c)' => OwnersHaveValues(company[c])'
  BY <1>3, <1>5 DEF AuthorityInv, Exists, OwnersHaveValues
<1>8. ASSUME NEW q \in Run PROVE DraftNeverLower(q)'
  <2>1. Updating(q) => company'[target[q]] = company[target[q]]
    <3>1. Updating(q) => target[q] \in CompanyId /\ UpdateFaithful(q)
      BY DEF ResolutionInv, DraftFaithful, Updating
    <3>2. xlock[q] \cap xlock[Reviewer] = {}
      BY ResolutionAssumption DEF ResolutionInv, Exclusive, Actor
    <3> QED BY <1>1, <1>5, <3>1, <3>2 DEF UpdateFaithful
  <2>2. DraftNeverLower(q)
    BY DEF AuthorityInv
  <2> QED BY <1>4, <2>1, <2>2
          DEF DraftNeverLower, Updating, Inserting, NeverLower, OwnersHaveValues
<1> QED BY <1>6, <1>7, <1>8 DEF AuthorityInv

(***************************************************************************)
(* Theorem                                                                 *)
(***************************************************************************)

\* Every step of runs and reviewer keeps the invariant.
LEMMA AuthorityStep ==
    ASSUME ResolutionInv, AuthorityInv, [Next]_vars
    PROVE  /\ AuthorityInv'
           /\ \A c \in CompanyId :
                  Exists(c) /\ Exists(c)' => NeverLower(company[c], company'[c])
<1> DEFINE Step == \A c \in CompanyId :
                       Exists(c) /\ Exists(c)' => NeverLower(company[c], company'[c])
<1>1. company' = company => Step
  BY NeverLowerReflexive
<1>2. ASSUME NEW r \in Run, Begin(r) \/ Upsert(r) \/ Crash(r)
      PROVE  AuthorityInv' /\ Step
  <2>1. CASE Commit(r)
    BY <2>1, CommitAuthority
  <2>2. CASE ~ Commit(r)
    <3>1. AuthorityInv' /\ company' = company
      BY <1>2, <2>2, QuietRun, InsertAuthority, LockRowAuthority, UpdateAuthority
    <3> QED BY <1>1, <3>1
  <2> QED BY <2>1, <2>2
<1>3. CASE Fold
  BY <1>3, FoldAuthority
<1>4. CASE UNCHANGED <<company, pc, draft, target>>
  <2>1. \A q \in Run : Quiet(q)
    BY <1>4 DEF Quiet, Updating, Inserting
  <2> QED BY <1>1, <1>4, <2>1, QuietStep
<1>5. CASE NotDuplicate \/ ChooseSurvivor \/ LockFirst \/ LockSecond \/ ReviewIsVictim \/ ReviewCrash
           \/ UNCHANGED vars
  BY <1>4, <1>5
  DEF NotDuplicate, ChooseSurvivor, LockFirst, LockSecond, ReviewIsVictim, ReviewCrash,
      RollBackReview, vars, database, progress
<1> QED BY <1>2, <1>3, <1>5 DEF Next, Merge

\* No company, no draft.
LEMMA AuthorityInit == Init => AuthorityInv
BY DEF Init, AuthorityInv, Exists, DraftNeverLower, Updating, Inserting

\* For any connectors, priorities and feeds, and any interleaving of upserts and
\* merges, the owner of a field only ever gives way to an equal or more
\* authoritative connector, and a stored domain never changes.
THEOREM AuthorityIsMonotone == Spec => AuthorityNeverFalls
<1>1. ResolutionInv /\ AuthorityInv /\ [Next]_vars =>
          [\A c \in CompanyId :
              (Exists(c) /\ Exists(c)') => NeverLower(company[c], company'[c])]_company
  BY AuthorityStep
<1>2. ResolutionInv /\ AuthorityInv /\ [Next]_vars => ResolutionInv' /\ AuthorityInv'
  BY AuthorityStep, NextInv
<1>3. Init => ResolutionInv /\ AuthorityInv
  BY InitInv, AuthorityInit
<1> QED BY <1>1, <1>2, <1>3, PTL DEF Spec, AuthorityNeverFalls

(***************************************************************************)
(* Verdicts                                                                *)
(***************************************************************************)

\* Every write of merge_candidates leaves a resolved pair resolved, or deletes it.
LEMMA VerdictStep ==
    ASSUME TypeOK, [Next]_vars, NEW p \in Pairs, pair[p] = "resolved"
    PROVE  pair'[p] # "open"
<1>1. CASE UNCHANGED pair
  BY <1>1
<1>2. ASSUME NEW r \in Run, Begin(r) \/ Upsert(r) \/ Crash(r)
      PROVE  pair'[p] # "open"
  <2>1. CASE Commit(r)
    BY <2>1 DEF Commit
  <2>2. CASE ~ Commit(r)
    BY <1>1, <1>2, <2>2, DatabaseFrozen DEF database
  <2> QED BY <2>1, <2>2
<1>3. CASE NotDuplicate
  BY <1>3 DEF NotDuplicate, TypeOK
<1>4. CASE Fold
  BY <1>4 DEF Fold, RepointedPairs
<1>5. CASE ChooseSurvivor \/ LockFirst \/ LockSecond \/ ReviewIsVictim \/ ReviewCrash
           \/ UNCHANGED vars
  BY <1>1, <1>5 DEF ChooseSurvivor, LockFirst, LockSecond, ReviewIsVictim, ReviewCrash,
                    RollBackReview, vars, database
<1> QED BY <1>2, <1>3, <1>4, <1>5 DEF Next, Merge

\* No upsert and no repointing of a merge offers a pair again that a reviewer ruled
\* on, for any runs and feeds (SPEC section 8).
THEOREM VerdictsAreFinal == Spec => VerdictIsFinal
<1>1. TypeOK /\ [Next]_vars =>
          [\A p \in Pairs : pair[p] = "resolved" => pair'[p] # "open"]_pair
  BY VerdictStep
<1> QED BY <1>1, TypesHold, PTL DEF Spec, VerdictIsFinal

(***************************************************************************)
(* Waiting                                                                 *)
(***************************************************************************)

\* Nobody has a domain in flight that an insert or an update writes: both would hold
\* the advisory key of the domain.
LEMMA NoIndexWait ==
    ASSUME ResolutionInv, NEW r \in Run, pc[r] \in {"insert", "flush"}
    PROVE  WaitsFor(r) \cap Run = {}
<1> DEFINE d == rec[r].val["domain"]
<1>1. rec[r] # Null /\ advisory[r] = LockKey(rec[r])
  BY DEF ResolutionInv, KeyHeld
<1>2. d \in OptValue /\ rec[r].val \in [Field -> OptValue] /\ ConnectorOf[r] \in Connector
  BY <1>1, RecordType DEF ResolutionInv
<1>3. WrittenDomain(r) = d
  <2>1. CASE pc[r] = "insert"
    BY <1>2, <2>1, InsertDomain DEF WrittenDomain
  <2>2. CASE pc[r] = "flush"
    BY <2>2 DEF WrittenDomain, ResolutionInv, DraftFaithful, Updating, UpdateFaithful
  <2> QED BY <2>1, <2>2
<1>4. WaitsFor(r) = IndexBlockers(r, d)
  BY <1>3, ResolutionAssumption DEF WaitsFor
<1>5. ASSUME NEW q \in Run, q # r, InFlight(q, d)
      PROVE  FALSE
  <2> DEFINE e == draft[q].row.val["domain"]
  <2>1. d # Null /\ e = d /\ pc[q] \in {"candidates", "commit"}
        /\ (draft[q].created \/ target[q] \notin Owners(d))
    BY <1>5 DEF InFlight
  <2>2. rec[q] # Null /\ advisory[q] = LockKey(rec[q]) /\ target[q] \in CompanyId
    BY <2>1 DEF ResolutionInv, KeyHeld, DraftFaithful
  <2>3. rec[q].val["domain"] = d
    <3>1. CASE draft[q].created
      BY <2>1, <3>1 DEF ResolutionInv, DraftFaithful, Inserting, InsertFaithful
    <3>2. CASE ~ draft[q].created
      <4>1. UpdateFaithful(q)
        BY <2>1, <3>2 DEF ResolutionInv, DraftFaithful, Updating
      <4>2. DomainOf(target[q]) # d
        BY <2>1, <2>2, <3>2, <4>1 DEF UpdateFaithful, Owners
      <4> QED BY <2>1, <4>1, <4>2 DEF UpdateFaithful
    <3> QED BY <3>1, <3>2
  <2>4. LockKey(rec[r]) = <<"domain", d>> /\ LockKey(rec[q]) = <<"domain", d>>
    BY <2>1, <2>3 DEF LockKey
  <2>5. <<"domain", d>> # Null
    BY <1>2, <2>1, ResolutionAssumption DEF OptValue
  <2> QED BY <1>1, <1>5, <2>2, <2>4, <2>5 DEF ResolutionInv, Exclusive
<1> QED BY <1>4, <1>5 DEF IndexBlockers

\* A run that waits for a candidate's company waits for an update of it, which itself
\* waits for nobody or is recording a conflict; then the first is an insert.
LEMMA CandidateWait ==
    ASSUME ResolutionInv, DeadlockInv, NEW r \in Run, pc[r] = "candidates",
           NEW q \in WaitsFor(r) \cap Run
    PROVE  /\ pc[q] \in {"merge", "flush", "candidates", "commit"} /\ ~ draft[q].created
           /\ pc[q] = "candidates" => draft[r].created
<1>1. q # r /\ other[r] \in xlock[q]
  BY ResolutionAssumption DEF WaitsFor, ShareBlockers
<1>2. Updating(q) /\ target[q] = other[r]
  BY <1>1 DEF DeadlockInv, RowsHeld
<1>3. UpdateFaithful(q)
  BY <1>2 DEF ResolutionInv, DraftFaithful
<1>4. pc[q] = "candidates" /\ ~ draft[r].created => FALSE
  BY <1>2, <1>3 DEF DeadlockInv, ConflictNamed, UpdateFaithful
<1> QED BY <1>2, <1>3, <1>4 DEF Updating, UpdateFaithful

\* A run that waits for a row waits for a transaction that is past all rows.
LEMMA RowWait ==
    ASSUME ResolutionInv, DeadlockInv, NEW r \in Run, pc[r] = "row",
           NEW q \in WaitsFor(r) \cap Run
    PROVE  pc[q] \in {"merge", "flush", "candidates", "commit"}
<1>1. target[r] \in xlock[q] \cup slock[q]
  BY ResolutionAssumption DEF WaitsFor, UpdateBlockers
<1> QED BY <1>1 DEF DeadlockInv, RowsHeld, Updating

\* A run that waits for an advisory key waits for one that has taken it.
LEMMA KeyWait ==
    ASSUME ResolutionInv, NEW r \in Run, pc[r] = "lock", NEW q \in WaitsFor(r) \cap Run
    PROVE  pc[q] # "lock"
<1>1. advisory[q] = LockKey(rec[r]) /\ LockKey(rec[r]) # Null
  BY ResolutionAssumption DEF WaitsFor, ResolutionInv, KeyHeld
<1> QED BY <1>1 DEF ResolutionInv, KeyHeld

\* The other stages wait for nobody.
LEMMA OtherWait ==
    ASSUME NEW r \in Run, pc[r] \notin {"lock", "row", "insert", "flush", "candidates"}
    PROVE  WaitsFor(r) = {}
BY ResolutionAssumption DEF WaitsFor

\* So in every set of runs there is one that waits for no other of them: the one that
\* is furthest in the order key < row < candidates of an insert < candidates of an
\* update < everything else.
LEMMA NoCycle ==
    ASSUME ResolutionInv, DeadlockInv
    PROVE  UpsertsNeverDeadlock
<1> SUFFICES ASSUME NEW S \in (SUBSET Run) \ {{}},
                    \A s \in S : WaitsFor(s) \cap S # {}
             PROVE  FALSE
  BY DEF UpsertsNeverDeadlock
<1>1. ASSUME NEW s \in S PROVE pc[s] \in {"lock", "row", "candidates"}
  BY NoIndexWait, OtherWait
<1>2. ASSUME NEW s \in S, pc[s] = "candidates" PROVE FALSE
  <2>1. PICK q \in S : q \in WaitsFor(s)
    OBVIOUS
  <2>2. pc[q] = "candidates" /\ ~ draft[q].created
    BY <1>1, <1>2, <2>1, CandidateWait
  <2>3. PICK t \in S : t \in WaitsFor(q)
    OBVIOUS
  <2>4. pc[t] = "candidates"
    BY <1>1, <2>2, <2>3, CandidateWait
  <2> QED BY <2>2, <2>3, <2>4, CandidateWait
<1>3. ASSUME NEW s \in S, pc[s] = "row" PROVE FALSE
  BY <1>1, <1>2, <1>3, RowWait
<1>4. ASSUME NEW s \in S, pc[s] = "lock" PROVE FALSE
  BY <1>1, <1>2, <1>3, <1>4, KeyWait
<1> QED BY <1>1, <1>2, <1>3, <1>4

(***************************************************************************)
(* DeadlockInv is inductive                                                *)
(***************************************************************************)

\* Before its first transaction a run holds nothing.
LEMMA DeadlockInit == Init => DeadlockInv
<1> SUFFICES ASSUME Init PROVE DeadlockInv
  OBVIOUS
<1>1. ASSUME NEW r \in Run PROVE RowsHeld(r) /\ ConflictNamed(r)
  BY DEF Init, RowsHeld, ConflictNamed, Updating, Actor
<1>2. ASSUME NEW q \in Run, NEW r \in Run PROVE NewIdUnnamed(q, r)
  BY DEF Init, NewIdUnnamed, Inserting
<1> QED BY <1>1, <1>2 DEF DeadlockInv

\* Steps that write no company and leave run q alone keep what is said of q.
LEMMA FrozenLocks ==
    ASSUME ResolutionInv, DeadlockInv, NEW q \in Run, Frozen(q), company' = company,
           nextId' \in {nextId, nextId + 1}
    PROVE  RowsHeld(q)' /\ ConflictNamed(q)'
<1>1. RowsHeld(q) /\ ConflictNamed(q)
  BY DEF DeadlockInv
<1>2. pc[q] = "candidates" => other[q] \in Int /\ nextId \in Int
  BY DEF ResolutionInv, TypeOK, DraftFaithful, CompanyId
<1>3. RowsHeld(q)'
  BY <1>1, <1>2 DEF RowsHeld, Updating, Frozen
<1>4. ConflictNamed(q)'
  BY <1>1 DEF ConflictNamed, Exists, DomainOf, Frozen
<1> QED BY <1>3, <1>4

\* A step of run r that writes no company keeps DeadlockInv if it keeps the part about
\* r, names only companies that exist, and inserts only under a new id.
LEMMA LocalLocks ==
    ASSUME ResolutionInv, DeadlockInv, NEW r \in Run, Begin(r) \/ Upsert(r) \/ Crash(r),
           company' = company, nextId' \in {nextId, nextId + 1},
           RowsHeld(r)', ConflictNamed(r)',
           \A c \in pending'[r] : c \in pending[r] \/ (c \in CompanyId /\ Exists(c)),
           pc'[r] = "candidates" =>
               other'[r] \in pending[r] \/ (other'[r] \in CompanyId /\ Exists(other'[r])),
           Inserting(r)' => \/ Inserting(r) /\ target'[r] = target[r]
                            \/ target'[r] = nextId
    PROVE  DeadlockInv'
<1>1. ASSUME NEW q \in Run, q # r
      PROVE  Frozen(q) /\ (Inserting(q)' <=> Inserting(q))
  BY <1>1, OthersFrozen DEF ResolutionInv, Frozen, Inserting
<1>2. ASSUME NEW q \in Run PROVE RowsHeld(q)' /\ ConflictNamed(q)'
  BY <1>1, FrozenLocks
<1>3. ASSUME NEW q \in Run, Inserting(q)
      PROVE  target[q] \in CompanyId /\ ~ Exists(target[q]) /\ target[q] < nextId
  BY <1>3 DEF ResolutionInv, DraftFaithful, Inserting, InsertFaithful
<1>4. ASSUME NEW q \in Run
      PROVE  /\ \A c \in pending[q] : c < nextId /\ c \in Int
             /\ pc[q] = "candidates" => other[q] < nextId /\ other[q] \in Int
  <2>1. \A c \in pending[q] : c < nextId /\ c \in Int
    BY DEF ResolutionInv, TypeOK, DraftFaithful, CompanyId
  <2>2. DraftFaithful(q) /\ RowsHeld(q)
    BY DEF ResolutionInv, DeadlockInv
  <2>3. pc[q] = "candidates" => other[q] < nextId /\ other[q] \in Int
    BY <2>2 DEF DraftFaithful, CompanyId, RowsHeld
  <2> QED BY <2>1, <2>3
<1>5. \A c \in CompanyId : Exists(c) => c < nextId /\ c \in Int
  BY DEF ResolutionInv, IdsFresh, CompanyId
<1>6. nextId \in Int
  BY DEF ResolutionInv, TypeOK
<1>7. ASSUME NEW p \in Run, NEW q \in Run, Inserting(p)'
      PROVE  target'[p] \notin pending'[q] /\ (pc'[q] = "candidates" => target'[p] # other'[q])
  <2>1. NewIdUnnamed(p, q)
    BY DEF DeadlockInv
  <2>2. CASE p # r /\ q # r
    BY <1>1, <1>7, <2>1, <2>2 DEF NewIdUnnamed, Frozen
  <2>3. CASE p # r /\ q = r
    BY <1>1, <1>3, <1>7, <2>1, <2>3 DEF NewIdUnnamed, Frozen
  <2>4. CASE p = r /\ q # r
    BY <1>1, <1>4, <1>6, <1>7, <2>1, <2>4 DEF NewIdUnnamed, Frozen
  <2>5. CASE p = r /\ q = r
    <3>1. CASE Inserting(r) /\ target'[r] = target[r]
      BY <1>3, <2>1, <2>5, <3>1 DEF NewIdUnnamed
    <3>2. CASE target'[r] = nextId
      BY <1>4, <1>5, <1>6, <2>5, <3>2
    <3> QED BY <1>7, <2>5, <3>1, <3>2
  <2> QED BY <2>2, <2>3, <2>4, <2>5
<1> QED BY <1>2, <1>7 DEF DeadlockInv, NewIdUnnamed

\* The end of a transaction that wrote nothing gives back what it held.
LEMMA ReleaseLocks ==
    ASSUME ResolutionInv, DeadlockInv, NEW r \in Run, Begin(r) \/ Upsert(r) \/ Crash(r),
           Release(r), company' = company, nextId' = nextId
    PROVE  DeadlockInv'
<1>1. /\ pc'[r] = "idle" /\ xlock'[r] = {} /\ slock'[r] = {} /\ pending'[r] = {}
  BY DEF Release, ResolutionInv, TypeOK, Actor
<1>2. RowsHeld(r)' /\ ConflictNamed(r)' /\ ~ Inserting(r)'
  BY <1>1 DEF RowsHeld, ConflictNamed, Updating, Inserting
<1> QED BY <1>1, <1>2, LocalLocks

\* Until it has found its company a run holds no row and names no company.
LEMMA ResolveLocks ==
    ASSUME ResolutionInv, DeadlockInv, NEW r \in Run,
           \/ Begin(r) \/ TakeLock(r) \/ ResolveExternal(r) \/ ResolveDomain(r)
           \/ ResolveName(r) \/ ResolveSimilar(r)
    PROVE  DeadlockInv'
<1>1. UNCHANGED <<company, nextId>>
  BY DEF Begin, TakeLock, ResolveExternal, ResolveDomain, ResolveName, ResolveSimilar, database
<1>2. Begin(r) \/ Upsert(r)
  BY DEF Upsert
<1>3. CASE Release(r)
  BY <1>1, <1>2, <1>3, ReleaseLocks
<1>4. CASE ~ Release(r)
  <2>1. /\ pc[r] \notin {"merge", "flush", "candidates", "commit"}
        /\ pc'[r] \in {"lock", "external", "domain", "name", "similar", "insert", "row"}
        /\ UNCHANGED <<xlock, slock>>
        /\ \A c \in pending'[r] : c \in pending[r] \/ (c \in CompanyId /\ Exists(c))
    <3>1. CASE Begin(r) \/ TakeLock(r)
      BY <3>1 DEF Begin, TakeLock, ResolutionInv, TypeOK, locks
    <3>2. CASE ResolveExternal(r) \/ ResolveDomain(r) \/ ResolveName(r)
      BY <1>4, <3>2 DEF ResolveExternal, ResolveDomain, ResolveName, Found, GoOn, Absent,
                        ResolutionInv, TypeOK, locks
    <3>3. CASE ResolveSimilar(r)
      <4> DEFINE P == {c \in CompanyId : /\ Exists(c)
                                         /\ <<c, rec[r].metro>> \in located
                                         /\ <<NameOf(c), rec[r].val["name"]>> \in Similar}
      <4>1. pending' = [pending EXCEPT ![r] = P]
        BY <1>4, <3>3 DEF ResolveSimilar
      <4>2. \A c \in P : c \in CompanyId /\ Exists(c)
        OBVIOUS
      <4> HIDE DEF P
      <4>3. /\ pc[r] = "similar" /\ pc' = [pc EXCEPT ![r] = "insert"]
            /\ UNCHANGED <<xlock, slock>>
        BY <1>4, <3>3 DEF ResolveSimilar, locks
      <4> QED BY <4>1, <4>2, <4>3 DEF ResolutionInv, TypeOK
    <3> QED BY <3>1, <3>2, <3>3
  <2>2. xlock[r] = {} /\ slock[r] = {}
    BY <2>1 DEF DeadlockInv, RowsHeld, Updating
  <2>3. RowsHeld(r)' /\ ConflictNamed(r)' /\ ~ Inserting(r)'
    BY <2>1, <2>2 DEF RowsHeld, ConflictNamed, Updating, Inserting
  <2> QED BY <1>1, <1>2, <2>1, <2>3, LocalLocks
<1> QED BY <1>3, <1>4

\* No insert finds its domain taken.
LEMMA InsertEffect ==
    ASSUME ResolutionInv, NEW r \in Run, Insert(r)
    PROVE  /\ pc[r] = "insert" /\ nextId \in CompanyId
           /\ target'[r] = nextId /\ nextId' = nextId + 1
           /\ draft'[r].row.val["domain"] = rec[r].val["domain"]
           /\ draft'[r].created = TRUE /\ draft'[r].pairs = {}
           /\ pc'[r] \in {"candidates", "commit"} /\ pending'[r] = pending[r]
           /\ pc'[r] = "candidates" => other'[r] \in pending[r]
           /\ UNCHANGED <<rec, locks>>
<1> DEFINE row == MergeCompanyFields(EmptyRow, rec[r].val, ConnectorOf[r])
           new == [row |-> row, created |-> TRUE, pairs |-> {}]
<1>1. rec[r] # Null /\ Owners(rec[r].val["domain"]) = {} /\ pc[r] = "insert"
  BY DEF Insert, ResolutionInv, KeyHeld, DomainStaysFree
<1>2. row.val["domain"] = rec[r].val["domain"]
  BY <1>1, RecordType, InsertDomain DEF ResolutionInv
<1>3. /\ nextId \in CompanyId
      /\ target' = [target EXCEPT ![r] = nextId]
      /\ nextId' = nextId + 1
      /\ draft' = [draft EXCEPT ![r] = new]
      /\ NextCandidate(r, pending[r])
      /\ UNCHANGED <<rec, locks>>
  BY <1>1, <1>2, Zenon DEF Insert
<1> HIDE DEF new
<1>4. pending[r] \in SUBSET CompanyId
  BY DEF ResolutionInv, TypeOK
<1>5. target'[r] = nextId /\ draft'[r] = new
  BY <1>3 DEF ResolutionInv, TypeOK
<1>6. /\ draft'[r].row.val["domain"] = rec[r].val["domain"]
      /\ draft'[r].created = TRUE /\ draft'[r].pairs = {}
  BY <1>2, <1>5 DEF new
<1>7. /\ pc'[r] \in {"candidates", "commit"} /\ pending'[r] = pending[r]
      /\ pc'[r] = "candidates" => other'[r] \in pending[r]
  BY <1>3, <1>4, NextCandidateEffect DEF ResolutionInv
<1> QED BY <1>1, <1>3, <1>5, <1>6, <1>7

\* An insert holds no row, and the companies it names were there before it.
LEMMA InsertLocks ==
    ASSUME ResolutionInv, DeadlockInv, NEW r \in Run, Insert(r)
    PROVE  DeadlockInv'
<1>1. /\ pc[r] = "insert" /\ target'[r] = nextId /\ nextId' = nextId + 1
      /\ draft'[r].created /\ pc'[r] \in {"candidates", "commit"}
      /\ pending'[r] = pending[r]
      /\ pc'[r] = "candidates" => other'[r] \in pending[r]
      /\ UNCHANGED <<xlock, slock>>
  BY InsertEffect DEF locks
<1>2. xlock[r] = {} /\ slock[r] = {}
  BY <1>1 DEF DeadlockInv, RowsHeld, Updating
<1>3. \A c \in pending[r] : c < nextId /\ c \in Int
  BY DEF ResolutionInv, TypeOK, DraftFaithful, CompanyId
<1>4. nextId \in Int /\ company' = company
  BY DEF Insert, database, ResolutionInv, TypeOK
<1>5. RowsHeld(r)' /\ ConflictNamed(r)'
  BY <1>1, <1>2, <1>3, <1>4 DEF RowsHeld, ConflictNamed, Updating
<1> QED BY <1>1, <1>4, <1>5, LocalLocks DEF Upsert

\* An update takes its own row.
LEMMA LockRowLocks ==
    ASSUME ResolutionInv, DeadlockInv, NEW r \in Run, LockRow(r)
    PROVE  DeadlockInv'
<1>1. UNCHANGED <<company, nextId>>
  BY DEF LockRow, Fail, database
<1>2. CASE ~ Exists(target[r])
  BY <1>1, <1>2, ReleaseLocks DEF LockRow, Fail, Upsert
<1>3. CASE Exists(target[r])
  <2>1. /\ pc[r] = "row" /\ pc'[r] = "merge" /\ xlock'[r] = {target[r]}
        /\ UNCHANGED <<target, pending, slock>>
    BY <1>3 DEF LockRow, ResolutionInv, TypeOK, Actor
  <2>2. slock[r] = {}
    BY <2>1 DEF DeadlockInv, RowsHeld
  <2>3. RowsHeld(r)' /\ ConflictNamed(r)' /\ ~ Inserting(r)'
    BY <2>1, <2>2 DEF RowsHeld, ConflictNamed, Updating, Inserting
  <2> QED BY <1>1, <2>1, <2>3, LocalLocks DEF Upsert
<1> QED BY <1>2, <1>3

\* A domain the row has none of is written, whoever owns the field.
LEMMA MergeFillsDomain ==
    ASSUME NEW row \in Row, NEW inc \in [Field -> OptValue], NEW c \in Connector,
           row.val["domain"] = Null
    PROVE  MergeCompanyFields(row, inc, c).val["domain"] = inc["domain"]
BY FieldMergeAssumption DEF MergeCompanyFields, Writable, MayOverwrite

\* An update writes the record's domain where none is stored, unless another company
\* has it; then it names that company instead.
LEMMA UpdateEffect ==
    ASSUME ResolutionInv, NEW r \in Run, Update(r), NEW d, d = rec[r].val["domain"],
           NEW rivals, rivals = Owners(d) \ {target[r]}
    PROVE  /\ pc[r] = "merge" /\ target[r] \in CompanyId /\ Exists(target[r])
           /\ UNCHANGED <<company, nextId, rec, target, locks>>
           /\ draft'[r].created = FALSE /\ draft'[r].pairs = draft[r].pairs
           /\ \/ /\ pc'[r] = "candidates" /\ other'[r] \in rivals /\ pending'[r] = rivals
                 /\ DomainOf(target[r]) = Null /\ d # Null
              \/ /\ pc'[r] = "flush" /\ draft'[r].row.val["domain"] = d /\ d # Null
                 /\ pending'[r] = pending[r]
              \/ /\ pc'[r] = "commit" /\ pending'[r] = pending[r]
                 /\ draft'[r].row.val["domain"] = DomainOf(target[r])
                 /\ DomainOf(target[r]) = Null => d = Null
<1> DEFINE stored == draft[r].row
           merged == MergeCompanyFields(stored, rec[r].val, ConnectorOf[r])
           kept == WithoutDomain(merged, stored)
           Rivals == Owners(merged.val["domain"]) \ {target[r]}
<1>1. /\ pc[r] = "merge" /\ rec[r] # Null /\ target[r] \in CompanyId
      /\ UNCHANGED <<company, nextId, rec, target, locks>>
  BY DEF Update, ResolutionInv, KeyHeld, DraftFaithful, database
<1>2. UpdateFaithful(r) /\ stored = company[target[r]] /\ stored \in Row
  BY <1>1 DEF ResolutionInv, TypeOK, DraftFaithful, UpdateFaithful, Updating
<1>3. stored.val["domain"] = DomainOf(target[r]) /\ Exists(target[r]) /\ draft[r].created = FALSE
  BY <1>2 DEF DomainOf, UpdateFaithful, ResolutionInv, TypeOK
<1>4. \/ merged.val["domain"] = stored.val["domain"]
      \/ stored.val["domain"] = Null /\ merged.val["domain"] = d /\ d # Null
  BY <1>1, <1>2, MergeDomain, RecordType DEF ResolutionInv
<1>5. stored.val["domain"] = Null => merged.val["domain"] = d
  BY <1>1, <1>2, MergeFillsDomain, RecordType DEF ResolutionInv
<1>6. merged \in Row
  BY <1>1, <1>2, MergeType, RecordType DEF ResolutionInv
<1>7. Rivals \in SUBSET CompanyId
  BY DEF Owners
<1>8. \/ /\ draft' = [draft EXCEPT ![r].row = kept]
         /\ merged.val["domain"] # stored.val["domain"] /\ Rivals # {}
         /\ NextCandidate(r, Rivals)
      \/ /\ merged.val["domain"] # stored.val["domain"]
         /\ draft' = [draft EXCEPT ![r].row = merged]
         /\ pc' = [pc EXCEPT ![r] = "flush"]
         /\ UNCHANGED <<pending, other>>
      \/ /\ merged.val["domain"] = stored.val["domain"]
         /\ draft' = [draft EXCEPT ![r].row = merged]
         /\ pc' = [pc EXCEPT ![r] = "commit"]
         /\ UNCHANGED <<pending, other>>
  BY Zenon DEF Update
<1>9. \A row : draft' = [draft EXCEPT ![r].row = row] =>
          /\ draft'[r].row = row /\ draft'[r].created = FALSE
          /\ draft'[r].pairs = draft[r].pairs
  <2>1. draft \in [Run -> [row: Row, created: BOOLEAN, pairs: SUBSET Pairs]]
    BY DEF ResolutionInv, TypeOK
  <2> HIDE DEF stored
  <2> QED BY <1>3, <2>1
<1>10. merged.val["domain"] # stored.val["domain"] =>
          stored.val["domain"] = Null /\ merged.val["domain"] = d /\ d # Null /\ Rivals = rivals
  BY <1>4
<1> HIDE DEF stored, merged, kept, Rivals
<1>11. CASE /\ draft' = [draft EXCEPT ![r].row = kept]
            /\ merged.val["domain"] # stored.val["domain"] /\ Rivals # {}
            /\ NextCandidate(r, Rivals)
  <2>1. pc'[r] = "candidates" /\ pending'[r] = Rivals /\ other'[r] \in Rivals
    <3>1. Rivals # {} => pc'[r] = "candidates"
      BY <1>11 DEF NextCandidate, ResolutionInv, TypeOK
    <3> QED BY <1>7, <1>11, <3>1, NextCandidateEffect DEF ResolutionInv
  <2> QED BY <1>1, <1>3, <1>9, <1>10, <1>11, <2>1
<1>12. CASE /\ merged.val["domain"] # stored.val["domain"]
            /\ draft' = [draft EXCEPT ![r].row = merged]
            /\ pc' = [pc EXCEPT ![r] = "flush"]
            /\ UNCHANGED <<pending, other>>
  <2>1. pc'[r] = "flush" /\ pending'[r] = pending[r]
    BY <1>12 DEF ResolutionInv, TypeOK
  <2> QED BY <1>1, <1>3, <1>9, <1>10, <1>12, <2>1
<1>13. CASE /\ merged.val["domain"] = stored.val["domain"]
            /\ draft' = [draft EXCEPT ![r].row = merged]
            /\ pc' = [pc EXCEPT ![r] = "commit"]
            /\ UNCHANGED <<pending, other>>
  <2>1. pc'[r] = "commit" /\ pending'[r] = pending[r]
    BY <1>13 DEF ResolutionInv, TypeOK
  <2> QED BY <1>1, <1>3, <1>5, <1>9, <1>13, <2>1
<1> QED BY <1>8, <1>11, <1>12, <1>13

\* It keeps its one row, and what it names has the domain.
LEMMA UpdateLocks ==
    ASSUME ResolutionInv, DeadlockInv, NEW r \in Run, Update(r)
    PROVE  DeadlockInv'
<1> DEFINE d == rec[r].val["domain"]
           rivals == Owners(d) \ {target[r]}
<1>1. /\ pc[r] = "merge" /\ target[r] \in CompanyId /\ Exists(target[r])
      /\ UNCHANGED <<company, nextId, rec, target, locks>>
      /\ draft'[r].created = FALSE
      /\ \/ /\ pc'[r] = "candidates" /\ other'[r] \in rivals /\ pending'[r] = rivals
            /\ DomainOf(target[r]) = Null /\ d # Null
         \/ pc'[r] \in {"flush", "commit"} /\ pending'[r] = pending[r]
  BY UpdateEffect
<1>2. \A c \in rivals : c \in CompanyId /\ Exists(c) /\ DomainOf(c) = d /\ c < nextId
  BY DEF Owners, ResolutionInv, IdsFresh
<1> HIDE DEF d, rivals
<1>3. Updating(r) /\ Updating(r)' /\ ~ Inserting(r)'
  BY <1>1 DEF Updating, Inserting
<1>4. xlock[r] = {target[r]} /\ slock[r] = {}
  BY <1>1, <1>3 DEF DeadlockInv, RowsHeld
<1>5. RowsHeld(r)'
  BY <1>1, <1>2, <1>3, <1>4 DEF RowsHeld, locks
<1>6. ConflictNamed(r)'
  BY <1>1, <1>2 DEF ConflictNamed, Exists, DomainOf
<1> QED BY <1>1, <1>2, <1>3, <1>5, <1>6, LocalLocks DEF Upsert

\* The flush of an update changes no lock.
LEMMA FlushLocks ==
    ASSUME ResolutionInv, DeadlockInv, NEW r \in Run, Flush(r)
    PROVE  DeadlockInv'
<1>1. UNCHANGED <<company, nextId>>
  BY DEF Flush, Fail, database
<1>2. CASE Release(r)
  BY <1>1, <1>2, ReleaseLocks DEF Upsert
<1>3. CASE /\ pc' = [pc EXCEPT ![r] = "commit"]
           /\ UNCHANGED <<target, pending, other, draft, locks>>
  <2>1. pc[r] = "flush" /\ pc'[r] = "commit"
    BY <1>3 DEF Flush, ResolutionInv, TypeOK
  <2>2. UpdateFaithful(r) /\ Updating(r)
    BY <2>1 DEF ResolutionInv, DraftFaithful, Updating
  <2>3. Updating(r)' /\ ~ Inserting(r)'
    BY <1>3, <2>1, <2>2 DEF Updating, Inserting, UpdateFaithful
  <2>4. RowsHeld(r)' /\ ConflictNamed(r)'
    BY <1>3, <2>1, <2>2, <2>3 DEF DeadlockInv, RowsHeld, ConflictNamed, locks
  <2> QED BY <1>1, <1>3, <2>1, <2>3, <2>4, LocalLocks DEF Upsert
<1> QED BY <1>2, <1>3 DEF Flush, Fail

\* One candidate: a new pair takes KEY SHARE on the company it names.
LEMMA RecordCandidateEffect ==
    ASSUME ResolutionInv, NEW r \in Run, RecordCandidate(r),
           NEW p, p = PairOf(target[r], other[r])
    PROVE  /\ pc[r] = "candidates" /\ target[r] \in CompanyId
           /\ other[r] \in CompanyId \ {target[r]} /\ p \in Pairs
           /\ UNCHANGED <<company, nextId>>
           /\ \/ Release(r)
              \/ /\ pc'[r] \in {"candidates", "commit"}
                 /\ pending'[r] = pending[r] \ {other[r]}
                 /\ pc'[r] = "candidates" => other'[r] \in pending[r]
                 /\ draft'[r].row = draft[r].row /\ draft'[r].created = draft[r].created
                 /\ UNCHANGED <<rec, target, xlock>>
                 /\ \/ /\ pair[p] = "none" /\ Exists(other[r])
                       /\ ShareBlockers(r, other[r]) = {}
                       /\ slock'[r] = slock[r] \cup {other[r]}
                       /\ draft'[r].pairs = draft[r].pairs \cup {p}
                    \/ /\ pair[p] # "none" /\ slock'[r] = slock[r] /\ draft'[r] = draft[r]
<1> DEFINE c == other[r]
           P == pending[r] \ {c}
<1>1. /\ pc[r] = "candidates" /\ target[r] \in CompanyId /\ c \in CompanyId \ {target[r]}
      /\ P \in SUBSET CompanyId /\ UNCHANGED <<company, nextId>>
  BY DEF RecordCandidate, Fail, ResolutionInv, TypeOK, DraftFaithful, database
<1>2. p \in Pairs
  BY <1>1, PairType
<1>3. CASE pair[p] = "none" /\ ~ Exists(c)
  BY <1>1, <1>2, <1>3 DEF RecordCandidate, Fail
<1>4. CASE ~ (pair[p] = "none" /\ ~ Exists(c))
  <2>1. /\ NextCandidate(r, P)
        /\ \/ /\ pair[p] = "none" /\ Exists(c) /\ ShareBlockers(r, c) = {}
              /\ slock' = [slock EXCEPT ![r] = @ \cup {c}]
              /\ draft' = [draft EXCEPT ![r].pairs = @ \cup {p}]
           \/ pair[p] # "none" /\ UNCHANGED <<slock, draft>>
        /\ UNCHANGED <<rec, target, xlock>>
    BY <1>4 DEF RecordCandidate
  <2> HIDE DEF c, P
  <2>2. /\ pc'[r] \in {"candidates", "commit"} /\ pending'[r] = P
        /\ pc'[r] = "candidates" => other'[r] \in P
    BY <1>1, <2>1, NextCandidateEffect DEF ResolutionInv
  <2>3. /\ draft \in [Run -> [row: Row, created: BOOLEAN, pairs: SUBSET Pairs]]
        /\ slock \in [Actor -> SUBSET CompanyId] /\ r \in Actor
    BY DEF ResolutionInv, TypeOK, Actor
  <2>4. draft'[r].row = draft[r].row /\ draft'[r].created = draft[r].created
    BY <2>1, <2>3
  <2>5. draft' = [draft EXCEPT ![r].pairs = @ \cup {p}] =>
            draft'[r].pairs = draft[r].pairs \cup {p}
    BY <2>3
  <2>6. slock' = [slock EXCEPT ![r] = @ \cup {c}] => slock'[r] = slock[r] \cup {c}
    BY <2>3
  <2> QED BY <1>1, <1>2, <2>1, <2>2, <2>4, <2>5, <2>6 DEF c, P
<1> QED BY <1>3, <1>4

\* The companies still to name were named before.
LEMMA RecordCandidateLocks ==
    ASSUME ResolutionInv, DeadlockInv, NEW r \in Run, RecordCandidate(r)
    PROVE  DeadlockInv'
<1>1. /\ pc[r] = "candidates"
      /\ UNCHANGED <<company, nextId>>
      /\ \/ Release(r)
         \/ /\ pc'[r] \in {"candidates", "commit"}
            /\ pending'[r] = pending[r] \ {other[r]}
            /\ pc'[r] = "candidates" => other'[r] \in pending[r]
            /\ draft'[r].row = draft[r].row /\ draft'[r].created = draft[r].created
            /\ UNCHANGED <<rec, target, xlock>>
  BY RecordCandidateEffect
<1>2. CASE Release(r)
  BY <1>1, <1>2, ReleaseLocks DEF Upsert
<1>3. CASE ~ Release(r)
  <2>1. (Updating(r)' <=> Updating(r)) /\ (Inserting(r)' <=> Inserting(r))
    BY <1>1, <1>3 DEF Updating, Inserting
  <2>2. \A i \in pending[r] : i < nextId
    BY DEF ResolutionInv, DraftFaithful
  <2>3. RowsHeld(r)' /\ ConflictNamed(r)'
    BY <1>1, <1>3, <2>1, <2>2
    DEF DeadlockInv, RowsHeld, ConflictNamed, Exists, DomainOf
  <2> QED BY <1>1, <1>3, <2>1, <2>3, LocalLocks DEF Upsert
<1> QED BY <1>2, <1>3

\* A commit gives a company the domain it has or the record's, and an inserted one an
\* id nobody could name.
LEMMA CommitEffect ==
    ASSUME ResolutionInv, NEW r \in Run, Commit(r), NEW c, c = target[r]
    PROVE  /\ pc[r] = "commit" /\ c \in CompanyId
           /\ company'[c] = draft[r].row /\ Exists(c)'
           /\ \A i \in CompanyId \ {c} : company'[i] = company[i]
           /\ \A i \in CompanyId : Exists(i) /\ DomainOf(i) # Null =>
                 Exists(i)' /\ DomainOf(i)' = DomainOf(i)
           /\ \/ ~ draft[r].created /\ Updating(r) /\ UpdateFaithful(r)
              \/ draft[r].created /\ Inserting(r) /\ InsertFaithful(r)
           /\ pc'[r] = "idle" /\ xlock'[r] = {} /\ slock'[r] = {} /\ pending'[r] = {}
           /\ nextId' = nextId
<1>1. /\ pc[r] = "commit" /\ c \in CompanyId
      /\ company' = [company EXCEPT ![c] = draft[r].row]
      /\ draft[r].row \in Row /\ nextId' = nextId
  BY DEF Commit, ResolutionInv, TypeOK, DraftFaithful
<1>2. /\ company'[c] = draft[r].row /\ Exists(c)'
      /\ \A i \in CompanyId \ {c} : company'[i] = company[i]
  BY <1>1, ResolutionAssumption DEF ResolutionInv, TypeOK, Exists
<1>3. /\ pc'[r] = "idle" /\ xlock'[r] = {} /\ slock'[r] = {} /\ pending'[r] = {}
  BY DEF Commit, Release, ResolutionInv, TypeOK, Actor
<1>4. \/ ~ draft[r].created /\ Updating(r) /\ UpdateFaithful(r)
      \/ draft[r].created /\ Inserting(r) /\ InsertFaithful(r)
  BY <1>1 DEF ResolutionInv, DraftFaithful, Updating, Inserting
<1>5. ASSUME NEW i \in CompanyId, Exists(i), DomainOf(i) # Null
      PROVE  Exists(i)' /\ DomainOf(i)' = DomainOf(i)
  <2>1. CASE i = c
    BY <1>2, <1>4, <1>5, <2>1 DEF UpdateFaithful, InsertFaithful, DomainOf
  <2>2. CASE i # c
    BY <1>2, <1>5, <2>2 DEF Exists, DomainOf
  <2> QED BY <2>1, <2>2
<1> QED BY <1>1, <1>2, <1>3, <1>4, <1>5

\* A row that one run updates no other actor writes.
LEMMA UpdatedAlone ==
    ASSUME ResolutionInv, NEW q \in Run, Updating(q)
    PROVE  /\ target[q] \in CompanyId /\ Exists(target[q])
           /\ \A r \in Run \ {q} : Updating(r) \/ Inserting(r) => target[r] # target[q]
           /\ review.pc = "fold" => target[q] \notin {review.keep, review.drop}
<1>1. target[q] \in CompanyId /\ UpdateFaithful(q)
  BY DEF ResolutionInv, DraftFaithful, Updating
<1>2. ASSUME NEW r \in Run \ {q}, Updating(r) \/ Inserting(r)
      PROVE  target[r] # target[q]
  <2>1. CASE Updating(r)
    <3>1. UpdateFaithful(r)
      BY <2>1 DEF ResolutionInv, DraftFaithful
    <3> QED BY <1>1, <3>1 DEF ResolutionInv, Exclusive, UpdateFaithful, Actor
  <2>2. CASE Inserting(r)
    <3>1. InsertFaithful(r)
      BY <2>2 DEF ResolutionInv, DraftFaithful
    <3> QED BY <1>1, <3>1 DEF InsertFaithful, UpdateFaithful
  <2> QED BY <1>2, <2>1, <2>2
<1>3. review.pc = "fold" => target[q] \notin {review.keep, review.drop}
  BY <1>1, ResolutionAssumption DEF ResolutionInv, Exclusive, UpdateFaithful, Actor
<1> QED BY <1>1, <1>2, <1>3 DEF UpdateFaithful

\* A commit takes no domain away, and nobody names the id it inserts.
LEMMA CommitLocks ==
    ASSUME ResolutionInv, DeadlockInv, NEW r \in Run, Commit(r)
    PROVE  DeadlockInv'
<1>0. PICK c : c = target[r]
  OBVIOUS
<1>1. /\ c \in CompanyId /\ Exists(c)'
      /\ \A i \in CompanyId \ {c} : company'[i] = company[i]
      /\ \A i \in CompanyId : Exists(i) /\ DomainOf(i) # Null =>
            Exists(i)' /\ DomainOf(i)' = DomainOf(i)
      /\ \/ Updating(r) /\ UpdateFaithful(r)
         \/ Inserting(r) /\ InsertFaithful(r)
      /\ pc'[r] = "idle" /\ xlock'[r] = {} /\ slock'[r] = {} /\ pending'[r] = {}
      /\ nextId' = nextId
  BY <1>0, CommitEffect
<1>2. RowsHeld(r)' /\ ConflictNamed(r)' /\ ~ Inserting(r)'
  BY <1>1 DEF RowsHeld, ConflictNamed, Updating, Inserting
<1>3. ASSUME NEW q \in Run, q # r
      PROVE  Frozen(q) /\ (Inserting(q)' <=> Inserting(q))
  BY <1>3, OthersFrozen DEF ResolutionInv, Frozen, Inserting, Upsert
<1>4. ASSUME NEW q \in Run, q # r
      PROVE  RowsHeld(q)' /\ ConflictNamed(q)'
  <2>1. Frozen(q) /\ RowsHeld(q) /\ ConflictNamed(q) /\ NewIdUnnamed(r, q)
    BY <1>3, <1>4 DEF DeadlockInv
  <2>2. RowsHeld(q)'
    BY <1>1, <2>1 DEF RowsHeld, Updating, Frozen
  <2>3. ASSUME pc[q] = "candidates", ~ draft[q].created
        PROVE  /\ DomainOf(target[q])' = Null
               /\ \A i \in pending[q] \cup {other[q]} : Exists(i)' => DomainOf(i)' # Null
    <3>1. Updating(q) /\ DomainOf(target[q]) = Null
      BY <2>1, <2>3 DEF Updating, ConflictNamed
    <3>2. target[q] \in CompanyId \ {c}
      BY <1>0, <1>1, <1>4, <3>1, UpdatedAlone
    <3>3. DomainOf(target[q])' = Null
      BY <1>1, <2>1, <3>1, <3>2 DEF DomainOf, Frozen
    <3>4. ASSUME NEW i \in pending[q] \cup {other[q]}, Exists(i)'
          PROVE  DomainOf(i)' # Null
      <4>1. i \in CompanyId
        BY <2>3 DEF ResolutionInv, TypeOK, DraftFaithful
      <4>2. CASE Exists(i)
        BY <1>1, <2>1, <2>3, <4>1, <4>2 DEF ConflictNamed
      <4>3. CASE ~ Exists(i)
        <5>1. i = c
          BY <1>1, <3>4, <4>1, <4>3 DEF Exists
        <5>2. Inserting(r)
          BY <1>0, <1>1, <4>3, <5>1 DEF UpdateFaithful
        <5> QED BY <1>0, <2>1, <2>3, <3>4, <5>1, <5>2 DEF NewIdUnnamed
      <4> QED BY <4>2, <4>3
    <3> QED BY <3>3, <3>4
  <2>4. ConflictNamed(q)'
    BY <2>1, <2>3 DEF ConflictNamed, Frozen
  <2> QED BY <2>2, <2>4
<1>5. ASSUME NEW p \in Run, NEW q \in Run PROVE NewIdUnnamed(p, q)'
  <2>1. NewIdUnnamed(p, q)
    BY DEF DeadlockInv
  <2>2. CASE p = r \/ q = r
    BY <1>1, <1>2, <2>2 DEF NewIdUnnamed
  <2>3. CASE p # r /\ q # r
    BY <1>3, <2>1, <2>3 DEF NewIdUnnamed, Frozen
  <2> QED BY <2>2, <2>3
<1> QED BY <1>2, <1>4, <1>5 DEF DeadlockInv

\* What a merge makes of its two rows: the discarded one is gone, and the survivor has
\* the domain it had or takes over the other's.
LEMMA FoldEffect ==
    ASSUME ResolutionInv, Fold, NEW keep, keep = review.keep, NEW drop, drop = review.drop
    PROVE  /\ keep \in CompanyId /\ drop \in CompanyId /\ keep # drop
           /\ Exists(keep) /\ Exists(drop) /\ Exists(keep)' /\ ~ Exists(drop)'
           /\ \A i \in CompanyId \ {keep, drop} : company'[i] = company[i]
           /\ DomainOf(keep)' = IF DomainOf(keep) # Null THEN DomainOf(keep)
                                ELSE DomainOf(drop)
           /\ {keep, drop} \subseteq xlock[Reviewer]
           /\ UNCHANGED <<progress, nextId, slock>>
           /\ \A r \in Run : xlock'[r] = xlock[r]
           /\ xlock'[Reviewer] = {}
<1> DEFINE row == FillFromDiscarded(company[keep], company[drop])
<1>1. /\ keep \in CompanyId /\ drop \in CompanyId /\ keep # drop
      /\ Exists(keep) /\ Exists(drop) /\ {keep, drop} \subseteq xlock[Reviewer]
  BY DEF Fold, ResolutionInv, Exclusive
<1>2. row \in Row
  BY <1>1, FillType DEF ResolutionInv, TypeOK, Exists
<1>3. row.val["domain"] = IF DomainOf(keep) # Null THEN DomainOf(keep) ELSE DomainOf(drop)
  BY FieldMergeAssumption DEF FillFromDiscarded, DomainOf
<1>4. /\ company' = [company EXCEPT ![keep] = row, ![drop] = Null]
      /\ UNCHANGED <<progress, nextId, slock>>
      /\ xlock' = [xlock EXCEPT ![Reviewer] = {}]
  BY DEF Fold
<1> HIDE DEF row
<1>5. /\ \A i \in CompanyId \ {keep, drop} : company'[i] = company[i]
      /\ company'[keep] = row /\ company'[drop] = Null /\ row # Null
  BY <1>1, <1>2, <1>4, ResolutionAssumption DEF ResolutionInv, TypeOK
<1>6. xlock'[Reviewer] = {} /\ \A r \in Run : xlock'[r] = xlock[r]
  BY <1>4, ResolutionAssumption DEF ResolutionInv, TypeOK, Actor
<1> QED BY <1>1, <1>3, <1>4, <1>5, <1>6 DEF Exists, DomainOf

\* A step of the reviewer keeps DeadlockInv if it takes no company's domain away and
\* writes no row a run updates.
LEMMA ReviewerLocks ==
    ASSUME ResolutionInv, DeadlockInv, UNCHANGED <<progress, nextId, slock>>,
           \A r \in Run : xlock'[r] = xlock[r],
           \A r \in Run : Updating(r) => company'[target[r]] = company[target[r]],
           \A i \in CompanyId : Exists(i)' =>
               Exists(i) /\ (DomainOf(i) # Null => DomainOf(i)' # Null)
    PROVE  DeadlockInv'
<1> USE DEF progress
<1>1. ASSUME NEW q \in Run PROVE RowsHeld(q)' /\ ConflictNamed(q)'
  <2>1. RowsHeld(q) /\ ConflictNamed(q)
    BY DEF DeadlockInv
  <2>2. RowsHeld(q)'
    BY <2>1 DEF RowsHeld, Updating
  <2>3. pc[q] = "candidates" => pending[q] \cup {other[q]} \subseteq CompanyId
    BY DEF ResolutionInv, TypeOK, DraftFaithful
  <2>4. ConflictNamed(q)'
    BY <2>1, <2>3 DEF ConflictNamed, Updating, DomainOf
  <2> QED BY <2>2, <2>4
<1>2. ASSUME NEW p \in Run, NEW q \in Run PROVE NewIdUnnamed(p, q)'
  BY DEF DeadlockInv, NewIdUnnamed, Inserting
<1> QED BY <1>1, <1>2 DEF DeadlockInv

\* The steps of the reviewer that write no company.
LEMMA ReviewerFrozen ==
    ASSUME TypeOK,
           \/ NotDuplicate \/ ChooseSurvivor \/ LockFirst \/ LockSecond \/ ReviewIsVictim
           \/ ReviewCrash \/ UNCHANGED vars
    PROVE  /\ UNCHANGED <<company, progress, nextId, slock, history>>
           /\ \A r \in Run : xlock'[r] = xlock[r]
<1>1. UNCHANGED <<company, progress, nextId, slock, history>>
  BY DEF NotDuplicate, ChooseSurvivor, LockFirst, LockSecond, ReviewIsVictim, ReviewCrash,
         RollBackReview, vars, locks, database
<1>2. UNCHANGED xlock \/ \E S : xlock' = [xlock EXCEPT ![Reviewer] = S]
  BY Zenon DEF NotDuplicate, ChooseSurvivor, LockFirst, LockSecond, ReviewIsVictim, ReviewCrash,
         RollBackReview, vars, locks
<1> QED BY <1>1, <1>2, ResolutionAssumption DEF TypeOK, Actor

\* Every step of runs and reviewer keeps DeadlockInv.
LEMMA DeadlockStep ==
    ASSUME ResolutionInv, DeadlockInv, [Next]_vars
    PROVE  DeadlockInv'
<1>1. ASSUME NEW r \in Run, Begin(r) \/ Upsert(r) \/ Crash(r)
      PROVE  DeadlockInv'
  <2>1. CASE Crash(r) \/ RunIsVictim(r)
    BY <1>1, <2>1, ReleaseLocks DEF Crash, RunIsVictim, Fail, database
  <2> QED BY <1>1, <2>1, ResolveLocks, InsertLocks, LockRowLocks, UpdateLocks, FlushLocks,
             RecordCandidateLocks, CommitLocks DEF Upsert
<1>2. CASE Fold
  <2>0. PICK keep, drop : keep = review.keep /\ drop = review.drop
    OBVIOUS
  <2>1. /\ keep \in CompanyId /\ drop \in CompanyId
        /\ Exists(keep) /\ ~ Exists(drop)'
        /\ \A i \in CompanyId \ {keep, drop} : company'[i] = company[i]
        /\ DomainOf(keep)' = IF DomainOf(keep) # Null THEN DomainOf(keep) ELSE DomainOf(drop)
        /\ UNCHANGED <<progress, nextId, slock>>
        /\ \A r \in Run : xlock'[r] = xlock[r]
    BY <1>2, <2>0, FoldEffect
  <2>2. \A r \in Run : Updating(r) => company'[target[r]] = company[target[r]]
    BY <1>2, <2>0, <2>1, UpdatedAlone DEF Fold
  <2>3. \A i \in CompanyId : Exists(i)' =>
            Exists(i) /\ (DomainOf(i) # Null => DomainOf(i)' # Null)
    BY <2>1 DEF Exists, DomainOf
  <2> QED BY <2>1, <2>2, <2>3, ReviewerLocks
<1>3. CASE \/ NotDuplicate \/ ChooseSurvivor \/ LockFirst \/ LockSecond \/ ReviewIsVictim
           \/ ReviewCrash \/ UNCHANGED vars
  <2>1. /\ UNCHANGED <<company, progress, nextId, slock>>
        /\ \A r \in Run : xlock'[r] = xlock[r]
    BY <1>3, ReviewerFrozen DEF ResolutionInv
  <2> QED BY <2>1, ReviewerLocks DEF Exists, DomainOf
<1> QED BY <1>1, <1>2, <1>3 DEF Next, Merge

\* For any number of runs and any feeds, no set of upserts waits for itself: of the
\* advisory key, the row of the company, the domain index and the companies a candidate
\* pair names, each is asked for in an order no two transactions can turn round (the
\* "no lock-order cycle" of _lock_resolution_key).
THEOREM UpsertsDoNotDeadlock == Spec => []UpsertsNeverDeadlock
<1>1. Init => ResolutionInv /\ DeadlockInv
  BY InitInv, DeadlockInit
<1>2. (ResolutionInv /\ DeadlockInv) /\ [Next]_vars => (ResolutionInv /\ DeadlockInv)'
  BY NextInv, DeadlockStep
<1>3. ResolutionInv /\ DeadlockInv => UpsertsNeverDeadlock
  BY NoCycle
<1> QED BY <1>1, <1>2, <1>3, PTL DEF Spec

(***************************************************************************)
(* ConflictInv is inductive                                                *)
(***************************************************************************)

\* The empty database has no history.
LEMMA ConflictInit == Init => ConflictInv
<1> SUFFICES ASSUME Init PROVE ConflictInv
  OBVIOUS
<1> USE DEF Init
<1>1. \A c \in CompanyId : HistoryTrue(c) /\ ~ Exists(c)
  BY DEF HistoryTrue, Exists
<1>2. PairsExist
  BY DEF PairsExist
<1>3. ASSUME NEW r \in Run PROVE SharesHeld(r) /\ ConflictRecorded(r)
  BY DEF SharesHeld, ConflictRecorded, Actor
<1>4. DomainConflictQueued
  BY <1>1 DEF DomainConflictQueued
<1> QED BY <1>1, <1>2, <1>3, <1>4 DEF ConflictInv

\* A run locks rows for itself only.
LEMMA OwnLocks ==
    ASSUME TypeOK, NEW r \in Run, Begin(r) \/ Upsert(r) \/ Crash(r),
           NEW a \in Actor \ {r}
    PROVE  xlock'[a] = xlock[a]
<1> USE DEF locks
<1>1. CASE UNCHANGED xlock
  BY <1>1
<1>2. CASE \E S : xlock' = [xlock EXCEPT ![r] = S]
  BY <1>2 DEF TypeOK
<1>3. CASE Release(r)
  BY <1>2, <1>3 DEF Release
<1>4. CASE Begin(r) \/ TakeLock(r) \/ Insert(r) \/ Update(r)
  BY <1>1, <1>4 DEF Begin, TakeLock, Insert, Update
<1>5. CASE ResolveExternal(r) \/ ResolveDomain(r) \/ ResolveName(r) \/ ResolveSimilar(r)
  BY <1>1, <1>3, <1>5
  DEF ResolveExternal, ResolveDomain, ResolveName, ResolveSimilar, Found, GoOn, Absent
<1>6. CASE LockRow(r)
  BY <1>2, <1>3, <1>6 DEF LockRow, Fail
<1>7. CASE Flush(r) \/ RecordCandidate(r)
  BY <1>1, <1>3, <1>7 DEF Flush, RecordCandidate, Fail
<1>8. CASE Commit(r) \/ Crash(r) \/ RunIsVictim(r)
  BY <1>3, <1>8 DEF Commit, Crash, RunIsVictim, Fail
<1> QED BY <1>4, <1>5, <1>6, <1>7, <1>8 DEF Upsert

\* A step of run r that commits nothing keeps ConflictInv if it keeps the part about r
\* and locks no company another run has promised a pair with.
LEMMA LocalConflict ==
    ASSUME ResolutionInv, ConflictInv, NEW r \in Run, Begin(r) \/ Upsert(r) \/ Crash(r),
           ~ Commit(r), SharesHeld(r)', ConflictRecorded(r)',
           \A q \in Run \ {r} : xlock'[r] \cap slock[q] = {}
    PROVE  ConflictInv'
<1>1. UNCHANGED <<company, pair, reported, owned, cleared>>
  BY DatabaseFrozen DEF database, history
<1>2. (\A c \in CompanyId : HistoryTrue(c)') /\ PairsExist' /\ DomainConflictQueued'
  BY <1>1 DEF ConflictInv, HistoryTrue, PairsExist, DomainConflictQueued, Exists, DomainOf
<1>3. ASSUME NEW q \in Run, q # r PROVE SharesHeld(q)' /\ ConflictRecorded(q)'
  <2>1. Frozen(q)
    BY <1>3, OthersFrozen DEF ResolutionInv
  <2>2. \A a \in Actor \ {q} : slock[q] \cap xlock'[a] = {}
    BY <1>3, OwnLocks DEF ConflictInv, SharesHeld, ResolutionInv
  <2>3. SharesHeld(q) /\ ConflictRecorded(q)
    BY DEF ConflictInv
  <2>4. SharesHeld(q)'
    BY <1>1, <2>1, <2>2, <2>3 DEF SharesHeld, Exists, Frozen
  <2>5. ConflictRecorded(q)'
    BY <1>1, <2>1, <2>3 DEF ConflictRecorded, ConflictSeen, Exists, Frozen
  <2> QED BY <2>4, <2>5
<1> QED BY <1>2, <1>3 DEF ConflictInv

\* A run that is not past its row yet has promised nothing.
LEMMA EarlyConflict ==
    ASSUME ResolutionInv, ConflictInv, DeadlockInv', NEW r \in Run,
           Begin(r) \/ Upsert(r) \/ Crash(r), ~ Commit(r),
           pc'[r] \notin {"merge", "flush", "candidates", "commit"}
    PROVE  ConflictInv'
<1>1. xlock'[r] = {} /\ slock'[r] = {}
  BY DEF DeadlockInv, RowsHeld, Updating
<1>2. SharesHeld(r)' /\ ConflictRecorded(r)'
  BY <1>1 DEF SharesHeld, ConflictRecorded
<1> QED BY <1>1, <1>2, LocalConflict

\* Nor has one that has just found its row.
LEMMA NothingPromised ==
    ASSUME DeadlockInv, ConflictInv, NEW r \in Run, pc[r] \in {"merge", "flush"}
    PROVE  slock[r] = {} /\ draft[r].pairs = {}
BY DEF DeadlockInv, RowsHeld, ConflictInv, SharesHeld

\* The stages of a transaction before its commit.
LEMMA RunConflict ==
    ASSUME ResolutionInv, DeadlockInv, ConflictInv, DeadlockInv', NEW r \in Run,
           Begin(r) \/ Upsert(r) \/ Crash(r), ~ Commit(r)
    PROVE  ConflictInv'
<1>1. CASE Release(r)
  <2>1. pc'[r] = "idle"
    BY <1>1 DEF Release, ResolutionInv, TypeOK
  <2> QED BY <2>1, EarlyConflict
<1>2. CASE Crash(r) \/ RunIsVictim(r)
  BY <1>1, <1>2 DEF Crash, RunIsVictim, Fail
<1>3. CASE \/ Begin(r) \/ TakeLock(r) \/ ResolveExternal(r) \/ ResolveDomain(r)
           \/ ResolveName(r) \/ ResolveSimilar(r)
  <2>1. CASE ~ Release(r)
    <3>1. pc'[r] \in {"lock", "external", "domain", "name", "similar", "insert", "row"}
      <4>1. CASE Begin(r) \/ TakeLock(r)
        BY <4>1 DEF Begin, TakeLock, ResolutionInv, TypeOK
      <4>2. CASE ResolveExternal(r) \/ ResolveDomain(r) \/ ResolveName(r)
        BY <2>1, <4>2 DEF ResolveExternal, ResolveDomain, ResolveName, Found, GoOn, Absent,
                          ResolutionInv, TypeOK
      <4>3. CASE ResolveSimilar(r)
        <5>1. pc' = [pc EXCEPT ![r] = "insert"]
          BY <2>1, <4>3 DEF ResolveSimilar
        <5> QED BY <5>1 DEF ResolutionInv, TypeOK
      <4> QED BY <1>3, <4>1, <4>2, <4>3
    <3> QED BY <3>1, EarlyConflict
  <2> QED BY <1>1, <2>1
<1>4. CASE Insert(r)
  <2>1. /\ pc[r] = "insert" /\ draft'[r].created = TRUE /\ draft'[r].pairs = {}
        /\ UNCHANGED <<rec, locks>>
    BY <1>4, InsertEffect
  <2>2. slock'[r] = {} /\ xlock'[r] = {}
    BY <2>1 DEF DeadlockInv, RowsHeld, Updating, locks
  <2>3. SharesHeld(r)' /\ ConflictRecorded(r)'
    BY <2>1, <2>2 DEF SharesHeld, ConflictRecorded
  <2> QED BY <2>2, <2>3, LocalConflict
<1>5. CASE LockRow(r)
  <2>1. CASE ~ Exists(target[r])
    BY <1>1, <1>5, <2>1 DEF LockRow, Fail
  <2>2. CASE Exists(target[r])
    <3>1. /\ pc[r] = "row" /\ pc'[r] = "merge" /\ xlock'[r] = {target[r]}
          /\ draft'[r].pairs = {} /\ slock' = slock
          /\ UpdateBlockers(r, target[r]) = {}
      BY <1>5, <2>2 DEF LockRow, ResolutionInv, TypeOK, Actor
    <3>2. slock'[r] = {}
      BY <3>1 DEF DeadlockInv, RowsHeld
    <3>3. SharesHeld(r)' /\ ConflictRecorded(r)'
      BY <3>1, <3>2 DEF SharesHeld, ConflictRecorded
    <3>4. \A q \in Run \ {r} : xlock'[r] \cap slock[q] = {}
      BY <3>1 DEF UpdateBlockers, Actor
    <3> QED BY <3>3, <3>4, LocalConflict
  <2> QED BY <2>1, <2>2
<1>6. ASSUME UNCHANGED <<xlock, slock>>
      PROVE  \A q \in Run \ {r} : xlock'[r] \cap slock[q] = {}
  BY <1>6 DEF ConflictInv, SharesHeld, Actor
<1>7. CASE Update(r)
  <2> DEFINE d == rec[r].val["domain"]
             rivals == Owners(d) \ {target[r]}
  <2>1. /\ pc[r] = "merge" /\ target[r] \in CompanyId
        /\ UNCHANGED <<company, rec, target, locks>>
        /\ draft'[r].pairs = draft[r].pairs
        /\ \/ /\ pc'[r] = "candidates" /\ other'[r] \in rivals /\ d # Null
           \/ pc'[r] = "flush"
           \/ /\ pc'[r] = "commit"
              /\ draft'[r].row.val["domain"] = DomainOf(target[r])
              /\ DomainOf(target[r]) = Null => d = Null
    BY <1>7, UpdateEffect
  <2>2. slock'[r] = {} /\ draft'[r].pairs = {}
    BY <2>1, NothingPromised DEF locks
  <2>3. SharesHeld(r)'
    BY <2>2 DEF SharesHeld
  <2>4. owned' = owned
    BY DatabaseFrozen DEF history
  <2>5. \A c \in rivals : d \in owned[c]
    BY DEF Owners, ConflictInv, HistoryTrue
  <2> HIDE DEF rivals
  <2>6. ConflictRecorded(r)'
    BY <2>1, <2>4, <2>5 DEF ConflictRecorded
  <2> QED BY <1>6, <2>1, <2>3, <2>6, LocalConflict DEF locks
<1>8. CASE Flush(r)
  <2>1. CASE ~ Release(r)
    <3>1. /\ pc[r] = "flush" /\ pc'[r] = "commit"
          /\ UNCHANGED <<rec, target, draft, locks>>
      BY <1>8, <2>1 DEF Flush, Fail, ResolutionInv, TypeOK
    <3>2. slock'[r] = {} /\ draft'[r].pairs = {}
      BY <3>1, NothingPromised DEF locks
    <3>3. draft[r].row.val["domain"] # Null
      BY <3>1 DEF ResolutionInv, DraftFaithful, Updating, UpdateFaithful
    <3>4. SharesHeld(r)' /\ ConflictRecorded(r)'
      BY <3>1, <3>2, <3>3 DEF SharesHeld, ConflictRecorded
    <3> QED BY <1>6, <3>1, <3>4, LocalConflict DEF locks
  <2> QED BY <1>1, <2>1
<1>9. CASE RecordCandidate(r)
  <2> DEFINE d == rec[r].val["domain"]
             t == target[r]
             c == other[r]
             p == PairOf(t, c)
  <2>1. CASE ~ Release(r)
    <3>1. /\ pc[r] = "candidates" /\ t \in CompanyId /\ c \in CompanyId \ {t} /\ p \in Pairs
          /\ pc'[r] \in {"candidates", "commit"}
          /\ draft'[r].row = draft[r].row /\ draft'[r].created = draft[r].created
          /\ UNCHANGED <<rec, target, xlock>>
          /\ \/ /\ pair[p] = "none" /\ Exists(c) /\ ShareBlockers(r, c) = {}
                /\ slock'[r] = slock[r] \cup {c}
                /\ draft'[r].pairs = draft[r].pairs \cup {p}
             \/ /\ pair[p] # "none" /\ slock'[r] = slock[r] /\ draft'[r] = draft[r]
      BY <1>9, <2>1, RecordCandidateEffect
    <3>2. UNCHANGED <<company, pair, owned, cleared>>
      BY DatabaseFrozen DEF database, history
    <3>3. SharesHeld(r)
      BY DEF ConflictInv
    <3>4. \A a \in Actor \ {r} : xlock'[a] = xlock[a]
      BY <3>1
    <3>5. SharesHeld(r)'
      <4>1. \A o \in slock'[r] : Exists(o)'
        BY <3>1, <3>2, <3>3 DEF SharesHeld, Exists
      <4>2. \A a \in Actor \ {r} : slock'[r] \cap xlock'[a] = {}
        BY <3>1, <3>3, <3>4 DEF SharesHeld, ShareBlockers
      <4>3. \A x \in draft'[r].pairs : \E o \in slock'[r] \ {t} : x = PairOf(t, o)
        BY <3>1, <3>3 DEF SharesHeld
      <4> QED BY <3>1, <4>1, <4>2, <4>3 DEF SharesHeld
    <3>6. Exists(c)
      BY <3>1 DEF ConflictInv, PairsExist, PairOf
    <3>7. PairOf(t, c) \in draft'[r].pairs \/ pair[PairOf(t, c)] # "none"
      BY <3>1
    <3>8. draft[r].pairs \subseteq draft'[r].pairs
      BY <3>1
    <3>9. ConflictRecorded(r)
      BY DEF ConflictInv
    <3> HIDE DEF p
    <3>10. ASSUME ~ draft[r].created, d # Null, draft[r].row.val["domain"] = Null
           PROVE  ConflictSeen(t, d, draft'[r].pairs)
      <4>1. CASE ConflictSeen(t, d, draft[r].pairs)
        BY <3>8, <4>1 DEF ConflictSeen
      <4>2. CASE d \in owned[c]
        BY <3>1, <3>6, <3>7, <4>2 DEF ConflictSeen
      <4> QED BY <3>1, <3>6, <3>9, <3>10, <4>1, <4>2 DEF ConflictRecorded
    <3>11. ConflictRecorded(r)'
      BY <3>1, <3>2, <3>10 DEF ConflictRecorded, ConflictSeen, Exists
    <3>12. \A q \in Run \ {r} : xlock'[r] \cap slock[q] = {}
      BY <3>1 DEF ConflictInv, SharesHeld, Actor
    <3> QED BY <3>5, <3>11, <3>12, LocalConflict
  <2> QED BY <1>1, <2>1
<1> QED BY <1>2, <1>3, <1>4, <1>5, <1>7, <1>8, <1>9 DEF Upsert

\* A commit opens the pairs it promised, and the history hears of it.
LEMMA CommitConflict ==
    ASSUME ResolutionInv, DeadlockInv, ConflictInv, NEW r \in Run, Commit(r)
    PROVE  ConflictInv'
<1>0. PICK c, d, e : c = target[r] /\ d = rec[r].val["domain"] /\ e = draft[r].row.val["domain"]
  OBVIOUS
<1>1. /\ pc[r] = "commit" /\ c \in CompanyId
      /\ company'[c] = draft[r].row /\ Exists(c)'
      /\ \A i \in CompanyId \ {c} : company'[i] = company[i]
      /\ \A i \in CompanyId : Exists(i) /\ DomainOf(i) # Null =>
            Exists(i)' /\ DomainOf(i)' = DomainOf(i)
      /\ \/ ~ draft[r].created /\ Updating(r) /\ UpdateFaithful(r)
         \/ draft[r].created /\ Inserting(r) /\ InsertFaithful(r)
      /\ pc'[r] = "idle" /\ slock'[r] = {}
  BY <1>0, CommitEffect
<1>2. /\ reported'[c] = reported[c] \cup ({d} \ {Null})
      /\ owned'[c] = owned[c] \cup ({e} \ {Null})
      /\ \A i \in CompanyId \ {c} : reported'[i] = reported[i] /\ owned'[i] = owned[i]
      /\ cleared' = cleared
      /\ \A p \in Pairs : pair'[p] # "none" <=> pair[p] # "none" \/ p \in draft[r].pairs
  <2>1. /\ reported' = [reported EXCEPT ![c] = @ \cup ({d} \ {Null})]
        /\ owned' = [owned EXCEPT ![c] = @ \cup ({e} \ {Null})]
        /\ cleared' = cleared
    BY <1>0 DEF Commit
  <2>2. /\ reported \in [CompanyId -> SUBSET Value] /\ owned \in [CompanyId -> SUBSET Value]
    BY DEF ResolutionInv, TypeOK
  <2>3. \A p \in Pairs : pair'[p] # "none" <=> pair[p] # "none" \/ p \in draft[r].pairs
    BY DEF Commit
  <2> QED BY <1>1, <2>1, <2>2, <2>3
<1>3. DomainOf(c)' = e
  BY <1>0, <1>1 DEF DomainOf
<1>4. \A i \in CompanyId : /\ Exists(i) => Exists(i)'
                           /\ owned[i] \subseteq owned'[i]
                           /\ i # c => (Exists(i)' <=> Exists(i)) /\ DomainOf(i)' = DomainOf(i)
  BY <1>1, <1>2 DEF Exists, DomainOf
<1>5. \A q \in Run \ {r} : Frozen(q)
  BY OthersFrozen DEF ResolutionInv, Upsert
<1>6. ASSUME NEW i \in CompanyId PROVE HistoryTrue(i)'
  <2>1. HistoryTrue(i)
    BY DEF ConflictInv
  <2>2. CASE i # c
    BY <1>2, <1>4, <2>1, <2>2 DEF HistoryTrue
  <2>3. CASE i = c
    <3>1. e # Null => e \in owned'[c]
      BY <1>2
    <3>2. owned'[c] # {} => e # Null
      BY <1>1, <1>2, <1>3, <2>1, <2>3 DEF HistoryTrue
    <3> QED BY <1>1, <1>3, <2>3, <3>1, <3>2 DEF HistoryTrue
  <2> QED BY <2>2, <2>3
<1>7. PairsExist'
  <2>1. ASSUME NEW p \in Pairs, pair'[p] # "none" PROVE Exists(p[1])' /\ Exists(p[2])'
    <3>1. CASE pair[p] # "none"
      BY <1>4, <3>1 DEF ConflictInv, PairsExist, Pairs
    <3>2. CASE p \in draft[r].pairs
      <4>1. PICK o \in slock[r] \ {c} : p = PairOf(c, o)
        BY <1>0, <1>1, <3>2 DEF ConflictInv, SharesHeld
      <4>2. Exists(o) /\ o \in CompanyId
        BY <4>1 DEF ConflictInv, SharesHeld, ResolutionInv, TypeOK, Actor
      <4> QED BY <1>1, <1>4, <4>1, <4>2 DEF PairOf
    <3> QED BY <1>2, <2>1, <3>1, <3>2
  <2> QED BY <2>1 DEF PairsExist
<1>8. ASSUME NEW q \in Run PROVE SharesHeld(q)'
  <2>1. SharesHeld(q)
    BY DEF ConflictInv
  <2>2. CASE q = r
    BY <1>1, <2>2 DEF SharesHeld
  <2>3. CASE q # r
    <3>1. Frozen(q)
      BY <1>5, <2>3
    <3>2. \A a \in Actor : xlock'[a] \subseteq xlock[a]
      BY OwnLocks, CommitEffect DEF Upsert, ResolutionInv
    <3>3. slock[q] \subseteq CompanyId
      BY DEF ResolutionInv, TypeOK, Actor
    <3> QED BY <1>4, <2>1, <3>1, <3>2, <3>3 DEF SharesHeld, Frozen
  <2> QED BY <2>2, <2>3
<1>9. ASSUME NEW t \in CompanyId, NEW x, NEW P, ConflictSeen(t, x, P)
      PROVE  ConflictSeen(t, x, P)'
  <2>1. CASE <<t, x>> \in cleared
    BY <1>2, <2>1 DEF ConflictSeen
  <2>2. ASSUME NEW o \in CompanyId \ {t}, Exists(o), x \in owned[o],
               PairOf(t, o) \in P \/ pair[PairOf(t, o)] # "none"
        PROVE  ConflictSeen(t, x, P)'
    <3>1. PairOf(t, o) \in Pairs
      BY PairType
    <3> QED BY <1>2, <1>4, <2>2, <3>1 DEF ConflictSeen
  <2> QED BY <1>9, <2>1, <2>2 DEF ConflictSeen
<1>10. ASSUME NEW q \in Run PROVE ConflictRecorded(q)'
  <2>1. ConflictRecorded(q)
    BY DEF ConflictInv
  <2>2. CASE q = r
    BY <1>1, <2>2 DEF ConflictRecorded
  <2>3. CASE q # r
    <3>1. PICK t, x, P, o : t = target[q] /\ x = rec[q].val["domain"] /\ P = draft[q].pairs
                            /\ o = other[q]
      OBVIOUS
    <3>2. t = target'[q] /\ x = rec'[q].val["domain"] /\ P = draft'[q].pairs /\ o = other'[q]
          /\ pc'[q] = pc[q] /\ draft'[q] = draft[q]
      BY <1>5, <2>3, <3>1 DEF Frozen
    <3>3. ASSUME pc[q] \in {"candidates", "commit"}, ~ draft[q].created,
                 x # Null, draft[q].row.val["domain"] = Null
          PROVE  \/ ConflictSeen(t, x, P)'
                 \/ pc[q] = "candidates" /\ (Exists(o)' => x \in owned'[o])
      <4>1. t \in CompanyId /\ (pc[q] = "candidates" => o \in CompanyId)
        BY <3>1, <3>3 DEF ResolutionInv, DraftFaithful
      <4>2. CASE ConflictSeen(t, x, P)
        BY <1>9, <4>1, <4>2
      <4>3. CASE pc[q] = "candidates" /\ (Exists(o) => x \in owned[o])
        <5>1. Exists(o)' => Exists(o)
          <6>1. CASE o # c
            BY <1>4, <4>1, <4>3, <6>1
          <6>2. CASE o = c /\ ~ Exists(c)
            <7>1. Inserting(r)
              BY <1>0, <1>1, <6>2 DEF UpdateFaithful
            <7>2. NewIdUnnamed(r, q)
              BY DEF DeadlockInv
            <7> QED BY <1>0, <3>1, <4>3, <6>2, <7>1, <7>2 DEF NewIdUnnamed
          <6> QED BY <6>1, <6>2
        <5> QED BY <1>4, <4>1, <4>3, <5>1
      <4> QED BY <2>1, <3>1, <3>3, <4>2, <4>3 DEF ConflictRecorded
    <3> QED BY <3>2, <3>3 DEF ConflictRecorded, ConflictSeen
  <2> QED BY <2>2, <2>3
<1>11. DomainConflictQueued'
  <2>1. ASSUME NEW i \in CompanyId, NEW x \in Value, Exists(i)', DomainOf(i)' = Null,
               x \in reported'[i], <<i, x>> \notin cleared'
        PROVE  \E o \in CompanyId \ {i} :
                  Exists(o)' /\ x \in owned'[o] /\ pair'[PairOf(i, o)] # "none"
    <3>1. CASE Exists(i) /\ DomainOf(i) = Null /\ x \in reported[i]
      <4>1. PICK o \in CompanyId \ {i} :
                  Exists(o) /\ x \in owned[o] /\ pair[PairOf(i, o)] # "none"
        BY <1>2, <2>1, <3>1 DEF ConflictInv, DomainConflictQueued
      <4>2. PairOf(i, o) \in Pairs
        BY PairType
      <4> QED BY <1>2, <1>4, <4>1, <4>2
    <3>2. CASE i # c
      BY <1>2, <1>4, <2>1, <3>1, <3>2
    <3>3. CASE i = c
      <4>1. e = Null
        BY <1>3, <2>1, <3>3
      <4>2. Exists(c) => DomainOf(c) = Null
        BY <1>1, <1>3, <4>1
      <4>3. ~ Exists(c) => reported[c] = {}
        BY <1>1 DEF ConflictInv, HistoryTrue
      <4>4. CASE x \in reported[c]
        BY <3>1, <3>3, <4>2, <4>3, <4>4
      <4>5. CASE x = d /\ d # Null
        <5>1. ~ draft[r].created
          BY <1>0, <1>1, <4>1, <4>5 DEF InsertFaithful
        <5>2. ConflictSeen(c, d, draft[r].pairs)
          BY <1>0, <1>1, <4>1, <4>5, <5>1 DEF ConflictInv, ConflictRecorded
        <5>3. PICK o \in CompanyId \ {c} :
                  /\ Exists(o) /\ d \in owned[o]
                  /\ PairOf(c, o) \in draft[r].pairs \/ pair[PairOf(c, o)] # "none"
          BY <1>2, <2>1, <3>3, <4>5, <5>2 DEF ConflictSeen
        <5>4. PairOf(c, o) \in Pairs
          BY <1>1, PairType
        <5> QED BY <1>2, <1>4, <3>3, <4>5, <5>3, <5>4
      <4> QED BY <1>2, <2>1, <3>3, <4>4, <4>5
    <3> QED BY <3>2, <3>3
  <2> QED BY <2>1 DEF DomainConflictQueued
<1> QED BY <1>6, <1>7, <1>8, <1>10, <1>11 DEF ConflictInv

\* What a merge does to pairs and histories.
LEMMA FoldHistory ==
    ASSUME ResolutionInv, Fold, NEW keep, keep = review.keep, NEW drop, drop = review.drop
    PROVE  /\ \A i \in CompanyId \ {keep, drop} : reported'[i] = reported[i] /\ owned'[i] = owned[i]
           /\ reported'[keep] = reported[keep] \cup reported[drop] /\ reported'[drop] = {}
           /\ owned'[keep] = owned[keep] \cup owned[drop] /\ owned'[drop] = {}
           /\ cleared' = cleared \cup DeletedVerdicts(keep, drop)
           /\ \A p \in Pairs : pair'[p] # "none" <=>
                  /\ drop \notin {p[1], p[2]}
                  /\ \/ pair[p] # "none"
                     \/ /\ keep \in {p[1], p[2]}
                        /\ \E o \in {p[1], p[2]} \ {keep} : pair[PairOf(drop, o)] = "open"
<1>1. keep \in CompanyId /\ drop \in CompanyId /\ keep # drop
  BY DEF Fold, ResolutionInv, Exclusive
<1>2. /\ reported \in [CompanyId -> SUBSET Value] /\ owned \in [CompanyId -> SUBSET Value]
  BY DEF ResolutionInv, TypeOK
<1>3. /\ reported' = [reported EXCEPT ![keep] = @ \cup reported[drop], ![drop] = {}]
      /\ owned' = [owned EXCEPT ![keep] = @ \cup owned[drop], ![drop] = {}]
      /\ cleared' = cleared \cup DeletedVerdicts(keep, drop)
      /\ pair' = RepointedPairs(keep, drop)
  BY DEF Fold
<1>4. \A p \in Pairs : pair'[p] # "none" <=>
          /\ drop \notin {p[1], p[2]}
          /\ \/ pair[p] # "none"
             \/ /\ keep \in {p[1], p[2]}
                /\ \E o \in {p[1], p[2]} \ {keep} : pair[PairOf(drop, o)] = "open"
  BY <1>3 DEF RepointedPairs
<1> QED BY <1>1, <1>2, <1>3, <1>4

\* A merge keeps ConflictInv: a pair with the discarded company moves to the survivor
\* while it is open; one that was ruled on is remembered in cleared.
LEMMA FoldConflict ==
    ASSUME ResolutionInv, ConflictInv, Fold
    PROVE  ConflictInv'
<1>0. PICK keep, drop : keep = review.keep /\ drop = review.drop
  OBVIOUS
<1>1. /\ keep \in CompanyId /\ drop \in CompanyId /\ keep # drop
      /\ Exists(keep) /\ Exists(drop) /\ Exists(keep)' /\ ~ Exists(drop)'
      /\ \A i \in CompanyId \ {keep, drop} : company'[i] = company[i]
      /\ DomainOf(keep)' = IF DomainOf(keep) # Null THEN DomainOf(keep) ELSE DomainOf(drop)
      /\ {keep, drop} \subseteq xlock[Reviewer]
      /\ UNCHANGED <<progress, slock>>
      /\ \A r \in Run : xlock'[r] = xlock[r]
      /\ xlock'[Reviewer] = {}
  BY <1>0, FoldEffect
<1>2. /\ \A i \in CompanyId \ {keep, drop} : reported'[i] = reported[i] /\ owned'[i] = owned[i]
      /\ reported'[keep] = reported[keep] \cup reported[drop] /\ reported'[drop] = {}
      /\ owned'[keep] = owned[keep] \cup owned[drop] /\ owned'[drop] = {}
      /\ cleared' = cleared \cup DeletedVerdicts(keep, drop)
      /\ \A p \in Pairs : pair'[p] # "none" <=>
             /\ drop \notin {p[1], p[2]}
             /\ \/ pair[p] # "none"
                \/ /\ keep \in {p[1], p[2]}
                   /\ \E o \in {p[1], p[2]} \ {keep} : pair[PairOf(drop, o)] = "open"
  BY <1>0, FoldHistory
<1>3. \A i \in CompanyId : /\ i # drop => (Exists(i)' <=> Exists(i)) /\ owned[i] \subseteq owned'[i]
                           /\ i \notin {keep, drop} => DomainOf(i)' = DomainOf(i)
  BY <1>1, <1>2 DEF Exists, DomainOf
<1>4. \A i \in CompanyId : HistoryTrue(i)
  BY DEF ConflictInv
<1>5. \A i \in CompanyId \ {drop} : \A o \in CompanyId \ {drop, i} :
          PairOf(i, o) \in Pairs /\ (pair[PairOf(i, o)] # "none" => pair'[PairOf(i, o)] # "none")
  <2> SUFFICES ASSUME NEW i \in CompanyId \ {drop}, NEW o \in CompanyId \ {drop, i}
               PROVE  PairOf(i, o) \in Pairs
                      /\ (pair[PairOf(i, o)] # "none" => pair'[PairOf(i, o)] # "none")
    OBVIOUS
  <2>1. PairOf(i, o) \in Pairs
    BY PairType
  <2>2. drop \notin {PairOf(i, o)[1], PairOf(i, o)[2]}
    BY DEF PairOf
  <2> QED BY <1>2, <2>1, <2>2
<1>6. ASSUME NEW o \in CompanyId \ {keep, drop}, pair[PairOf(drop, o)] = "open"
      PROVE  pair'[PairOf(keep, o)] # "none"
  <2>1. PairOf(keep, o) \in Pairs
    BY <1>1, PairType
  <2>2. {PairOf(keep, o)[1], PairOf(keep, o)[2]} = {keep, o}
    BY DEF PairOf
  <2> HIDE DEF PairOf
  <2> QED BY <1>1, <1>2, <1>6, <2>1, <2>2
<1>7. \A i \in CompanyId \ {keep, drop} :
          \/ pair[PairOf(drop, i)] = "none" \/ pair[PairOf(drop, i)] = "open"
          \/ pair[PairOf(drop, i)] = "resolved"
  BY <1>1, PairType DEF ResolutionInv, TypeOK
<1>8. ASSUME NEW i \in CompanyId PROVE HistoryTrue(i)'
  <2>1. CASE i \notin {keep, drop}
    BY <1>2, <1>3, <1>4, <2>1 DEF HistoryTrue
  <2>2. CASE i = drop
    BY <1>1, <1>2, <2>2 DEF HistoryTrue
  <2>3. CASE i = keep
    BY <1>1, <1>2, <1>4, <2>3 DEF HistoryTrue
  <2> QED BY <2>1, <2>2, <2>3
<1>9. PairsExist'
  <2>1. ASSUME NEW p \in Pairs, pair'[p] # "none" PROVE Exists(p[1])' /\ Exists(p[2])'
    <3>1. p[1] \in CompanyId \ {drop} /\ p[2] \in CompanyId \ {drop} /\ p[1] # p[2]
      BY <1>2, <2>1 DEF Pairs, CompanyId
    <3>2. CASE pair[p] # "none"
      BY <1>3, <3>1, <3>2 DEF ConflictInv, PairsExist
    <3>3. CASE keep \in {p[1], p[2]} /\ \E o \in {p[1], p[2]} \ {keep} :
                                            pair[PairOf(drop, o)] = "open"
      <4>1. PICK o \in {p[1], p[2]} \ {keep} : pair[PairOf(drop, o)] = "open"
        BY <3>3
      <4>2. PairOf(drop, o) \in Pairs
        BY <1>1, <3>1, PairType
      <4>3. Exists(o)
        BY <4>1, <4>2 DEF ConflictInv, PairsExist, PairOf
      <4> QED BY <1>1, <1>3, <3>1, <3>3, <4>1, <4>3
    <3> QED BY <1>2, <2>1, <3>2, <3>3
  <2> QED BY <2>1 DEF PairsExist
<1>10. ASSUME NEW q \in Run
       PROVE  SharesHeld(q)' /\ (\A o \in slock[q] : o \in CompanyId \ {keep, drop})
  <2>1. SharesHeld(q)
    BY DEF ConflictInv
  <2>2. \A o \in slock[q] : o \in CompanyId \ {keep, drop}
    BY <1>1, <2>1, ResolutionAssumption DEF SharesHeld, ResolutionInv, TypeOK, Actor
  <2>3. \A a \in Actor : xlock'[a] \subseteq xlock[a]
    BY <1>1 DEF Actor
  <2>4. SharesHeld(q)'
    BY <1>1, <1>3, <2>1, <2>2, <2>3 DEF SharesHeld, progress
  <2> QED BY <2>2, <2>4
<1>11. ASSUME NEW t \in CompanyId \ {keep, drop}, NEW x \in Value,
              NEW o \in CompanyId \ {t}, Exists(o), x \in owned[o], pair[PairOf(t, o)] # "none"
       PROVE  \/ <<t, x>> \in cleared'
              \/ \E u \in CompanyId \ {t} :
                    Exists(u)' /\ x \in owned'[u] /\ pair'[PairOf(t, u)] # "none"
  <2>1. CASE o # drop
    BY <1>3, <1>5, <1>11, <2>1
  <2>2. CASE o = drop
    <3>1. PairOf(t, drop) = PairOf(drop, t) /\ PairOf(t, keep) = PairOf(keep, t)
      BY <1>1 DEF PairOf, CompanyId
    <3>2. CASE pair[PairOf(drop, t)] = "open"
      BY <1>1, <1>2, <1>6, <1>11, <2>2, <3>1, <3>2
    <3>3. CASE pair[PairOf(drop, t)] = "resolved"
      <4>1. <<t, x>> \in DeletedVerdicts(keep, drop)
        BY <1>11, <2>2, <3>3 DEF DeletedVerdicts
      <4> QED BY <1>2, <4>1
    <3> QED BY <1>7, <1>11, <2>2, <3>1, <3>2, <3>3
  <2> QED BY <2>1, <2>2
<1>12. ASSUME NEW q \in Run PROVE ConflictRecorded(q)'
  <2>1. PICK t, x, P, o : t = target[q] /\ x = rec[q].val["domain"] /\ P = draft[q].pairs
                          /\ o = other[q]
    OBVIOUS
  <2>2. t = target'[q] /\ x = rec'[q].val["domain"] /\ P = draft'[q].pairs /\ o = other'[q]
        /\ pc'[q] = pc[q] /\ draft'[q] = draft[q]
    BY <1>1, <2>1 DEF progress
  <2>3. ASSUME pc[q] \in {"candidates", "commit"}, ~ draft[q].created,
               x # Null, draft[q].row.val["domain"] = Null
        PROVE  \/ ConflictSeen(t, x, P)'
               \/ pc[q] = "candidates" /\ (Exists(o)' => x \in owned'[o])
    <3>1. t \in CompanyId \ {keep, drop}
      BY <1>0, <2>1, <2>3, UpdatedAlone DEF Fold, Updating
    <3>2. pc[q] = "candidates" => o \in CompanyId
      BY <2>1, <2>3 DEF ResolutionInv, DraftFaithful
    <3>3. x \in Value
      <4>1. rec[q] # Null
        BY <2>3 DEF ResolutionInv, KeyHeld
      <4> QED BY <2>1, <2>3, <4>1, RecordType DEF ResolutionInv, OptValue
    <3>4. CASE <<t, x>> \in cleared
      BY <1>2, <3>4 DEF ConflictSeen
    <3>5. ASSUME NEW u \in CompanyId \ {t}, Exists(u), x \in owned[u],
                 pair[PairOf(t, u)] # "none"
          PROVE  ConflictSeen(t, x, P)'
      BY <1>11, <3>1, <3>3, <3>5 DEF ConflictSeen
    <3>6. ASSUME NEW u \in CompanyId \ {t}, Exists(u), x \in owned[u], PairOf(t, u) \in P
          PROVE  ConflictSeen(t, x, P)'
      <4>1. PICK v \in slock[q] \ {t} : PairOf(t, u) = PairOf(t, v)
        BY <2>1, <2>3, <3>6 DEF ConflictInv, SharesHeld
      <4>2. u = v
        BY <4>1 DEF PairOf
      <4>3. u \in CompanyId \ {keep, drop}
        BY <1>10, <4>1, <4>2
      <4> QED BY <1>3, <3>6, <4>3 DEF ConflictSeen
    <3>7. CASE pc[q] = "candidates" /\ (Exists(o) => x \in owned[o])
      BY <1>1, <1>3, <3>2, <3>7
    <3>8. \/ ConflictSeen(t, x, P)
          \/ pc[q] = "candidates" /\ (Exists(o) => x \in owned[o])
      BY <2>1, <2>3 DEF ConflictInv, ConflictRecorded
    <3> QED BY <3>4, <3>5, <3>6, <3>7, <3>8 DEF ConflictSeen
  <2> QED BY <2>2, <2>3 DEF ConflictRecorded, ConflictSeen
<1>13. DomainConflictQueued'
  <2>1. ASSUME NEW i \in CompanyId, NEW x \in Value, Exists(i)', DomainOf(i)' = Null,
               x \in reported'[i], <<i, x>> \notin cleared'
        PROVE  \E o \in CompanyId \ {i} :
                  Exists(o)' /\ x \in owned'[o] /\ pair'[PairOf(i, o)] # "none"
    <3>1. DomainConflictQueued /\ i # drop /\ <<i, x>> \notin cleared
      BY <1>1, <1>2, <2>1 DEF ConflictInv
    <3>2. CASE i # keep
      <4>1. Exists(i) /\ DomainOf(i) = Null /\ x \in reported[i]
        BY <1>2, <1>3, <2>1, <3>1, <3>2
      <4>2. PICK o \in CompanyId \ {i} :
                    Exists(o) /\ x \in owned[o] /\ pair[PairOf(i, o)] # "none"
        BY <3>1, <4>1 DEF DomainConflictQueued
      <4> QED BY <1>11, <2>1, <3>1, <3>2, <4>2
    <3>3. CASE i = keep
      <4>1. DomainOf(keep) = Null /\ DomainOf(drop) = Null
        BY <1>1, <2>1, <3>3
      <4>2. owned[keep] = {} /\ owned[drop] = {}
        BY <1>1, <1>4, <4>1 DEF HistoryTrue
      <4>3. CASE x \in reported[keep]
        <5>1. PICK o \in CompanyId \ {keep} :
                    Exists(o) /\ x \in owned[o] /\ pair[PairOf(keep, o)] # "none"
          BY <1>1, <3>1, <3>3, <4>1, <4>3 DEF DomainConflictQueued
        <5>2. o # drop
          BY <4>2, <5>1
        <5> QED BY <1>1, <1>3, <1>5, <3>3, <5>1, <5>2
      <4>4. CASE x \in reported[drop]
        <5>1. <<drop, x>> \notin cleared
          <6>1. <<drop, x>> \in cleared => <<keep, x>> \in DeletedVerdicts(keep, drop)
            BY <1>1 DEF DeletedVerdicts
          <6> QED BY <1>2, <2>1, <3>3, <6>1
        <5>2. PICK o \in CompanyId \ {drop} :
                    Exists(o) /\ x \in owned[o] /\ pair[PairOf(drop, o)] # "none"
          BY <1>1, <3>1, <4>1, <4>4, <5>1 DEF DomainConflictQueued
        <5>3. o \in CompanyId \ {keep, drop}
          BY <4>2, <5>2
        <5>4. pair[PairOf(drop, o)] # "resolved"
          <6>1. pair[PairOf(drop, o)] = "resolved" => <<keep, x>> \in DeletedVerdicts(keep, drop)
            BY <1>1, <4>4, <5>2, <5>3 DEF DeletedVerdicts
          <6> QED BY <1>2, <2>1, <3>3, <6>1
        <5>5. pair'[PairOf(keep, o)] # "none"
          BY <1>6, <1>7, <5>2, <5>3, <5>4
        <5> QED BY <1>3, <3>3, <5>2, <5>3, <5>5
      <4> QED BY <1>2, <2>1, <3>3, <4>3, <4>4
    <3> QED BY <3>2, <3>3
  <2> QED BY <2>1 DEF DomainConflictQueued
<1> QED BY <1>8, <1>9, <1>10, <1>12, <1>13 DEF ConflictInv

\* The other steps of the reviewer decide nothing a conflict rests on.
LEMMA ReviewerConflict ==
    ASSUME ResolutionInv, ConflictInv,
           \/ NotDuplicate \/ ChooseSurvivor \/ LockFirst \/ LockSecond \/ ReviewIsVictim
           \/ ReviewCrash \/ UNCHANGED vars
    PROVE  ConflictInv'
<1>1. /\ UNCHANGED <<company, progress, nextId, slock, history>>
      /\ \A r \in Run : xlock'[r] = xlock[r]
  BY ReviewerFrozen DEF ResolutionInv
<1>2. \A p \in Pairs : pair'[p] # "none" <=> pair[p] # "none"
  <2>1. CASE NotDuplicate
    BY <2>1 DEF NotDuplicate, OpenPairs, ResolutionInv, TypeOK
  <2>2. CASE UNCHANGED pair
    BY <2>2
  <2> QED BY <2>1, <2>2 DEF ChooseSurvivor, LockFirst, LockSecond, ReviewIsVictim, ReviewCrash,
                            RollBackReview, vars, database
<1>3. \A q \in Run : xlock[Reviewer] \cap slock[q] = {}
  BY ResolutionAssumption DEF ConflictInv, SharesHeld, Actor
<1>4. ASSUME NEW q \in Run PROVE xlock'[Reviewer] \cap slock[q] = {}
  <2> DEFINE b == PairOf(review.keep, review.drop)
  <2>1. CASE UNCHANGED xlock
    BY <1>3, <2>1
  <2>2. CASE xlock' = [xlock EXCEPT ![Reviewer] = {}]
    BY <2>2 DEF ResolutionInv, TypeOK, Actor
  <2>3. CASE LockFirst
    <3>1. xlock' = [xlock EXCEPT ![Reviewer] = {b[1]}] /\ UpdateBlockers(Reviewer, b[1]) = {}
      BY <2>3 DEF LockFirst
    <3>2. b[1] \notin slock[q]
      BY <3>1, ResolutionAssumption DEF UpdateBlockers, Actor
    <3> HIDE DEF b
    <3> QED BY <3>1, <3>2 DEF ResolutionInv, TypeOK, Actor
  <2>4. CASE LockSecond
    <3>1. /\ \/ xlock' = [xlock EXCEPT ![Reviewer] = {review.keep, review.drop}]
             \/ xlock' = [xlock EXCEPT ![Reviewer] = {}]
          /\ UpdateBlockers(Reviewer, b[2]) = {} /\ b[1] \in xlock[Reviewer]
      <4>1. review.pc = "second"
        BY <2>4 DEF LockSecond
      <4>2. b[1] \in xlock[Reviewer]
        BY <4>1 DEF ResolutionInv, Exclusive
      <4> QED BY <2>4, <4>2 DEF LockSecond
    <3>2. b[1] \notin slock[q] /\ b[2] \notin slock[q]
      BY <1>3, <3>1, ResolutionAssumption DEF UpdateBlockers, Actor
    <3>3. {review.keep, review.drop} = {b[1], b[2]}
      BY DEF PairOf
    <3>4. xlock \in [Actor -> SUBSET CompanyId] /\ Reviewer \in Actor
      BY DEF ResolutionInv, TypeOK, Actor
    <3> HIDE DEF b
    <3>5. xlock'[Reviewer] = {b[1], b[2]} \/ xlock'[Reviewer] = {}
      BY <3>1, <3>3, <3>4
    <3> QED BY <3>2, <3>5
  <2> QED BY <2>1, <2>2, <2>3, <2>4
          DEF NotDuplicate, ChooseSurvivor, ReviewIsVictim, ReviewCrash, RollBackReview, vars, locks
<1>5. \A q \in Run : slock[q] \subseteq CompanyId
  BY DEF ResolutionInv, TypeOK, Actor
<1>6. (\A c \in CompanyId : HistoryTrue(c)') /\ PairsExist'
  BY <1>1, <1>2 DEF ConflictInv, HistoryTrue, PairsExist, Exists, DomainOf, history
<1>7. ASSUME NEW q \in Run PROVE SharesHeld(q)'
  <2>1. SharesHeld(q)
    BY DEF ConflictInv
  <2>2. \A a \in Actor \ {q} : slock[q] \cap xlock'[a] = {}
    BY <1>1, <1>4, <2>1 DEF SharesHeld, Actor
  <2> QED BY <1>1, <2>1, <2>2 DEF SharesHeld, Exists, progress
<1>8. \A i \in CompanyId, o \in CompanyId :
          i # o => (pair'[PairOf(i, o)] # "none" <=> pair[PairOf(i, o)] # "none")
  BY <1>2, PairType
<1>9. DomainConflictQueued'
  BY <1>1, <1>8 DEF ConflictInv, DomainConflictQueued, Exists, DomainOf, history
<1>10. ASSUME NEW q \in Run PROVE ConflictRecorded(q)'
  <2>1. ConflictRecorded(q)
    BY DEF ConflictInv
  <2>2. pc[q] \in {"candidates", "commit"} => target[q] \in CompanyId
    BY DEF ResolutionInv, DraftFaithful
  <2> QED BY <1>1, <1>8, <2>1, <2>2 DEF ConflictRecorded, ConflictSeen, Exists, history, progress
<1> QED BY <1>6, <1>7, <1>9, <1>10 DEF ConflictInv

\* For any runs, feeds and names, and any interleaving of upserts and merges, a domain
\* reported for a company that could not have it is paired with one that has held it,
\* or was ruled on (design decision 1 of the SPEC).
THEOREM ConflictsAreQueued == Spec => []DomainConflictQueued
<1>1. Init => ResolutionInv /\ DeadlockInv /\ ConflictInv
  BY InitInv, DeadlockInit, ConflictInit
<1>2. ResolutionInv /\ DeadlockInv /\ ConflictInv /\ [Next]_vars => ConflictInv'
  <2> SUFFICES ASSUME ResolutionInv, DeadlockInv, ConflictInv, [Next]_vars PROVE ConflictInv'
    OBVIOUS
  <2>1. DeadlockInv'
    BY DeadlockStep
  <2>2. ASSUME NEW r \in Run, Begin(r) \/ Upsert(r) \/ Crash(r) PROVE ConflictInv'
    BY <2>1, <2>2, RunConflict, CommitConflict
  <2> QED BY <2>2, FoldConflict, ReviewerConflict DEF Next, Merge
<1>3. ResolutionInv /\ DeadlockInv /\ ConflictInv /\ [Next]_vars
          => (ResolutionInv /\ DeadlockInv /\ ConflictInv)'
  BY <1>2, NextInv, DeadlockStep
<1>4. ConflictInv => DomainConflictQueued
  BY DEF ConflictInv
<1> QED BY <1>1, <1>3, <1>4, PTL DEF Spec
=============================================================================
