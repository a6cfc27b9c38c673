----------------------------- MODULE LinksProofs -----------------------------
(***************************************************************************)
(* Proofs about Links, for any companies, records, domains and page sizes: *)
(* constructed links stay right and a sweep makes all of them right, no    *)
(* published contact is lost, and a merge loses nothing unsaid.            *)
(***************************************************************************)
EXTENDS Links, NaturalsInduction, FiniteSetTheorems, TLAPS

Contacts == [Key -> Confidence]

Types ==
    /\ company \in [Company -> {Null} \cup Row]
    /\ contact \in [Company -> Contacts]
    /\ person \in [Company -> [DOMAIN Nobody -> BOOLEAN]]
    /\ source \in [Company -> [Connector -> {"none", Null} \cup ExternalId]]
    /\ lock \in [Company -> {Null, "upsert", "merge", "sweep"}]
    /\ upsert # Null => upsert \in [company : Company, record : Record]
    /\ merge # Null => merge \in [keep : Company, drop : Company]
    /\ sweep \in {Null} \cup Sweeping

\* A transaction has locked the companies it is about; what the sweep has read of its own
\* still holds of it.
Locked ==
    /\ upsert # Null => lock[upsert.company] = "upsert" /\ company[upsert.company] # Null
    /\ merge # Null =>
        /\ merge.keep # merge.drop
        /\ lock[merge.keep] = "merge" /\ company[merge.keep] # Null
        /\ lock[merge.drop] = "merge" /\ company[merge.drop] # Null
    /\ sweep # Null /\ sweep.pc = "write" =>
        \E c \in sweep.page : /\ \A e \in sweep.page : c <= e
                              /\ lock[c] = "sweep" /\ company[c] # Null
                              /\ sweep.read = company[c]

LinksInv ==
    /\ Types
    /\ Locked
    /\ \A c \in Company : company[c] = Null => contact[c] = NoContact

-----------------------------------------------------------------------------
(* The reconciliation of one company's links.                              *)

LEMMA KeysArePairs == \A k \in Key : k = <<k[1], k[2]>>
BY DEF Key

LEMMA RebuiltFacts ==
    ASSUME NEW t \in Contacts, NEW kind, NEW value
    PROVE  /\ Rebuilt(t, kind, value) \in Contacts
           /\ \A k \in Key : Rebuilt(t, kind, value)[k] = "published" <=> t[k] = "published"
           /\ \A k \in Key : k[1] # kind => Rebuilt(t, kind, value)[k] = t[k]
BY DEF Rebuilt, Contacts, Confidence

LEMMA PublishedSame ==
    ASSUME NEW t, NEW u, NEW kind, \A k \in Key : u[k] = "published" <=> t[k] = "published"
    PROVE  Published(u, kind) <=> Published(t, kind)
BY DEF Published

LEMMA BuiltSame ==
    ASSUME NEW t, NEW u, NEW kind, \A k \in Key : k[1] = kind => u[k] = t[k]
    PROVE  Built(u, kind) = Built(t, kind)
BY DEF Built

\* After the reconciliation of one kind, at most the link it constructs is left.
LEMMA BuiltOne ==
    ASSUME NEW t \in Contacts, NEW kind, NEW value
    PROVE  Built(Rebuilt(t, kind, value), kind) =
             IF <<kind, value>> \in Key /\ t[<<kind, value>>] # "published" THEN {value} ELSE {}
<1> DEFINE u == Rebuilt(t, kind, value)
<1>1. ASSUME NEW k \in Key, k[1] = kind
      PROVE  u[k] = "constructed" <=> k[2] = value /\ t[k] # "published"
  BY <1>1 DEF Rebuilt, Contacts, Confidence
<1>2. ASSUME NEW k \in Key, k[1] = kind, k[2] = value
      PROVE  k = <<kind, value>>
  BY <1>2, KeysArePairs
<1> HIDE DEF u
<1>3. ASSUME NEW v, v \in Built(u, kind)
      PROVE  v = value /\ <<kind, value>> \in Key /\ t[<<kind, value>>] # "published"
  <2>1. PICK k \in Key : k[1] = kind /\ u[k] = "constructed" /\ v = k[2]
    BY <1>3 DEF Built
  <2> QED BY <2>1, <1>1, <1>2
<1>4. ASSUME <<kind, value>> \in Key, t[<<kind, value>>] # "published"
      PROVE  value \in Built(u, kind)
  <2>1. <<kind, value>>[1] = kind /\ <<kind, value>>[2] = value
    OBVIOUS
  <2>2. u[<<kind, value>>] = "constructed"
    BY <1>4, <1>1, <2>1
  <2> QED BY <1>4, <2>1, <2>2 DEF Built
<1>5. Built(u, kind) = IF <<kind, value>> \in Key /\ t[<<kind, value>>] # "published"
                       THEN {value} ELSE {}
  BY <1>3, <1>4
<1> QED BY <1>5 DEF u

\* _ensure_constructed_contacts leaves the links of a name and a domain right, whatever links
\* there were, and touches no published one.
LEMMA ReconciledFacts ==
    ASSUME NEW t \in Contacts, NEW row \in Row
    PROVE  LET u == Reconciled(t, row.name, row.domain)
           IN  /\ u \in Contacts
               /\ \A k \in Key : u[k] = "published" <=> t[k] = "published"
               /\ Matching(row, u)
<1> DEFINE C == "linkedin_company"
           P == "linkedin_people"
           page == IF Published(t, C) THEN Null ELSE LinkOf[row.domain]
           s == IF Published(t, C) \/ row.domain # Null THEN Rebuilt(t, C, page) ELSE t
           u == IF row.name = Blank THEN s ELSE Rebuilt(s, P, SearchOf[row.name])
<1>1. u = Reconciled(t, row.name, row.domain)
  BY DEF Reconciled
<1>2. /\ s \in Contacts
      /\ \A k \in Key : s[k] = "published" <=> t[k] = "published"
  BY RebuiltFacts
<1>3. /\ u \in Contacts
      /\ \A k \in Key : u[k] = "published" <=> s[k] = "published"
      /\ \A k \in Key : k[1] # P => u[k] = s[k]
  BY <1>2, RebuiltFacts
<1>4. Published(u, C) <=> Published(t, C)
  <2> HIDE DEF s, u
  <2>1. \A k \in Key : u[k] = "published" <=> t[k] = "published"
    BY <1>2, <1>3
  <2> QED BY <2>1, PublishedSame
<1>5. Built(u, C) = Built(s, C)
  <2> HIDE DEF s, u
  <2> QED BY <1>3, BuiltSame
<1>6. IF Published(u, C) THEN Built(u, C) = {}
      ELSE row.domain # Null => Built(u, C) = {LinkOf[row.domain]}
  <2>1. CASE Published(t, C)
    <3>1. s = Rebuilt(t, C, Null)
      BY <2>1
    <3>2. <<C, Null>> \notin Key
      BY LinksAssumption DEF Key
    <3>3. Built(s, C) = {}
      BY <3>1, <3>2, BuiltOne
    <3> QED BY <2>1, <3>3, <1>4, <1>5
  <2>2. CASE ~Published(t, C) /\ row.domain # Null
    <3>1. s = Rebuilt(t, C, LinkOf[row.domain])
      BY <2>2
    <3>2. <<C, LinkOf[row.domain]>> \in Key
      BY <2>2 DEF Key, Row
    <3>3. t[<<C, LinkOf[row.domain]>>] # "published"
      BY <2>2, <3>2 DEF Published
    <3>4. Built(s, C) = {LinkOf[row.domain]}
      BY <3>1, <3>2, <3>3, BuiltOne
    <3> QED BY <2>2, <3>4, <1>4, <1>5
  <2>3. CASE ~Published(t, C) /\ row.domain = Null
    BY <2>3, <1>4
  <2> QED BY <2>1, <2>2, <2>3
<1>7. ASSUME row.name # Blank
      PROVE  Built(u, P) = IF u[<<P, SearchOf[row.name]>>] = "published" THEN {}
                           ELSE {SearchOf[row.name]}
  <2>1. u = Rebuilt(s, P, SearchOf[row.name])
    BY <1>7
  <2>2. <<P, SearchOf[row.name]>> \in Key
    BY DEF Key, Row
  <2> HIDE DEF s
  <2>3. Built(Rebuilt(s, P, SearchOf[row.name]), P) =
          IF s[<<P, SearchOf[row.name]>>] # "published" THEN {SearchOf[row.name]} ELSE {}
    BY <1>2, <2>2, BuiltOne
  <2> QED BY <1>3, <2>1, <2>2, <2>3
<1>8. Matching(row, u)
  <2> HIDE DEF s, u
  <2> QED BY <1>6, <1>7 DEF Matching
<1>9. u \in Contacts /\ \A k \in Key : u[k] = "published" <=> t[k] = "published"
  <2> HIDE DEF s, u
  <2> QED BY <1>2, <1>3
<1> HIDE DEF u
<1> QED BY <1>1, <1>8, <1>9

-----------------------------------------------------------------------------
(* The invariant.                                                          *)

LEMMA InitLinks == Init => LinksInv
<1> SUFFICES ASSUME Init PROVE LinksInv
  OBVIOUS
<1>1. NoContact \in Contacts /\ Drift \subseteq Contacts
  BY LinksAssumption DEF NoContact, Contacts, Confidence
<1>2. contact \in [Company -> Contacts]
  BY <1>1 DEF Init
<1>3. person \in [Company -> [DOMAIN Nobody -> BOOLEAN]]
  BY DEF Init, Nobody
<1>4. source \in [Company -> [Connector -> {"none", Null} \cup ExternalId]]
  BY DEF Init, Unseen
<1>5. Types
  BY <1>2, <1>3, <1>4 DEF Init, Types
<1>6. Locked
  BY DEF Init, Locked
<1> QED BY <1>5, <1>6 DEF Init, LinksInv

\* A set of naturals that has an element has a least one.
LEMMA LeastNatural ==
    ASSUME NEW S \in SUBSET Nat, S # {}
    PROVE  \E m \in S : \A n \in S : m <= n
<1> DEFINE R == OpToRel(<, Nat)
<1>1. \A m, n \in Nat : m < n => <<m, n>> \in R
  BY DEF OpToRel
<1>2. IsWellFoundedOn(R, Nat)
  BY NatLessThanWellFounded
<1> HIDE DEF R
<1>3. PICK m \in S : \A n \in S : ~(<<n, m>> \in R)
  BY <1>2, WFMin
<1>4. ASSUME NEW n \in S PROVE m <= n
  <2>1. m \in Nat /\ n \in Nat
    OBVIOUS
  <2>2. ~(n < m)
    BY <1>1, <1>3, <2>1
  <2> QED BY <2>1, <2>2
<1> QED BY <1>4

Below(S, c) == {d \in S : d < c}

LEMMA BelowFacts ==
    ASSUME NEW S \in SUBSET Nat, NEW c \in S
    PROVE  /\ IsFiniteSet(Below(S, c)) /\ Cardinality(Below(S, c)) \in Nat
           /\ \A d \in S : d < c => Cardinality(Below(S, d)) < Cardinality(Below(S, c))
<1>0. \A d \in S : d \in Nat
  OBVIOUS
<1>1. IsFiniteSet(Below(S, c))
  <2>1. c \in Nat /\ 0 \in Int /\ c \in Int
    BY <1>0
  <2>2. IsFiniteSet(0..c)
    BY <2>1, FS_Interval
  <2>3. Below(S, c) \in SUBSET (0..c)
    <3>1. ASSUME NEW d \in S, d < c PROVE d \in 0..c
      <4>1. d \in Nat
        BY <1>0
      <4> QED BY <2>1, <3>1, <4>1
    <3> QED BY <3>1 DEF Below
  <2> QED BY <2>2, <2>3, FS_Subset
<1>2. Cardinality(Below(S, c)) \in Nat
  BY <1>1, FS_CardinalityType
<1>3. ASSUME NEW d \in S, d < c
      PROVE  Cardinality(Below(S, d)) < Cardinality(Below(S, c))
  <2>0. /\ ~(d < d)
        /\ \A e \in S : e < d => e < c
    <3>1. c \in Nat /\ d \in Nat
      BY <1>0
    <3>2. ASSUME NEW e \in S, e < d PROVE e < c
      <4>1. e \in Nat
        BY <1>0
      <4> QED BY <1>3, <3>1, <3>2, <4>1
    <3> QED BY <3>1, <3>2
  <2>1. IsFiniteSet(Below(S, d))
    <3>1. Below(S, d) \in SUBSET Below(S, c)
      BY <2>0 DEF Below
    <3> QED BY <3>1, <1>1, FS_Subset
  <2>2. Cardinality(Below(S, d)) \in Nat
    BY <2>1, FS_CardinalityType
  <2>3. d \notin Below(S, d) /\ Below(S, d) \cup {d} \in SUBSET Below(S, c)
    BY <2>0, <1>3 DEF Below
  <2>4. Cardinality(Below(S, d) \cup {d}) = Cardinality(Below(S, d)) + 1
    BY <2>1, <2>3, FS_AddElement
  <2>5. Cardinality(Below(S, d) \cup {d}) <= Cardinality(Below(S, c))
    BY <1>1, <2>3, FS_Subset
  <2> QED BY <1>2, <2>2, <2>4, <2>5
<1> QED BY <1>1, <1>2, <1>3

\* A page is the first ids of a set, and it has a last one.
LEMMA PageFacts ==
    ASSUME NEW S \in SUBSET Nat, S # {}, NEW page,
           page = {c \in S : Cardinality(Below(S, c)) < Batch}
    PROVE  /\ Last(page) \in page
           /\ \A c \in S : c <= Last(page) => c \in page
<1> DEFINE N(c) == Cardinality(Below(S, c))
           W == {Batch - N(c) : c \in page}
<1>1. \A c \in S : N(c) \in Nat /\ \A d \in S : d < c => N(d) < N(c)
  BY BelowFacts
<1>2. Batch \in Nat /\ Batch > 0 /\ \A c \in S : c \in Nat
  BY LinksAssumption
<1>3. PICK m \in S : \A n \in S : m <= n
  BY LeastNatural
<1>4. m \in page
  <2>1. Below(S, m) = {}
    <3>1. ASSUME NEW d \in S PROVE ~(d < m)
      <4>1. d \in Nat /\ m \in Nat /\ m <= d
        BY <1>2, <1>3
      <4> QED BY <4>1
    <3> QED BY <3>1 DEF Below
  <2> QED BY <2>1, <1>2, <1>3, FS_EmptySet
<1> HIDE DEF N
<1>5. W \in SUBSET Nat
  BY <1>1, <1>2 DEF N
<1>6. PICK w \in W : \A v \in W : w <= v
  <2>1. W # {}
    BY <1>4
  <2> HIDE DEF W
  <2> QED BY <1>5, <2>1, LeastNatural
<1>7. PICK l \in page : w = Batch - N(l)
  BY <1>6
<1>8. ASSUME NEW c \in page PROVE c <= l
  <2>1. Batch - N(l) <= Batch - N(c)
    BY <1>6, <1>7
  <2>2. c \in S /\ l \in S
    BY <1>7, <1>8
  <2> QED BY <2>1, <2>2, <1>1, <1>2
<1>9. Last(page) \in page /\ \A c \in page : c <= Last(page)
  BY <1>7, <1>8 DEF Last
<1>10. ASSUME NEW c \in S, c <= Last(page) PROVE c \in page
  <2>1. Last(page) \in S /\ N(Last(page)) < Batch
    BY <1>9 DEF N
  <2>2. CASE c = Last(page)
    BY <1>9, <2>2
  <2>3. CASE c < Last(page)
    <3>1. N(c) < N(Last(page)) /\ N(c) \in Nat /\ N(Last(page)) \in Nat
      BY <1>1, <2>1, <2>3
    <3>2. N(c) < Batch
      BY <1>2, <2>1, <3>1
    <3> QED BY <3>2 DEF N
  <2>4. c \in Nat /\ Last(page) \in Nat
    BY <1>2, <2>1
  <2> QED BY <1>10, <2>2, <2>3, <2>4
<1> QED BY <1>9, <1>10

\* Company c is written, and its links reconciled from contacts among which are all that were
\* published of the companies of S.
Rewritten(c, S) ==
    /\ company'[c] \in Row
    /\ \E t \in Contacts :
          /\ contact'[c] = Reconciled(t, company'[c].name, company'[c].domain)
          /\ \A d \in S : \A k \in Key : contact[d][k] = "published" => t[k] = "published"

OthersSame(S) ==
    \A c \in Company \ S : company'[c] = company[c] /\ contact'[c] = contact[c]

LEMMA UpsertStep ==
    ASSUME LinksInv, CommitUpsert
    PROVE  /\ upsert.company \in Company /\ upsert.record \in Record
           /\ company' \in [Company -> {Null} \cup Row] /\ contact' \in [Company -> Contacts]
           /\ Rewritten(upsert.company, {upsert.company}) /\ OthersSame({upsert.company})
<1> DEFINE c == upsert.company
           r == upsert.record
           t == WithPublished(contact[c], r)
<1>1. /\ upsert # Null /\ upsert \in [company : Company, record : Record]
      /\ company \in [Company -> {Null} \cup Row] /\ contact \in [Company -> Contacts]
      /\ company[upsert.company] # Null
  BY DEF CommitUpsert, LinksInv, Types, Locked
<1>2. c \in Company /\ r \in Record
  BY <1>1
<1>3. PICK row \in Updated(company[c], r, c) :
         /\ company' = [company EXCEPT ![c] = row]
         /\ contact' = [contact EXCEPT ![c] = Reconciled(WithPublished(@, r), row.name, row.domain)]
  BY DEF CommitUpsert
<1>4. row \in Row
  <2>1. company[c] \in Row /\ r.name \in Name /\ r.domain \in Domain \cup {Null}
    BY <1>1, <1>2, LinksAssumption
  <2> HIDE DEF c, r
  <2> QED BY <2>1, <1>3 DEF Updated, Row
<1>5. t \in Contacts /\ \A k \in Key : contact[c][k] = "published" => t[k] = "published"
  BY <1>1, <1>2 DEF WithPublished, Contacts, Confidence
<1> HIDE DEF c, r, t
<1>6. contact'[c] = Reconciled(t, row.name, row.domain)
  BY <1>1, <1>2, <1>3 DEF t
<1>7. Reconciled(t, row.name, row.domain) \in Contacts
  BY <1>4, <1>5, ReconciledFacts
<1>8. company'[c] = row
  BY <1>1, <1>2, <1>3
<1>9. company' \in [Company -> {Null} \cup Row]
  BY <1>1, <1>2, <1>3, <1>4
<1>10. contact' \in [Company -> Contacts]
  BY <1>1, <1>2, <1>3, <1>7 DEF t
<1>11. Rewritten(c, {c})
  BY <1>4, <1>5, <1>6, <1>8 DEF Rewritten
<1>12. OthersSame({c})
  BY <1>1, <1>2, <1>3 DEF OthersSame
<1> QED BY <1>2, <1>9, <1>10, <1>11, <1>12 DEF c, r

LEMMA InsertStep ==
    ASSUME LinksInv, NEW c \in Company, NEW r \in Record, InsertCompany(c, r)
    PROVE  /\ company[c] = Null
           /\ company' \in [Company -> {Null} \cup Row] /\ contact' \in [Company -> Contacts]
           /\ Rewritten(c, {c}) /\ OthersSame({c})
<1> DEFINE row == [name |-> r.name, domain |-> r.domain]
           t == WithPublished(NoContact, r)
<1>1. /\ company \in [Company -> {Null} \cup Row] /\ contact \in [Company -> Contacts]
      /\ company[c] = Null /\ contact[c] = NoContact
  BY DEF InsertCompany, LinksInv, Types
<1>2. row \in Row /\ row.name = r.name /\ row.domain = r.domain
  BY LinksAssumption DEF Row
<1>3. t \in Contacts /\ \A k \in Key : contact[c][k] = "published" => t[k] = "published"
  BY <1>1 DEF WithPublished, Contacts, Confidence, NoContact
<1>4. /\ company' = [company EXCEPT ![c] = row]
      /\ contact' = [contact EXCEPT ![c] = Reconciled(t, row.name, row.domain)]
  BY DEF InsertCompany
<1> HIDE DEF row, t
<1>5. Reconciled(t, row.name, row.domain) \in Contacts
  BY <1>2, <1>3, ReconciledFacts
<1>6. company' \in [Company -> {Null} \cup Row] /\ contact' \in [Company -> Contacts]
  BY <1>1, <1>2, <1>4, <1>5
<1>7. Rewritten(c, {c})
  BY <1>1, <1>2, <1>3, <1>4 DEF Rewritten
<1>8. OthersSame({c})
  BY <1>1, <1>4 DEF OthersSame
<1> QED BY <1>1, <1>6, <1>7, <1>8

LEMMA MergeStep ==
    ASSUME LinksInv, CommitMerge
    PROVE  /\ merge.keep \in Company /\ merge.drop \in Company /\ merge.keep # merge.drop
           /\ company' \in [Company -> {Null} \cup Row] /\ contact' \in [Company -> Contacts]
           /\ company'[merge.drop] = Null /\ contact'[merge.drop] = NoContact
           /\ Rewritten(merge.keep, {merge.keep, merge.drop})
           /\ OthersSame({merge.keep, merge.drop})
<1> DEFINE keep == merge.keep
           drop == merge.drop
           row == [company[keep] EXCEPT !.domain = IF @ = Null THEN company[drop].domain ELSE @]
           t == MoveGuarded(Promoted(contact[keep], contact[drop]), contact[drop])
<1>1. /\ merge # Null /\ merge \in [keep : Company, drop : Company] /\ keep # drop
      /\ company \in [Company -> {Null} \cup Row] /\ contact \in [Company -> Contacts]
      /\ company[keep] # Null /\ company[drop] # Null
  BY DEF CommitMerge, LinksInv, Types, Locked
<1>2. keep \in Company /\ drop \in Company /\ keep # drop
  BY <1>1
<1>3. row \in Row
  <2>1. company[keep] \in Row /\ company[drop] \in Row
    BY <1>1, <1>2
  <2> HIDE DEF keep, drop
  <2> QED BY <2>1 DEF Row
<1>4. t \in Contacts
      /\ \A d \in {keep, drop} : \A k \in Key : contact[d][k] = "published" => t[k] = "published"
  <2>1. contact[keep] \in Contacts /\ contact[drop] \in Contacts
    BY <1>1, <1>2
  <2> HIDE DEF keep, drop
  <2> QED BY <2>1 DEF MoveGuarded, Promoted, Contacts, Confidence
<1>5. /\ company' = [company EXCEPT ![keep] = row, ![drop] = Null]
      /\ contact' = [contact EXCEPT ![keep] = Reconciled(t, row.name, row.domain),
                                    ![drop] = NoContact]
  BY DEF CommitMerge
<1> HIDE DEF keep, drop, row, t
<1>6. Reconciled(t, row.name, row.domain) \in Contacts /\ NoContact \in Contacts
  BY <1>3, <1>4, ReconciledFacts DEF NoContact, Contacts, Confidence
<1>7. company' \in [Company -> {Null} \cup Row] /\ contact' \in [Company -> Contacts]
  BY <1>1, <1>2, <1>3, <1>5, <1>6
<1>8. company'[drop] = Null /\ contact'[drop] = NoContact
  BY <1>1, <1>2, <1>5
<1>9. Rewritten(keep, {keep, drop})
  BY <1>1, <1>2, <1>3, <1>4, <1>5 DEF Rewritten
<1>10. OthersSame({keep, drop})
  BY <1>1, <1>2, <1>5 DEF OthersSame
<1> QED BY <1>2, <1>7, <1>8, <1>9, <1>10 DEF keep, drop

\* The company a sweep writes is the one it has read and locked.
LEMMA SweepStep ==
    ASSUME LinksInv, WriteLinks
    PROVE  \E c \in Company :
              /\ c \in sweep.page /\ lock[c] = "sweep"
              /\ contact' \in [Company -> Contacts]
              /\ sweep.dry = TRUE \/ Rewritten(c, {c})
              /\ OthersSame({c}) /\ company' = company /\ company[c] # Null
              /\ sweep.dry = TRUE => contact' = contact
              /\ sweep' = [sweep EXCEPT !.page = @ \ {c}, !.read = Null, !.pc = "company"]
<1>1. /\ sweep \in Sweeping /\ sweep # Null /\ sweep.pc = "write" /\ company' = company
      /\ company \in [Company -> {Null} \cup Row] /\ contact \in [Company -> Contacts]
  BY DEF WriteLinks, LinksInv, Types
<1>2. PICK c \in sweep.page :
         /\ \A e \in sweep.page : c <= e
         /\ lock[c] = "sweep" /\ company[c] # Null /\ sweep.read = company[c]
  BY <1>1 DEF LinksInv, Locked
<1>3. c \in Company /\ \A e \in sweep.page : e \in Nat
  BY <1>1, LinksAssumption DEF Sweeping
<1>4. c = CHOOSE d \in sweep.page : \A e \in sweep.page : d <= e
  <2>1. ASSUME NEW d \in sweep.page, \A e \in sweep.page : d <= e PROVE d = c
    <3>1. d <= c /\ c <= d /\ c \in Nat /\ d \in Nat
      BY <1>2, <1>3, <2>1
    <3> QED BY <3>1
  <2> QED BY <1>2, <2>1
<1>5. contact' = IF sweep.dry THEN contact
                 ELSE [contact EXCEPT ![c] = Reconciled(@, sweep.read.name, sweep.read.domain)]
  BY <1>4 DEF WriteLinks
<1>6. sweep' = [sweep EXCEPT !.page = @ \ {c}, !.read = Null, !.pc = "company"]
  BY <1>4 DEF WriteLinks
<1>7. company[c] \in Row /\ contact[c] \in Contacts
  BY <1>1, <1>2, <1>3
<1>8. Reconciled(contact[c], company[c].name, company[c].domain) \in Contacts
  BY <1>7, ReconciledFacts
<1>9. sweep.dry \in BOOLEAN
  BY <1>1 DEF Sweeping
<1>10. contact' \in [Company -> Contacts]
  <2>1. CASE sweep.dry = TRUE
    BY <1>1, <1>5, <2>1
  <2>2. CASE sweep.dry = FALSE
    BY <1>1, <1>2, <1>3, <1>5, <1>8, <2>2
  <2> QED BY <1>9, <2>1, <2>2
<1>11. ASSUME sweep.dry = FALSE PROVE Rewritten(c, {c})
  <2>1. contact'[c] = Reconciled(contact[c], company[c].name, company[c].domain)
    BY <1>1, <1>2, <1>3, <1>5, <1>11
  <2> QED BY <1>1, <1>7, <2>1 DEF Rewritten
<1>12. OthersSame({c})
  <2>1. CASE sweep.dry = TRUE
    BY <1>1, <1>5, <2>1 DEF OthersSame
  <2>2. CASE sweep.dry = FALSE
    BY <1>1, <1>3, <1>5, <2>2 DEF OthersSame
  <2> QED BY <1>9, <2>1, <2>2
<1>13. sweep.dry = TRUE => contact' = contact
  BY <1>5
<1> QED BY <1>1, <1>2, <1>3, <1>6, <1>9, <1>10, <1>11, <1>12, <1>13

-----------------------------------------------------------------------------

Sweeps ==
    \/ \E dry \in BOOLEAN : StartSweep(dry)
    \/ ReadPage \/ PageDone \/ SweepDone \/ SweepKilled
    \/ \E c \in Company : PassGone(c) \/ ReadCompany(c)

\* A step of the sweep that writes no contact leaves it typed, and with the company it reads.
LEMMA SweepsKeep ==
    ASSUME LinksInv, Sweeps
    PROVE  /\ sweep' \in {Null} \cup Sweeping
           /\ lock' \in [Company -> {Null, "upsert", "merge", "sweep"}]
           /\ \A c \in Company : lock[c] \in {"upsert", "merge"} => lock'[c] = lock[c]
           /\ sweep' # Null /\ sweep'.pc = "write" =>
                \E c \in sweep'.page : /\ \A e \in sweep'.page : c <= e
                                       /\ lock'[c] = "sweep" /\ company[c] # Null
                                       /\ sweep'.read = company[c]
<1>1. /\ sweep \in {Null} \cup Sweeping /\ company \in [Company -> {Null} \cup Row]
      /\ lock \in [Company -> {Null, "upsert", "merge", "sweep"}]
  BY DEF LinksInv, Types
<1>2. ASSUME NEW dry \in BOOLEAN, StartSweep(dry)
      PROVE  sweep' \in Sweeping /\ sweep'.pc = "page" /\ lock' = lock
  BY <1>2 DEF StartSweep, Sweeping
<1>3. ASSUME ReadPage
      PROVE  sweep' \in Sweeping /\ sweep'.pc = "company" /\ lock' = lock
  <2> DEFINE page == {c \in Beyond : Cardinality(Below(Beyond, c)) < Batch}
  <2>1. sweep' = [sweep EXCEPT !.page = page, !.after = Last(page), !.pc = "company"]
    BY <1>3 DEF ReadPage, Below
  <2>2. Beyond \in SUBSET Nat /\ Beyond \subseteq Company /\ Beyond # {}
    BY <1>3, LinksAssumption DEF ReadPage, Beyond
  <2>3. Last(page) \in page
    BY <2>2, PageFacts
  <2>4. page \in SUBSET Company
    BY <2>2
  <2> HIDE DEF page
  <2>5. sweep \in Sweeping /\ lock' = lock
    BY <1>1, <1>3 DEF ReadPage
  <2> QED BY <2>1, <2>3, <2>4, <2>5 DEF Sweeping
<1>4. ASSUME PageDone \/ \E c \in Company : PassGone(c)
      PROVE  sweep' \in Sweeping /\ sweep'.pc # "write" /\ lock' = lock
  BY <1>1, <1>4 DEF PageDone, PassGone, NextOf, Sweeping
<1>5. ASSUME NEW c \in Company, ReadCompany(c)
      PROVE  /\ sweep' \in Sweeping /\ sweep'.page = sweep.page /\ sweep'.read = company[c]
             /\ lock' = [lock EXCEPT ![c] = "sweep"] /\ lock[c] = Null /\ company[c] # Null
             /\ c \in sweep.page /\ \A e \in sweep.page : c <= e
  BY <1>1, <1>5 DEF ReadCompany, NextOf, Free, Sweeping
<1>6. ASSUME SweepDone \/ SweepKilled
      PROVE  sweep' = Null /\ lock' \in {lock, Released("sweep")}
  BY <1>6 DEF SweepDone, SweepKilled
<1>7. CASE \E dry \in BOOLEAN : StartSweep(dry)
  BY <1>1, <1>2, <1>7
<1>8. CASE ReadPage
  BY <1>1, <1>3, <1>8
<1>9. CASE PageDone \/ \E c \in Company : PassGone(c)
  BY <1>1, <1>4, <1>9
<1>10. CASE \E c \in Company : ReadCompany(c)
  <2>1. PICK c \in Company : ReadCompany(c)
    BY <1>10
  <2> QED BY <1>1, <1>5, <2>1, LinksAssumption
<1>11. CASE SweepDone \/ SweepKilled
  BY <1>1, <1>6, <1>11 DEF Released
<1> QED BY <1>7, <1>8, <1>9, <1>10, <1>11 DEF Sweeps

\* People and sources keep their types.
LEMMA PeopleTyped ==
    ASSUME LinksInv, Next
    PROVE  /\ person' \in [Company -> [DOMAIN Nobody -> BOOLEAN]]
           /\ source' \in [Company -> [Connector -> {"none", Null} \cup ExternalId]]
<1> DEFINE PersonType == [DOMAIN Nobody -> BOOLEAN]
           SourceType == [Connector -> {"none", Null} \cup ExternalId]
<1>1. person \in [Company -> PersonType] /\ source \in [Company -> SourceType]
  BY DEF LinksInv, Types
<1>2. ASSUME NEW t \in SourceType, NEW r \in Record PROVE WithSource(t, r) \in SourceType
  <2>1. r.connector \in Connector /\ r.external_id \in ExternalId \cup {Null}
    BY LinksAssumption
  <2> QED BY <2>1 DEF WithSource
<1>3. CASE CommitUpsert
  <2>1. upsert.company \in Company /\ upsert.record \in Record
    BY <1>3, UpsertStep
  <2>2. PICK t \in WithPeople(person[upsert.company], upsert.record) :
           person' = [person EXCEPT ![upsert.company] = t]
    BY <1>3 DEF CommitUpsert
  <2>3. t \in PersonType
    BY DEF WithPeople
  <2>4. source' = [source EXCEPT ![upsert.company] = WithSource(@, upsert.record)]
    BY <1>3 DEF CommitUpsert
  <2> HIDE DEF PersonType, SourceType
  <2> QED BY <1>1, <1>2, <2>1, <2>2, <2>3, <2>4 DEF PersonType, SourceType
<1>4. CASE \E c \in Company, r \in Record : InsertCompany(c, r)
  <2>1. PICK c \in Company, r \in Record : InsertCompany(c, r)
    BY <1>4
  <2>2. [p \in DOMAIN Nobody |-> p \in r.people] \in PersonType /\ Unseen \in SourceType
    BY DEF Unseen
  <2>3. /\ person' = [person EXCEPT ![c] = [p \in DOMAIN Nobody |-> p \in r.people]]
        /\ source' = [source EXCEPT ![c] = WithSource(Unseen, r)]
    BY <2>1 DEF InsertCompany
  <2> HIDE DEF PersonType, SourceType
  <2> QED BY <1>1, <1>2, <2>2, <2>3 DEF PersonType, SourceType
<1>5. CASE CommitMerge
  <2> DEFINE keep == merge.keep
             drop == merge.drop
             people == Deduped(person[keep], person[drop])
             sources == Adopted(MoveGuarded(source[keep], source[drop]), source[drop])
  <2>1. keep \in Company /\ drop \in Company
    BY <1>5, MergeStep
  <2>2. /\ person[keep] \in PersonType /\ person[drop] \in PersonType
        /\ source[keep] \in SourceType /\ source[drop] \in SourceType
    BY <1>1, <2>1
  <2>3. /\ person' = [person EXCEPT ![keep] = people, ![drop] = Nobody]
        /\ source' = [source EXCEPT ![keep] = sources, ![drop] = Unseen]
    BY <1>5 DEF CommitMerge
  <2> HIDE DEF keep, drop
  <2>4. people \in PersonType
    BY <2>2 DEF Deduped
  <2>5. sources \in SourceType
    BY <2>2 DEF Adopted, MoveGuarded
  <2>6. Nobody \in PersonType /\ Unseen \in SourceType
    BY DEF Nobody, Unseen
  <2> HIDE DEF people, sources, PersonType, SourceType
  <2> QED BY <1>1, <2>1, <2>3, <2>4, <2>5, <2>6 DEF PersonType, SourceType
<1>6. CASE /\ ~CommitUpsert /\ ~CommitMerge
           /\ ~\E c \in Company, r \in Record : InsertCompany(c, r)
  <2>1. UNCHANGED <<person, source>>
    BY <1>6 DEF Next, Ingest, Review, Sweep, LockCompany, UpsertFails, LockPair, MergeFails,
                StartSweep, ReadPage, WriteLinks, PageDone, SweepDone, SweepKilled, PassGone,
                ReadCompany, tables
  <2> QED BY <1>1, <2>1
<1> QED BY <1>3, <1>4, <1>5, <1>6

LEMMA NextSplits ==
    ASSUME Next
    PROVE  \/ \E c \in Company, r \in Record : LockCompany(c, r)
           \/ \E c \in Company, r \in Record : InsertCompany(c, r)
           \/ CommitUpsert \/ UpsertFails
           \/ \E keep, drop \in Company : LockPair(keep, drop)
           \/ CommitMerge \/ MergeFails \/ WriteLinks \/ Sweeps
BY DEF Next, Ingest, Review, Sweep, Sweeps

\* Every step of a transaction keeps the companies of the others locked and as they were.
LEMMA NextKeeps == LinksInv /\ [Next]_vars => LinksInv'
<1> SUFFICES ASSUME LinksInv, [Next]_vars PROVE LinksInv'
  OBVIOUS
<1>0. CASE UNCHANGED vars
  BY <1>0 DEF vars, tables, LinksInv, Types, Locked
<1> SUFFICES ASSUME Next PROVE LinksInv'
  BY <1>0
<1> DEFINE Orphans == \A c \in Company : company[c] = Null => contact[c] = NoContact
<1>1. /\ company \in [Company -> {Null} \cup Row] /\ contact \in [Company -> Contacts]
      /\ lock \in [Company -> {Null, "upsert", "merge", "sweep"}]
      /\ upsert # Null => upsert \in [company : Company, record : Record]
      /\ merge # Null => merge \in [keep : Company, drop : Company]
      /\ sweep \in {Null} \cup Sweeping /\ Orphans
  BY DEF LinksInv, Types
<1>2. /\ person' \in [Company -> [DOMAIN Nobody -> BOOLEAN]]
      /\ source' \in [Company -> [Connector -> {"none", Null} \cup ExternalId]]
  BY PeopleTyped
<1>3. Null \notin Row /\ Null \notin {"none", "upsert", "merge", "sweep"}
  BY LinksAssumption
<1>4. /\ sweep # Null => sweep.page \subseteq Company
      /\ upsert # Null => upsert.company \in Company
      /\ merge # Null => merge.keep \in Company /\ merge.drop \in Company
  BY <1>1 DEF Sweeping
<1>5. Locked
  BY DEF LinksInv
<1>6. CASE \E c \in Company, r \in Record : LockCompany(c, r)
  <2>1. PICK c \in Company, r \in Record : LockCompany(c, r)
    BY <1>6
  <2>2. /\ UNCHANGED <<tables, merge, sweep>> /\ company[c] # Null /\ lock[c] = Null
        /\ lock' = [lock EXCEPT ![c] = "upsert"] /\ upsert' = [company |-> c, record |-> r]
    BY <2>1 DEF LockCompany, Free
  <2>3. upsert' \in [company : Company, record : Record] /\ upsert'.company = c
    BY <2>2
  <2>4. Locked'
    BY <1>1, <1>3, <1>4, <1>5, <2>2, <2>3 DEF Locked, tables
  <2> QED BY <1>1, <1>2, <2>2, <2>3, <2>4 DEF LinksInv, Types, tables
<1>7. CASE \E c \in Company, r \in Record : InsertCompany(c, r)
  <2>1. PICK c \in Company, r \in Record : InsertCompany(c, r)
    BY <1>7
  <2>2. /\ company[c] = Null
        /\ company' \in [Company -> {Null} \cup Row] /\ contact' \in [Company -> Contacts]
        /\ Rewritten(c, {c}) /\ OthersSame({c})
    BY <2>1, InsertStep
  <2>3. UNCHANGED <<lock, upsert, merge, sweep>>
    BY <2>1 DEF InsertCompany
  <2>4. company'[c] # Null /\ Orphans'
    BY <1>1, <1>3, <2>2 DEF Rewritten, OthersSame
  <2>5. Locked'
    BY <1>4, <1>5, <2>2, <2>3, <2>4 DEF Locked, OthersSame
  <2> QED BY <1>1, <1>2, <2>2, <2>3, <2>4, <2>5 DEF LinksInv, Types
<1>8. CASE CommitUpsert
  <2> DEFINE c == upsert.company
  <2>1. /\ c \in Company
        /\ company' \in [Company -> {Null} \cup Row] /\ contact' \in [Company -> Contacts]
        /\ Rewritten(c, {c}) /\ OthersSame({c})
    BY <1>8, UpsertStep
  <2>2. UNCHANGED <<merge, sweep>> /\ lock' = Released("upsert") /\ upsert' = Null
        /\ upsert # Null
    BY <1>8 DEF CommitUpsert
  <2>3. company'[c] # Null /\ Orphans'
    BY <1>1, <1>3, <2>1 DEF Rewritten, OthersSame
  <2>4. lock[c] = "upsert"
    BY <1>5, <2>2 DEF Locked
  <2>5. /\ lock' \in [Company -> {Null, "upsert", "merge", "sweep"}]
        /\ \A d \in Company : lock[d] # "upsert" => lock'[d] = lock[d] /\ d # c
    BY <1>1, <2>2, <2>4 DEF Released
  <2> HIDE DEF c
  <2>6. Locked'
    BY <1>4, <1>5, <2>1, <2>2, <2>5 DEF Locked, OthersSame
  <2> QED BY <1>1, <1>2, <2>1, <2>2, <2>3, <2>5, <2>6 DEF LinksInv, Types
<1>9. CASE UpsertFails
  <2>1. UNCHANGED <<tables, merge, sweep>> /\ lock' = Released("upsert") /\ upsert' = Null
    BY <1>9 DEF UpsertFails
  <2>2. /\ lock' \in [Company -> {Null, "upsert", "merge", "sweep"}]
        /\ \A d \in Company : lock[d] # "upsert" => lock'[d] = lock[d]
    BY <1>1, <2>1 DEF Released
  <2>3. Locked'
    BY <1>4, <1>5, <2>1, <2>2 DEF Locked, tables
  <2> QED BY <1>1, <1>2, <2>1, <2>2, <2>3 DEF LinksInv, Types, tables
<1>10. CASE \E keep, drop \in Company : LockPair(keep, drop)
  <2>1. PICK keep \in Company, drop \in Company : LockPair(keep, drop)
    BY <1>10
  <2>2. /\ UNCHANGED <<tables, upsert, sweep>> /\ keep # drop
        /\ company[keep] # Null /\ lock[keep] = Null
        /\ company[drop] # Null /\ lock[drop] = Null
        /\ lock' = [lock EXCEPT ![keep] = "merge", ![drop] = "merge"]
        /\ merge' = [keep |-> keep, drop |-> drop]
    BY <2>1 DEF LockPair, Free
  <2>3. /\ merge' \in [keep : Company, drop : Company]
        /\ merge'.keep = keep /\ merge'.drop = drop
    BY <2>2
  <2>4. Locked'
    BY <1>1, <1>3, <1>4, <1>5, <2>2, <2>3 DEF Locked, tables
  <2> QED BY <1>1, <1>2, <2>2, <2>3, <2>4 DEF LinksInv, Types, tables
<1>11. CASE CommitMerge
  <2> DEFINE keep == merge.keep
             drop == merge.drop
  <2>1. /\ keep \in Company /\ drop \in Company
        /\ company' \in [Company -> {Null} \cup Row] /\ contact' \in [Company -> Contacts]
        /\ contact'[drop] = NoContact
        /\ Rewritten(keep, {keep, drop}) /\ OthersSame({keep, drop})
    BY <1>11, MergeStep
  <2>2. UNCHANGED <<upsert, sweep>> /\ lock' = Released("merge") /\ merge' = Null
        /\ merge # Null
    BY <1>11 DEF CommitMerge
  <2>3. lock[keep] = "merge" /\ lock[drop] = "merge"
    BY <1>5, <2>2 DEF Locked
  <2>4. /\ lock' \in [Company -> {Null, "upsert", "merge", "sweep"}]
        /\ \A d \in Company : lock[d] # "merge" => lock'[d] = lock[d] /\ d \notin {keep, drop}
    BY <1>1, <2>2, <2>3 DEF Released
  <2> HIDE DEF keep, drop
  <2>5. Orphans'
    BY <1>1, <1>3, <2>1 DEF Rewritten, OthersSame
  <2>6. Locked'
    BY <1>4, <1>5, <2>1, <2>2, <2>4 DEF Locked, OthersSame
  <2> QED BY <1>1, <1>2, <2>1, <2>2, <2>4, <2>5, <2>6 DEF LinksInv, Types
<1>12. CASE MergeFails
  <2>1. UNCHANGED <<tables, upsert, sweep>> /\ lock' = Released("merge") /\ merge' = Null
    BY <1>12 DEF MergeFails
  <2>2. /\ lock' \in [Company -> {Null, "upsert", "merge", "sweep"}]
        /\ \A d \in Company : lock[d] # "merge" => lock'[d] = lock[d]
    BY <1>1, <2>1 DEF Released
  <2>3. Locked'
    BY <1>4, <1>5, <2>1, <2>2 DEF Locked, tables
  <2> QED BY <1>1, <1>2, <2>1, <2>2, <2>3 DEF LinksInv, Types, tables
<1>13. CASE WriteLinks
  <2>1. PICK c \in Company :
              /\ c \in sweep.page /\ lock[c] = "sweep"
              /\ contact' \in [Company -> Contacts]
              /\ OthersSame({c}) /\ company' = company /\ company[c] # Null
              /\ sweep' = [sweep EXCEPT !.page = @ \ {c}, !.read = Null, !.pc = "company"]
    BY <1>13, SweepStep
  <2>2. UNCHANGED <<upsert, merge>> /\ lock' = Released("sweep") /\ sweep # Null
    BY <1>13 DEF WriteLinks
  <2>3. /\ lock' \in [Company -> {Null, "upsert", "merge", "sweep"}]
        /\ \A d \in Company : lock[d] # "sweep" => lock'[d] = lock[d]
    BY <1>1, <2>2 DEF Released
  <2>4. sweep' \in Sweeping /\ sweep'.pc # "write"
    BY <1>1, <2>1, <2>2 DEF Sweeping
  <2>5. Orphans'
    BY <1>1, <2>1 DEF OthersSame
  <2>6. Locked'
    BY <1>3, <1>4, <1>5, <2>1, <2>2, <2>3, <2>4 DEF Locked
  <2> QED BY <1>1, <1>2, <2>1, <2>2, <2>3, <2>4, <2>5, <2>6 DEF LinksInv, Types
<1>14. CASE Sweeps
  <2>1. /\ sweep' \in {Null} \cup Sweeping
        /\ lock' \in [Company -> {Null, "upsert", "merge", "sweep"}]
        /\ \A c \in Company : lock[c] \in {"upsert", "merge"} => lock'[c] = lock[c]
        /\ sweep' # Null /\ sweep'.pc = "write" =>
             \E c \in sweep'.page : /\ \A e \in sweep'.page : c <= e
                                    /\ lock'[c] = "sweep" /\ company[c] # Null
                                    /\ sweep'.read = company[c]
    BY <1>14, SweepsKeep
  <2>2. UNCHANGED <<tables, upsert, merge>>
    BY <1>14 DEF Sweeps, StartSweep, ReadPage, PageDone, SweepDone, SweepKilled, PassGone,
                 ReadCompany
  <2>3. Locked'
    BY <1>4, <1>5, <2>1, <2>2 DEF Locked, tables
  <2> QED BY <1>1, <1>2, <2>1, <2>2, <2>3 DEF LinksInv, Types, tables
<1> QED BY <1>6, <1>7, <1>8, <1>9, <1>10, <1>11, <1>12, <1>13, <1>14, NextSplits

LEMMA LinksAlways == Spec => []LinksInv
BY InitLinks, NextKeeps, PTL DEF Spec

\* What a step does to the row and the contacts of one company.
LEMMA CompanySteps ==
    ASSUME LinksInv, Next, NEW c \in Company
    PROVE  \/ company'[c] = company[c] /\ contact'[c] = contact[c]
           \/ Rewritten(c, {c})
           \/ /\ CommitMerge /\ c = merge.drop /\ company'[c] = Null
              /\ Rewritten(merge.keep, {c})
<1>1. CASE CommitUpsert
  <2>1. Rewritten(upsert.company, {upsert.company}) /\ OthersSame({upsert.company})
    BY <1>1, UpsertStep
  <2> QED BY <2>1 DEF OthersSame
<1>2. CASE \E d \in Company, r \in Record : InsertCompany(d, r)
  <2>1. PICK d \in Company, r \in Record : InsertCompany(d, r)
    BY <1>2
  <2>2. Rewritten(d, {d}) /\ OthersSame({d})
    BY <2>1, InsertStep
  <2> QED BY <2>2 DEF OthersSame
<1>3. CASE CommitMerge
  <2> DEFINE keep == merge.keep
             drop == merge.drop
  <2>1. /\ Rewritten(keep, {keep, drop}) /\ OthersSame({keep, drop})
        /\ company'[drop] = Null
    BY <1>3, MergeStep
  <2>2. Rewritten(keep, {keep}) /\ Rewritten(keep, {drop})
    BY <2>1 DEF Rewritten
  <2> HIDE DEF keep, drop
  <2>3. c \notin {keep, drop} => company'[c] = company[c] /\ contact'[c] = contact[c]
    BY <2>1 DEF OthersSame
  <2> QED BY <1>3, <2>1, <2>2, <2>3 DEF keep, drop
<1>4. CASE WriteLinks
  <2>1. PICK d \in Company :
              /\ sweep.dry = TRUE \/ Rewritten(d, {d})
              /\ OthersSame({d}) /\ company' = company
              /\ sweep.dry = TRUE => contact' = contact
    BY <1>4, SweepStep
  <2> QED BY <2>1 DEF OthersSame
<1>5. CASE ~CommitUpsert /\ ~CommitMerge /\ ~WriteLinks
           /\ ~\E d \in Company, r \in Record : InsertCompany(d, r)
  <2>1. UNCHANGED tables
    BY <1>5, NextSplits DEF LockCompany, UpsertFails, LockPair, MergeFails, Sweeps,
       StartSweep, ReadPage, PageDone, SweepDone, SweepKilled, PassGone, ReadCompany
  <2> QED BY <2>1 DEF tables
<1> QED BY <1>1, <1>2, <1>3, <1>4, <1>5

LEMMA RewrittenIsRight ==
    ASSUME NEW c \in Company, NEW S, Rewritten(c, S)
    PROVE  Right(c)'
<1>1. PICK t \in Contacts : contact'[c] = Reconciled(t, company'[c].name, company'[c].domain)
  BY DEF Rewritten
<1>2. company'[c] \in Row
  BY DEF Rewritten
<1>3. Matching(company'[c], contact'[c])
  BY <1>1, <1>2, ReconciledFacts
<1> QED BY <1>3 DEF Right

LEMMA RewrittenKeeps ==
    ASSUME NEW c \in Company, NEW d, NEW S, Rewritten(c, S), d \in S, NEW k \in Key,
           contact[d][k] = "published"
    PROVE  contact'[c][k] = "published"
<1>1. PICK t \in Contacts :
         /\ contact'[c] = Reconciled(t, company'[c].name, company'[c].domain)
         /\ \A e \in S : \A j \in Key : contact[e][j] = "published" => t[j] = "published"
  BY DEF Rewritten
<1>2. company'[c] \in Row /\ t[k] = "published"
  BY <1>1 DEF Rewritten
<1> QED BY <1>1, <1>2, ReconciledFacts

\* No step makes the links of a company that are right wrong.
LEMMA RightKept ==
    ASSUME LinksInv, [Next]_vars, NEW c \in Company, Right(c)
    PROVE  Right(c)'
<1>1. CASE company'[c] = company[c] /\ contact'[c] = contact[c]
  BY <1>1 DEF Right
<1>2. CASE Rewritten(c, {c})
  BY <1>2, RewrittenIsRight
<1>3. CASE company'[c] = Null
  BY <1>3 DEF Right
<1>4. CASE UNCHANGED vars
  BY <1>4 DEF Right, vars, tables
<1> QED BY <1>1, <1>2, <1>3, <1>4, CompanySteps

\* The constructed links of a company, once they are what its name and domain give, are so in
\* every committed state, whatever upserts, merges and sweeps run at once.
THEOREM ConstructedLinksStayRight == Spec => LinksStayRight
<1> DEFINE Kept == \A c \in Company : company[c] # Null /\ Right(c) => Right(c)'
<1>1. LinksInv /\ [Next]_vars => [Kept]_vars
  BY RightKept
<1>2. Spec => [][Kept]_vars
  <2> HIDE DEF Kept
  <2> QED BY <1>1, LinksAlways, PTL DEF Spec
<1> QED BY <1>2 DEF LinksStayRight

\* No upsert, merge or sweep deletes a published contact or turns it into a constructed one: it
\* is on its company, or on the one that company has been merged into.
THEOREM PublishedIsKept == Spec => PublishedKept
<1> DEFINE Kept == \A c \in Company, k \in Key :
                     contact[c][k] = "published" =>
                        \/ contact'[c][k] = "published"
                        \/ merge # Null /\ c = merge.drop /\ contact'[merge.keep][k] = "published"
<1>1. ASSUME LinksInv, Next, NEW c \in Company, NEW k \in Key, contact[c][k] = "published"
      PROVE  \/ contact'[c][k] = "published"
             \/ merge # Null /\ c = merge.drop /\ contact'[merge.keep][k] = "published"
  <2>1. CASE contact'[c] = contact[c]
    BY <1>1, <2>1
  <2>2. CASE Rewritten(c, {c})
    BY <1>1, <2>2, RewrittenKeeps
  <2>3. CASE CommitMerge /\ c = merge.drop /\ Rewritten(merge.keep, {c})
    <3>1. merge # Null /\ merge.keep \in Company
      BY <1>1, <2>3, MergeStep DEF CommitMerge
    <3>2. contact'[merge.keep][k] = "published"
      BY <1>1, <2>3, <3>1, RewrittenKeeps
    <3> QED BY <2>3, <3>1, <3>2
  <2> QED BY <1>1, <2>1, <2>2, <2>3, CompanySteps
<1>2. LinksInv /\ [Next]_vars => [Kept]_vars
  BY <1>1
<1>3. Spec => [][Kept]_vars
  <2> HIDE DEF Kept
  <2> QED BY <1>2, LinksAlways, PTL DEF Spec
<1> QED BY <1>3 DEF PublishedKept

\* Only a merge deletes a company.
LEMMA OnlyMergeDeletes ==
    ASSUME LinksInv, Next, merge # Null, company[merge.drop] # Null, company'[merge.drop] = Null
    PROVE  CommitMerge
<1>1. merge.drop \in Company
  BY DEF LinksInv, Types
<1>2. ~Rewritten(merge.drop, {merge.drop})
  BY LinksAssumption DEF Rewritten
<1> QED BY <1>1, <1>2, CompanySteps

\* The one step that deletes a company.
LEMMA MergeKeepsOrPrints ==
    ASSUME LinksInv, CommitMerge, NEW c \in {merge.keep, merge.drop}
    PROVE  /\ \A p \in DOMAIN Nobody : person[c][p] => person'[merge.keep][p]
           /\ \A k \in Connector : source[c][k] \in ExternalId =>
                 \/ source'[merge.keep][k] = source[c][k]
                 \/ <<k, source[c][k]>> \in lost'
<1> DEFINE keep == merge.keep
           drop == merge.drop
           moved == MoveGuarded(source[keep], source[drop])
           sources == Adopted(moved, source[drop])
<1>1. keep \in Company /\ drop \in Company /\ keep # drop
  BY MergeStep
<1>2. /\ person \in [Company -> [DOMAIN Nobody -> BOOLEAN]]
      /\ source \in [Company -> [Connector -> {"none", Null} \cup ExternalId]]
  BY DEF LinksInv, Types
<1>3. /\ person' = [person EXCEPT ![keep] = Deduped(person[keep], person[drop]), ![drop] = Nobody]
      /\ source' = [source EXCEPT ![keep] = sources, ![drop] = Unseen]
      /\ lost' = Stranded(sources, source[drop])
  BY DEF CommitMerge
<1> HIDE DEF keep, drop
<1>4. /\ person'[keep] = Deduped(person[keep], person[drop]) /\ source'[keep] = sources
      /\ DOMAIN person[keep] = DOMAIN Nobody /\ DOMAIN source[keep] = Connector
  BY <1>1, <1>2, <1>3
<1>5. ASSUME NEW p \in DOMAIN Nobody, person[keep][p] \/ person[drop][p]
      PROVE  person'[keep][p]
  BY <1>4, <1>5 DEF Deduped
<1>6. ASSUME NEW k \in Connector, source[keep][k] \in ExternalId
      PROVE  sources[k] = source[keep][k]
  BY <1>4, <1>6, LinksAssumption DEF Adopted, MoveGuarded
<1>7. ASSUME NEW k \in Connector, source[drop][k] \in ExternalId, sources[k] # source[drop][k]
      PROVE  <<k, source[drop][k]>> \in lost'
  BY <1>3, <1>7 DEF Stranded
<1> HIDE DEF sources
<1>8. c \in {keep, drop}
  BY DEF keep, drop
<1>9. /\ \A p \in DOMAIN Nobody : person[c][p] => person'[keep][p]
      /\ \A k \in Connector : source[c][k] \in ExternalId =>
            source'[keep][k] = source[c][k] \/ <<k, source[c][k]>> \in lost'
  BY <1>4, <1>5, <1>6, <1>7, <1>8
<1> QED BY <1>9 DEF keep

\* A merge keeps every person of the two companies, and every external id by which a connector
\* knows either, or prints it.
THEOREM MergesLoseNothing == Spec => MergeLosesNothing
<1> DEFINE Kept == \A c \in Company :
          merge # Null /\ company[merge.drop] # Null /\ company'[merge.drop] = Null
            /\ c \in {merge.keep, merge.drop}
          => /\ \A p \in DOMAIN Nobody : person[c][p] => person'[merge.keep][p]
             /\ \A k \in Connector : source[c][k] \in ExternalId =>
                    \/ source'[merge.keep][k] = source[c][k]
                    \/ <<k, source[c][k]>> \in lost'
<1>1. LinksInv /\ Next => Kept
  BY OnlyMergeDeletes, MergeKeepsOrPrints
<1>2. Spec => [][Kept]_vars
  <2> HIDE DEF Kept
  <2> QED BY <1>1, LinksAlways, PTL DEF Spec
<1> QED BY <1>2 DEF MergeLosesNothing

\* A sweep that is to write has made right what it has left behind it, and nobody, by
\* RightKept, makes it wrong again.
SweptRight ==
    sweep # Null =>
        /\ sweep.pc = "page" => sweep.page = {}
        /\ sweep.dry = FALSE => \A c \in Company : Right(c) \/ c \in sweep.page \/ c > sweep.after

LEMMA SweptKept == LinksInv /\ SweptRight /\ [Next]_vars => SweptRight'
<1> SUFFICES ASSUME LinksInv, SweptRight, [Next]_vars, sweep' # Null
             PROVE  /\ sweep'.pc = "page" => sweep'.page = {}
                    /\ sweep'.dry = FALSE =>
                         \A c \in Company : Right(c)' \/ c \in sweep'.page \/ c > sweep'.after
  BY DEF SweptRight
<1>1. \A c \in Company : Right(c) => Right(c)'
  BY RightKept
<1>2. sweep \in {Null} \cup Sweeping /\ \A c \in Company : c \in Nat \ {0}
  BY LinksAssumption DEF LinksInv, Types
<1>3. CASE UNCHANGED sweep
  BY <1>1, <1>3 DEF SweptRight
<1>4. CASE \E dry \in BOOLEAN : StartSweep(dry)
  BY <1>2, <1>4 DEF StartSweep
<1>5. CASE ReadPage
  <2> DEFINE page == {c \in Beyond : Cardinality(Below(Beyond, c)) < Batch}
  <2>1. /\ sweep' = [sweep EXCEPT !.page = page, !.after = Last(page), !.pc = "company"]
        /\ sweep # Null /\ sweep.pc = "page" /\ UNCHANGED tables /\ Beyond # {}
    BY <1>5 DEF ReadPage, Below
  <2>2. Beyond \in SUBSET Nat
    BY LinksAssumption DEF Beyond
  <2>3. Last(page) \in page /\ \A c \in Beyond : c <= Last(page) => c \in page
    BY <2>1, <2>2, PageFacts
  <2>4. Last(page) \in Nat
    BY <2>2, <2>3
  <2> HIDE DEF page
  <2>5. /\ sweep'.page = page /\ sweep'.after = Last(page) /\ sweep'.pc = "company"
        /\ sweep'.dry = sweep.dry
    BY <1>2, <2>1 DEF Sweeping
  <2>6. ASSUME sweep.dry = FALSE, NEW c \in Company
        PROVE  Right(c)' \/ c \in page \/ c > Last(page)
    <3>1. CASE Right(c)
      BY <1>1, <3>1
    <3>2. CASE ~Right(c)
      <4>1. company[c] # Null
        BY <3>2 DEF Right
      <4>2. c > sweep.after
        BY <2>1, <2>6, <3>2 DEF SweptRight
      <4>3. c \in Beyond
        BY <4>1, <4>2 DEF Beyond
      <4> QED BY <1>2, <2>3, <2>4, <4>3
    <3> QED BY <3>1, <3>2
  <2> QED BY <2>5, <2>6
<1>6. CASE \E c \in Company : PassGone(c)
  <2>1. PICK c \in Company : PassGone(c)
    BY <1>6
  <2>2. /\ sweep # Null /\ sweep.pc = "company" /\ company[c] = Null
        /\ sweep' = [sweep EXCEPT !.page = @ \ {c}]
    BY <2>1 DEF PassGone, NextOf
  <2>3. Right(c)
    BY <2>2 DEF Right
  <2>4. /\ sweep'.page = sweep.page \ {c} /\ sweep'.after = sweep.after
        /\ sweep'.pc = "company" /\ sweep'.dry = sweep.dry
    BY <1>2, <2>2 DEF Sweeping
  <2> QED BY <1>1, <2>2, <2>3, <2>4 DEF SweptRight
<1>7. CASE \E c \in Company : ReadCompany(c)
  <2>1. /\ sweep # Null /\ sweep'.page = sweep.page /\ sweep'.after = sweep.after
        /\ sweep'.pc = "write" /\ sweep'.dry = sweep.dry
    BY <1>2, <1>7 DEF ReadCompany, NextOf, Sweeping
  <2> QED BY <1>1, <2>1 DEF SweptRight
<1>8. CASE WriteLinks
  <2>1. PICK c \in Company :
              /\ sweep.dry = TRUE \/ Rewritten(c, {c})
              /\ sweep' = [sweep EXCEPT !.page = @ \ {c}, !.read = Null, !.pc = "company"]
    BY <1>8, SweepStep
  <2>2. sweep # Null
    BY <1>8 DEF WriteLinks
  <2>3. /\ sweep'.page = sweep.page \ {c} /\ sweep'.after = sweep.after
        /\ sweep'.pc = "company" /\ sweep'.dry = sweep.dry
    BY <1>2, <2>1, <2>2 DEF Sweeping
  <2>4. sweep.dry = FALSE => Right(c)'
    BY <2>1, RewrittenIsRight
  <2> QED BY <1>1, <2>2, <2>3, <2>4 DEF SweptRight
<1>9. CASE PageDone
  <2>1. /\ sweep # Null /\ sweep'.page = sweep.page /\ sweep'.after = sweep.after
        /\ sweep.page = {} /\ sweep'.dry = sweep.dry
    BY <1>2, <1>9 DEF PageDone, Sweeping
  <2> QED BY <1>1, <2>1 DEF SweptRight
<1>10. CASE SweepDone \/ SweepKilled
  BY <1>10 DEF SweepDone, SweepKilled
<1>11. UNCHANGED sweep \/ WriteLinks \/ Sweeps
  BY NextSplits DEF vars, LockCompany, InsertCompany, CommitUpsert, UpsertFails, LockPair,
     CommitMerge, MergeFails
<1> QED BY <1>3, <1>4, <1>5, <1>6, <1>7, <1>8, <1>9, <1>10, <1>11 DEF Sweeps

\* A sweep that is not dry and comes to its end leaves every company's links right, those of
\* companies inserted, renamed or merged into behind its position included.
THEOREM SweepsReachEveryCompany == Spec => SweepReachesAll
<1> DEFINE Reached == sweep # Null /\ sweep' = Null /\ sweep.pc = "page" /\ ~sweep.dry
                        => \A c \in Company : Right(c)
<1>1. Init => SweptRight
  BY DEF Init, SweptRight
<1>2. Spec => []SweptRight
  BY <1>1, LinksAlways, SweptKept, PTL DEF Spec
<1>3. LinksInv /\ SweptRight /\ Next => Reached
  <2> SUFFICES ASSUME LinksInv, SweptRight, Next,
                      sweep # Null, sweep' = Null, sweep.pc = "page", ~sweep.dry,
                      NEW c \in Company
               PROVE  Right(c)
    OBVIOUS
  <2>1. sweep \in Sweeping /\ sweep.dry = FALSE
    BY DEF LinksInv, Types, Sweeping
  <2>2. Null \notin Sweeping
    BY LinksAssumption
  <2>3. SweepDone
    <3>1. ASSUME ReadPage PROVE FALSE
      <4> DEFINE page == {d \in Beyond : Cardinality(Below(Beyond, d)) < Batch}
      <4>1. sweep' = [sweep EXCEPT !.page = page, !.after = Last(page), !.pc = "company"]
        BY <3>1 DEF ReadPage, Below
      <4>2. Beyond \in SUBSET Nat /\ Beyond \subseteq Company /\ Beyond # {}
        BY <3>1, LinksAssumption DEF ReadPage, Beyond
      <4>3. Last(page) \in page /\ page \in SUBSET Company
        BY <4>2, PageFacts
      <4> HIDE DEF page
      <4>4. sweep' \in Sweeping
        BY <2>1, <4>1, <4>3 DEF Sweeping
      <4> QED BY <2>2, <4>4
    <3>2. UNCHANGED sweep \/ WriteLinks \/ Sweeps
      BY NextSplits DEF LockCompany, InsertCompany, CommitUpsert, UpsertFails, LockPair,
         CommitMerge, MergeFails
    <3> QED BY <3>1, <3>2 DEF Sweeps, WriteLinks, StartSweep, PassGone, ReadCompany, NextOf,
            PageDone, SweepKilled
  <2>4. Beyond = {} /\ sweep.page = {}
    BY <2>3 DEF SweepDone, SweptRight
  <2>5. company[c] = Null \/ ~(c > sweep.after)
    BY <2>4 DEF Beyond
  <2> QED BY <2>1, <2>4, <2>5 DEF SweptRight, Right
<1>4. Spec => [][Reached]_vars
  <2> HIDE DEF Reached
  <2> QED BY <1>2, <1>3, LinksAlways, PTL DEF Spec
<1> QED BY <1>4 DEF SweepReachesAll
=============================================================================
