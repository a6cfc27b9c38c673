---------------------------- MODULE RegionsProofs ----------------------------
(***************************************************************************)
(* Cities and their metros, for every file, record and number of           *)
(* processes.  Three facts carry the proofs: a file that validates has one *)
(* city answer a spelling (OneCityAnswers), what an upsert means to write  *)
(* is sorted and labelled from the moment it begins (PlansAreOrdered), and *)
(* a page of the sweep leaves behind it only ids past its last one         *)
(* (PagesAreNext).  From them follow the order of locks, the convergence   *)
(* of labels and the completeness of a sweep that follows the recipe.      *)
(***************************************************************************)
EXTENDS Regions, FiniteSetTheorems, TLAPS

(***************************************************************************)
(* Counting                                                                *)
(***************************************************************************)

Smaller(S, key, x) == {y \in S : key[y] < key[x]}
Place(S, key) == [x \in S |-> Cardinality(Smaller(S, key, x)) + 1]

\* In a finite set sorted by a key no two share, every place is somebody's.
LEMMA PlacesAreTaken ==
    ASSUME NEW S, IsFiniteSet(S), NEW key \in [S -> Nat],
           \A x, y \in S : key[x] = key[y] => x = y
    PROVE  /\ Cardinality(S) \in Nat
           /\ \A x \in S : Place(S, key)[x] \in 1 .. Cardinality(S)
           /\ \A x, y \in S : key[x] < key[y] => Place(S, key)[x] < Place(S, key)[y]
           /\ \A i \in 1 .. Cardinality(S) : \E x \in S : Place(S, key)[x] = i
<1> DEFINE n == Cardinality(S)
           pos == Place(S, key)
<1>1. n \in Nat
  BY FS_CardinalityType
<1>2. ASSUME NEW x \in S
      PROVE  /\ IsFiniteSet(Smaller(S, key, x)) /\ Cardinality(Smaller(S, key, x)) \in 0 .. n - 1
             /\ pos[x] = Cardinality(Smaller(S, key, x)) + 1
  <2>1. Smaller(S, key, x) \subseteq S \ {x}
    BY DEF Smaller
  <2>2. IsFiniteSet(S \ {x}) /\ Cardinality(S \ {x}) = n - 1
    BY FS_RemoveElement
  <2>3. IsFiniteSet(Smaller(S, key, x)) /\ Cardinality(Smaller(S, key, x)) <= n - 1
    BY <2>1, <2>2, FS_Subset
  <2>4. Cardinality(Smaller(S, key, x)) \in Nat
    BY <2>3, FS_CardinalityType
  <2>5. pos[x] = Cardinality(Smaller(S, key, x)) + 1
    BY DEF Place
  <2> HIDE DEF n
  <2> QED BY <1>1, <2>3, <2>4, <2>5
<1> HIDE DEF n
<1>3. \A x \in S : pos[x] \in 1 .. n
  BY <1>1, <1>2
<1>4. ASSUME NEW x \in S, NEW y \in S, key[x] < key[y]
      PROVE  pos[x] < pos[y]
  <2>1. Smaller(S, key, x) \cup {x} \subseteq Smaller(S, key, y) /\ x \notin Smaller(S, key, x)
    BY <1>4 DEF Smaller
  <2>2. Cardinality(Smaller(S, key, x) \cup {x}) = Cardinality(Smaller(S, key, x)) + 1
    BY <1>2, <2>1, FS_AddElement
  <2>3. Cardinality(Smaller(S, key, x) \cup {x}) <= Cardinality(Smaller(S, key, y))
    BY <1>2, <2>1, FS_Subset
  <2> QED BY <1>2, <2>2, <2>3
<1>5. pos \in [S -> 1 .. n]
  BY <1>3 DEF Place
<1>6. pos \in Injection(S, 1 .. n)
  <2>1. ASSUME NEW x \in S, NEW y \in S, pos[x] = pos[y] PROVE x = y
    <3>1. ~ key[x] < key[y] /\ ~ key[y] < key[x]
      BY <1>3, <1>4, <2>1
    <3>2. key[x] \in Nat /\ key[y] \in Nat
      OBVIOUS
    <3> QED BY <3>1, <3>2
  <2> HIDE DEF pos
  <2>2. IsInjective(pos)
    BY <1>5, <2>1 DEF IsInjective
  <2> QED BY <1>5, <2>2 DEF Injection
<1>7. IsFiniteSet(1 .. n) /\ Cardinality(1 .. n) = n
  BY <1>1, FS_Interval
<1>8. pos \in Surjection(S, 1 .. n)
  <2> HIDE DEF pos
  <2> QED BY <1>6, <1>7, FS_Injection DEF n
<1>9. \A i \in 1 .. n : \E x \in S : pos[x] = i
  BY <1>8 DEF Surjection
<1> QED BY <1>1, <1>3, <1>4, <1>9 DEF n

\* Of finitely many things with a key there is one with the largest, and one with
\* the smallest.
LEMMA ExtremesExist ==
    ASSUME NEW S, IsFiniteSet(S), S # {}, NEW key \in [S -> Nat]
    PROVE  /\ \E x \in S : \A y \in S : key[y] <= key[x]
           /\ \E x \in S : \A y \in S : key[x] <= key[y]
<1> DEFINE K == {key[x] : x \in S}
           id == [k \in K |-> k]
           n == Cardinality(K)
<1>1. IsFiniteSet(K)
  <2>1. key \in Surjection(S, K)
    BY DEF Surjection
  <2> QED BY <2>1, FS_Surjection
<1>2. K \subseteq Nat /\ id \in [K -> Nat] /\ K # {} /\ \A k \in K : id[k] = k
  OBVIOUS
<1>3. /\ n \in Nat
      /\ \A k \in K : Place(K, id)[k] \in 1 .. n
      /\ \A k, l \in K : id[k] < id[l] => Place(K, id)[k] < Place(K, id)[l]
      /\ \A i \in 1 .. n : \E k \in K : Place(K, id)[k] = i
  <2>1. \A k, l \in K : id[k] = id[l] => k = l
    BY <1>2
  <2> HIDE DEF K, id
  <2> QED BY <1>1, <1>2, <2>1, PlacesAreTaken
<1>4. n >= 1
  <2>1. PICK k : k \in K
    BY <1>2
  <2> HIDE DEF K, n, id
  <2>2. Place(K, id)[k] \in 1 .. n
    BY <1>3, <2>1
  <2> QED BY <1>3, <2>2
<1>5. PICK k \in K : Place(K, id)[k] = n
  <2> HIDE DEF K, n, id
  <2> QED BY <1>3, <1>4
<1>6. PICK l \in K : Place(K, id)[l] = 1
  <2> HIDE DEF K, n, id
  <2> QED BY <1>3, <1>4
<1>7. \A m \in K : m <= k /\ l <= m
  <2> HIDE DEF K, n, id
  <2>1. ASSUME NEW m \in K PROVE m <= k /\ l <= m
    <3>1. Place(K, id)[m] \in 1 .. n /\ m \in Nat /\ k \in Nat /\ l \in Nat
      BY <1>2, <1>3
    <3>2. ~ id[k] < id[m] /\ ~ id[m] < id[l]
      BY <1>3, <1>5, <1>6, <3>1
    <3> QED BY <1>2, <3>1, <3>2
  <2> QED BY <2>1
<1> QED BY <1>7

\* sorted puts every element of a finite set in, in the order of the key.
LEMMA SortedIsInOrder ==
    ASSUME NEW S, IsFiniteSet(S), NEW key \in [S -> Nat],
           \A x, y \in S : key[x] = key[y] => x = y
    PROVE  /\ Sorted(S, key) \in Seq(S)
           /\ Cardinality(S) \in Nat /\ Len(Sorted(S, key)) = Cardinality(S)
           /\ \A i, j \in 1 .. Cardinality(S) :
                i < j => key[Sorted(S, key)[i]] < key[Sorted(S, key)[j]]
<1> DEFINE n == Cardinality(S)
           pos == Place(S, key)
           at == Sorted(S, key)
<1>1. /\ n \in Nat
      /\ \A x, y \in S : key[x] < key[y] => pos[x] < pos[y]
      /\ \A i \in 1 .. n : \E x \in S : pos[x] = i
  BY PlacesAreTaken
<1>2. \A x \in S : Cardinality(Smaller(S, key, x)) \in Nat
                   /\ pos[x] = Cardinality(Smaller(S, key, x)) + 1
  <2>1. ASSUME NEW x \in S PROVE Cardinality(Smaller(S, key, x)) \in Nat
    <3>1. Smaller(S, key, x) \subseteq S
      BY DEF Smaller
    <3> QED BY <3>1, FS_Subset, FS_CardinalityType
  <2> QED BY <2>1 DEF Place
<1>3. at = [i \in 1 .. n |-> CHOOSE x \in S : Cardinality(Smaller(S, key, x)) = i - 1]
  BY DEF Sorted, Smaller
<1> HIDE DEF at, pos, n
<1>4. ASSUME NEW i \in 1 .. n
      PROVE  at[i] \in S /\ pos[at[i]] = i
  <2>1. \E x \in S : Cardinality(Smaller(S, key, x)) = i - 1
    BY <1>1, <1>2
  <2> QED BY <1>2, <1>3, <2>1
<1>5. at \in [1 .. n -> S]
  BY <1>3, <1>4
<1>6. at \in Seq(S) /\ Len(at) = n
  BY <1>1, <1>5
<1>7. ASSUME NEW i \in 1 .. n, NEW j \in 1 .. n, i < j
      PROVE  key[at[i]] < key[at[j]]
  <2>1. at[i] \in S /\ at[j] \in S /\ pos[at[i]] < pos[at[j]]
    BY <1>4, <1>7
  <2>2. at[i] # at[j] /\ ~ key[at[j]] < key[at[i]]
    BY <1>1, <1>4, <1>7, <2>1
  <2>3. key[at[i]] \in Nat /\ key[at[j]] \in Nat /\ key[at[i]] # key[at[j]]
    BY <2>1, <2>2
  <2> QED BY <2>2, <2>3
<1> QED BY <1>1, <1>6, <1>7 DEF at, n

(***************************************************************************)
(* The file                                                                *)
(***************************************************************************)

\* What the file says of a spelling does not contradict this metro.
FileSays(f, s, m) ==
    \A g \in f : \A a \in g.cities : g.enabled /\ Answers(a, s) => m = g.metro

City == [name : Spelling, aliases : SUBSET Spelling]
Region == [metro : Metro, enabled : BOOLEAN, cities : SUBSET City]

\* A file is a set of regions.
LEMMA FilesAreTyped == ASSUME NEW f \in File PROVE f \subseteq Region
BY RegionsAssumption DEF Region, City

\* In a file that validates one city of one region answers a spelling.
LEMMA OneCityAnswers ==
    ASSUME NEW f \in File, Valid(f), NEW s \in Spelling,
           NEW g \in f, NEW h \in f, NEW a \in g.cities, NEW b \in h.cities,
           Answers(a, s), Answers(b, s)
    PROVE  g = h /\ a = b
<1>1. /\ <<g, a>> # <<h, b>> =>
             /\ Folded[a.name] # Folded[b.name]
             /\ {Folded[t] : t \in a.aliases} \cap {Folded[t] : t \in b.aliases} = {}
      /\ Folded[a.name] \notin {Folded[t] : t \in b.aliases}
      /\ Folded[b.name] \notin {Folded[t] : t \in a.aliases}
  <2>1. a \in Cities(f) /\ b \in Cities(f)
    BY DEF Cities
  <2> QED BY <2>1 DEF Valid
<1>2. /\ Folded[s] = Folded[a.name] \/ Folded[s] \in {Folded[t] : t \in a.aliases}
      /\ Folded[s] = Folded[b.name] \/ Folded[s] \in {Folded[t] : t \in b.aliases}
  BY DEF Answers
<1> QED BY <1>1, <1>2

\* What lookup answers is a city of the file, and its metro that of the spelling looked up and
\* of the canonical name alike.
LEMMA LookupIsRight ==
    ASSUME NEW f \in File, NEW s \in Spelling
    PROVE  /\ Lookup(f, s) \subseteq [city : Spelling, metro : Metro]
           /\ \A m : (\A c \in Lookup(f, s) : c.metro = m) => FileSays(f, s, m)
           /\ Valid(f) => \A c \in Lookup(f, s) : /\ FileSays(f, s, c.metro)
                                                  /\ FileSays(f, c.city, c.metro)
<1>1. \A c : c \in Lookup(f, s) <=>
         \E g \in f : \E a \in g.cities : /\ g.enabled /\ Answers(a, s)
                                          /\ c = [city |-> a.name, metro |-> g.metro]
  BY DEF Lookup
<1>2. f \subseteq Region
  BY FilesAreTyped
<1>3. Lookup(f, s) \subseteq [city : Spelling, metro : Metro]
  BY <1>1, <1>2 DEF Region, City
<1>4. ASSUME NEW m, \A c \in Lookup(f, s) : c.metro = m
      PROVE  FileSays(f, s, m)
  <2>1. ASSUME NEW g \in f, NEW a \in g.cities, g.enabled, Answers(a, s)
        PROVE  m = g.metro
    <3>1. [city |-> a.name, metro |-> g.metro] \in Lookup(f, s)
      BY <1>1, <2>1
    <3> QED BY <1>4, <3>1
  <2> QED BY <2>1 DEF FileSays
<1>5. ASSUME Valid(f), NEW c \in Lookup(f, s)
      PROVE  FileSays(f, s, c.metro) /\ FileSays(f, c.city, c.metro)
  <2>1. PICK g \in f : \E a \in g.cities : /\ g.enabled /\ Answers(a, s)
                                           /\ c = [city |-> a.name, metro |-> g.metro]
    BY <1>1
  <2>2. PICK a \in g.cities : /\ g.enabled /\ Answers(a, s)
                              /\ c = [city |-> a.name, metro |-> g.metro]
    BY <2>1
  <2>3. a.name \in Spelling
    BY <1>2 DEF Region, City
  <2>4. Answers(a, a.name)
    BY DEF Answers
  <2>5. FileSays(f, s, g.metro)
    BY <1>5, <2>2, OneCityAnswers DEF FileSays
  <2>6. FileSays(f, a.name, g.metro)
    BY <1>5, <2>3, <2>4, OneCityAnswers DEF FileSays
  <2> QED BY <2>2, <2>5, <2>6
<1> QED BY <1>3, <1>4, <1>5

(***************************************************************************)
(* The order of locks                                                      *)
(***************************************************************************)

Reported == [city : Spelling, metro : Metro \cup {Null}]
Placed == [city : Spelling, metro : Metro]

Labelled(f, l) == l.metro = Null \/ FileSays(f, l.city, l.metro)

\* What _fill_metros gives a location is what a valid file says of its city.
LEMMA FilledIsLabelled ==
    ASSUME NEW f \in File, Valid(f), NEW locations \in Seq(Reported)
    PROVE  /\ FillMetros(f, locations) \in Seq(Reported)
           /\ \A i \in DOMAIN FillMetros(f, locations) : Labelled(f, FillMetros(f, locations)[i])
<1> DEFINE filled == FillMetros(f, locations)
<1>1. filled = [i \in DOMAIN locations |->
                  IF Lookup(f, locations[i].city) = {} THEN locations[i]
                  ELSE CHOOSE c \in Lookup(f, locations[i].city) : TRUE]
  BY DEF FillMetros
<1>2. ASSUME NEW i \in DOMAIN locations
      PROVE  filled[i] \in Reported /\ Labelled(f, filled[i])
  <2>0. locations[i] \in Reported
    OBVIOUS
  <2>1. locations[i] \in Reported /\ locations[i].city \in Spelling
    BY <2>0 DEF Reported
  <2>2. CASE Lookup(f, locations[i].city) = {}
    <3>1. filled[i] = locations[i]
      BY <1>1, <2>2
    <3>2. FileSays(f, locations[i].city, locations[i].metro)
      BY <2>1, <2>2, LookupIsRight
    <3> QED BY <2>1, <3>1, <3>2 DEF Labelled
  <2>3. CASE Lookup(f, locations[i].city) # {}
    <3> DEFINE c == CHOOSE c \in Lookup(f, locations[i].city) : TRUE
    <3>1. filled[i] = c /\ c \in Lookup(f, locations[i].city)
      BY <1>1, <2>3
    <3> HIDE DEF c
    <3>2. c \in [city : Spelling, metro : Metro] /\ FileSays(f, c.city, c.metro)
      BY <2>1, <3>1, LookupIsRight
    <3>3. c \in Reported
      BY <3>2 DEF Reported
    <3> QED BY <3>1, <3>2, <3>3 DEF Labelled
  <2> QED BY <2>2, <2>3
<1> HIDE DEF filled
<1>3. DOMAIN locations = 1 .. Len(locations) /\ Len(locations) \in Nat /\ DOMAIN filled = DOMAIN locations
  BY <1>1
<1>4. filled \in [1 .. Len(locations) -> Reported]
  BY <1>1, <1>2, <1>3
<1>5. filled \in Seq(Reported)
  BY <1>3, <1>4
<1> QED BY <1>2, <1>3, <1>5 DEF filled

\* One row a city, each of those of the record that have a metro, by increasing rank.
LEMMA LocationsAreSorted ==
    ASSUME NEW locations \in Seq(Reported)
    PROVE  /\ LockOrder(locations) \in Seq(Placed)
           /\ \A i \in DOMAIN LockOrder(locations) :
                \E k \in DOMAIN locations : LockOrder(locations)[i] = locations[k]
           /\ \A i, j \in DOMAIN LockOrder(locations) :
                i < j => Rank[LockOrder(locations)[i].city] < Rank[LockOrder(locations)[j].city]
<1> DEFINE F == Firsts(locations)
           rows == {locations[i] : i \in F}
           key == [l \in rows |-> Rank[l.city]]
           order == LockOrder(locations)
<1>1. /\ F \subseteq DOMAIN locations /\ DOMAIN locations = 1 .. Len(locations)
      /\ Len(locations) \in Nat
      /\ \A i \in F : locations[i].metro # Null
      /\ \A i, j \in F : i < j => locations[i].city # locations[j].city
  BY DEF Firsts
<1>2. IsFiniteSet(F)
  <2> HIDE DEF F
  <2>1. IsFiniteSet(1 .. Len(locations))
    BY <1>1, FS_Interval
  <2> QED BY <1>1, <2>1, FS_Subset
<1> HIDE DEF F
<1>3. IsFiniteSet(rows)
  <2>1. [i \in F |-> locations[i]] \in Surjection(F, rows)
    BY DEF Surjection
  <2> QED BY <1>2, <2>1, FS_Surjection
<1>4. rows \subseteq Placed
  <2>1. ASSUME NEW i \in F PROVE locations[i] \in Placed
    <3>1. locations[i] \in Reported /\ locations[i].metro # Null
      BY <1>1
    <3> QED BY <3>1 DEF Reported, Placed
  <2> QED BY <2>1
<1>5. \A l, m \in rows : l.city = m.city => l = m
  <2>1. ASSUME NEW i \in F, NEW j \in F, locations[i].city = locations[j].city
        PROVE  i = j
    <3>1. i \in Nat /\ j \in Nat
      BY <1>1
    <3> QED BY <1>1, <2>1, <3>1
  <2> QED BY <2>1
<1>6. order = Sorted(rows, key)
  BY DEF LockOrder, F
<1>7. rows \subseteq {locations[k] : k \in DOMAIN locations}
  BY <1>1
<1> HIDE DEF rows, order
<1>8. key \in [rows -> Nat] /\ \A l \in rows : key[l] = Rank[l.city] /\ l.city \in Spelling
  BY <1>4, RegionsAssumption DEF Placed
<1>9. \A l, m \in rows : key[l] = key[m] => l = m
  <2>1. ASSUME NEW l \in rows, NEW m \in rows, key[l] = key[m] PROVE l = m
    <3>1. Rank[l.city] = Rank[m.city] /\ l.city \in Spelling /\ m.city \in Spelling
      BY <1>8, <2>1
    <3> QED BY <1>5, <3>1, RegionsAssumption
  <2> QED BY <2>1
<1> HIDE DEF key
<1>10. /\ order \in Seq(rows)
       /\ Len(order) = Cardinality(rows)
       /\ \A i, j \in 1 .. Cardinality(rows) : i < j => key[order[i]] < key[order[j]]
  BY <1>3, <1>6, <1>8, <1>9, SortedIsInOrder
<1>11. order \in Seq(Placed)
  BY <1>4, <1>10
<1>12. DOMAIN order = 1 .. Cardinality(rows) /\ \A i \in DOMAIN order : order[i] \in rows
  BY <1>10
<1>13. \A i, j \in DOMAIN order : i < j => Rank[order[i].city] < Rank[order[j].city]
  BY <1>8, <1>10, <1>12
<1> QED BY <1>7, <1>11, <1>12, <1>13 DEF order

\* What statements are about, and the locks they take.
CompanyItem == [kind : {"company"}, key : Company, metro : {Null}]
CandidateItem == [kind : {"candidate"}, key : Company, metro : {Null}]
LocationItem == [kind : {"location"}, key : Spelling, metro : Metro]
SharedItem == [kind : {"shared"}, key : Shared, metro : {Null}]
Item == CompanyItem \cup CandidateItem \cup LocationItem \cup SharedItem

Lock(item) == <<item.kind, item.key>>
Locks == ({"company", "candidate"} \X Company) \cup ({"location"} \X Spelling)
         \cup ({"shared"} \X Shared)

\* What of the order of locks matters: nothing before the company updated, and cities by rank.
Before(v, w) == /\ w[1] # "company"
                /\ v[1] = "location" /\ w[1] = "location" => Rank[v[2]] < Rank[w[2]]

Ordered(todo) == \A i, j \in DOMAIN todo : i < j => Before(Lock(todo[i]), Lock(todo[j]))
ItemsLabelled(f, todo) ==
    \A i \in DOMAIN todo : todo[i].kind = "location" => FileSays(f, todo[i].key, todo[i].metro)

\* Part of the work of an upsert, in order, with items of these kinds only.
IsPart(f, todo, kinds) ==
    /\ todo \in Seq(Item) /\ Ordered(todo) /\ ItemsLabelled(f, todo)
    /\ \A i \in DOMAIN todo : todo[i].kind \in kinds

\* Two parts after each other are one, if the second locks no company and not both have cities.
LEMMA PartsJoin ==
    ASSUME NEW f, NEW K, NEW L, NEW a, NEW b, IsPart(f, a, K), IsPart(f, b, L),
           "company" \notin L, "location" \notin K \/ "location" \notin L
    PROVE  IsPart(f, a \o b, K \cup L)
<1> DEFINE s == a \o b
<1>1. a \in Seq(Item) /\ b \in Seq(Item)
  BY DEF IsPart
<1>2. /\ Len(a) \in Nat /\ Len(b) \in Nat
      /\ DOMAIN a = 1 .. Len(a) /\ DOMAIN b = 1 .. Len(b)
      /\ s \in Seq(Item) /\ Len(s) = Len(a) + Len(b) /\ DOMAIN s = 1 .. (Len(a) + Len(b))
      /\ \A i \in 1 .. Len(a) : s[i] = a[i]
      /\ \A i \in 1 .. Len(b) : s[Len(a) + i] = b[i]
  BY <1>1
<1> HIDE DEF s
<1>3. ASSUME NEW i \in DOMAIN s
      PROVE  \/ i \in DOMAIN a /\ s[i] = a[i]
             \/ i > Len(a) /\ i - Len(a) \in DOMAIN b /\ s[i] = b[i - Len(a)]
  <2>1. i \in 1 .. (Len(a) + Len(b))
    BY <1>2
  <2>2. CASE i <= Len(a)
    BY <1>2, <2>1, <2>2
  <2>3. CASE i > Len(a)
    <3>1. i - Len(a) \in 1 .. Len(b) /\ Len(a) + (i - Len(a)) = i
      BY <1>2, <2>1, <2>3
    <3> QED BY <1>2, <2>3, <3>1
  <2> QED BY <1>2, <2>1, <2>2, <2>3
<1>4. Ordered(s)
  <2>1. ASSUME NEW i \in DOMAIN s, NEW j \in DOMAIN s, i < j
        PROVE  Before(Lock(s[i]), Lock(s[j]))
    <3>1. i \in Nat /\ j \in Nat
      BY <1>2
    <3>2. CASE j \in DOMAIN a /\ s[j] = a[j]
      <4>1. i \in DOMAIN a /\ s[i] = a[i]
        BY <1>2, <1>3, <2>1, <3>1, <3>2
      <4> QED BY <2>1, <3>2, <4>1 DEF IsPart, Ordered
    <3>3. CASE j > Len(a) /\ j - Len(a) \in DOMAIN b /\ s[j] = b[j - Len(a)]
      <4>1. s[j].kind \in L
        BY <3>3 DEF IsPart
      <4>2. CASE i \in DOMAIN a /\ s[i] = a[i]
        <5>1. s[i].kind \in K
          BY <4>2 DEF IsPart
        <5> QED BY <4>1, <5>1 DEF Before, Lock
      <4>3. CASE i > Len(a) /\ i - Len(a) \in DOMAIN b /\ s[i] = b[i - Len(a)]
        <5>1. i - Len(a) < j - Len(a)
          BY <1>2, <2>1, <3>1
        <5> QED BY <3>3, <4>3, <5>1 DEF IsPart, Ordered
      <4> QED BY <1>3, <4>2, <4>3
    <3> QED BY <1>3, <3>2, <3>3
  <2> QED BY <2>1 DEF Ordered
<1>5. ItemsLabelled(f, s)
  BY <1>3 DEF IsPart, ItemsLabelled
<1>6. \A i \in DOMAIN s : s[i].kind \in K \cup L
  BY <1>3 DEF IsPart
<1> QED BY <1>2, <1>4, <1>5, <1>6 DEF s, IsPart

\* A sequence of sectors and investors, or of candidates, is a part.
LEMMA NamesArePart ==
    ASSUME NEW f, NEW T, NEW names \in Seq(T), NEW kind,
           kind # "company", kind # "location",
           \A n \in T : [kind |-> kind, key |-> n, metro |-> Null] \in Item
    PROVE  IsPart(f, [i \in DOMAIN names |-> [kind |-> kind, key |-> names[i], metro |-> Null]],
                  {kind})
<1> DEFINE s == [i \in DOMAIN names |-> [kind |-> kind, key |-> names[i], metro |-> Null]]
<1>1. /\ Len(names) \in Nat /\ DOMAIN s = 1 .. Len(names)
      /\ \A i \in DOMAIN s : names[i] \in T
                            /\ s[i] = [kind |-> kind, key |-> names[i], metro |-> Null]
  OBVIOUS
<1> HIDE DEF s
<1>2. ASSUME NEW i \in DOMAIN s PROVE s[i] \in Item /\ s[i].kind = kind
  BY <1>1
<1>3. s \in Seq(Item)
  <2>1. s = [i \in 1 .. Len(names) |-> [kind |-> kind, key |-> names[i], metro |-> Null]]
    BY <1>1 DEF s
  <2>2. s \in [1 .. Len(names) -> Item]
    BY <1>1, <1>2, <2>1
  <2> QED BY <1>1, <2>2
<1>4. Ordered(s)
  BY <1>2 DEF Ordered, Before, Lock
<1>5. ItemsLabelled(f, s)
  BY <1>2 DEF ItemsLabelled
<1> QED BY <1>2, <1>3, <1>4, <1>5 DEF s, IsPart

\* The one company an update locks is a part.
LEMMA CompanyIsPart ==
    ASSUME NEW f, NEW c \in Company
    PROVE  IsPart(f, <<[kind |-> "company", key |-> c, metro |-> Null]>>, {"company"})
<1> DEFINE item == [kind |-> "company", key |-> c, metro |-> Null]
           s == <<item>>
<1>1. item \in Item /\ item.kind = "company"
  BY DEF Item, CompanyItem
<1> HIDE DEF item
<1>2. /\ s \in Seq(Item) /\ Len(s) = 1 /\ s[1] = item
      /\ DOMAIN s = 1 .. 1
  BY <1>1
<1> HIDE DEF s
<1>3. \A i \in DOMAIN s : i = 1 /\ s[i].kind = "company"
  BY <1>1, <1>2
<1>4. Ordered(s) /\ ItemsLabelled(f, s)
  BY <1>3 DEF Ordered, ItemsLabelled
<1> QED BY <1>2, <1>3, <1>4 DEF s, item, IsPart

\* The cities of a record, once each and by rank, with the metro the file gives them.
LEMMA CitiesArePart ==
    ASSUME NEW f \in File, Valid(f), NEW reported \in Seq(Reported),
           NEW locations, locations = LockOrder(FillMetros(f, reported))
    PROVE  IsPart(f, [i \in DOMAIN locations |-> [kind |-> "location", key |-> locations[i].city,
                                                  metro |-> locations[i].metro]], {"location"})
<1> DEFINE s == [i \in DOMAIN locations |-> [kind |-> "location", key |-> locations[i].city,
                                              metro |-> locations[i].metro]]
<1>1. FillMetros(f, reported) \in Seq(Reported)
  BY FilledIsLabelled
<1>2. /\ locations \in Seq(Placed)
      /\ \A i, j \in DOMAIN locations : i < j => Rank[locations[i].city] < Rank[locations[j].city]
      /\ \A i \in DOMAIN locations : \E k \in DOMAIN FillMetros(f, reported) :
            locations[i] = FillMetros(f, reported)[k]
  BY <1>1, LocationsAreSorted
<1>3. ASSUME NEW i \in DOMAIN locations
      PROVE  /\ locations[i].city \in Spelling /\ locations[i].metro \in Metro
             /\ FileSays(f, locations[i].city, locations[i].metro)
  <2>1. PICK k \in DOMAIN FillMetros(f, reported) : locations[i] = FillMetros(f, reported)[k]
    BY <1>2
  <2>2. Labelled(f, locations[i])
    BY <2>1, FilledIsLabelled
  <2>3. locations[i] \in Placed
    BY <1>2
  <2>4. locations[i].city \in Spelling /\ locations[i].metro \in Metro
    BY <2>3 DEF Placed
  <2>5. locations[i].metro # Null
    BY <2>4, RegionsAssumption
  <2> QED BY <2>2, <2>4, <2>5 DEF Labelled
<1>4. /\ Len(locations) \in Nat /\ DOMAIN locations = 1 .. Len(locations)
      /\ DOMAIN s = 1 .. Len(locations)
      /\ \A i \in DOMAIN s : s[i] = [kind |-> "location", key |-> locations[i].city,
                                     metro |-> locations[i].metro]
  BY <1>2
<1> HIDE DEF s
<1>5. ASSUME NEW i \in DOMAIN s
      PROVE  s[i] \in Item /\ s[i].kind = "location" /\ s[i].key = locations[i].city
             /\ s[i].metro = locations[i].metro
  <2>1. s[i] \in LocationItem
    BY <1>3, <1>4 DEF LocationItem
  <2> QED BY <1>4, <2>1 DEF Item
<1>6. s \in Seq(Item)
  <2>1. s = [i \in 1 .. Len(locations) |-> [kind |-> "location", key |-> locations[i].city,
                                             metro |-> locations[i].metro]]
    BY <1>4 DEF s
  <2>2. s \in [1 .. Len(locations) -> Item]
    BY <1>4, <1>5, <2>1
  <2> QED BY <1>4, <2>2
<1>7. Ordered(s)
  BY <1>2, <1>4, <1>5 DEF Ordered, Before, Lock
<1>8. ItemsLabelled(f, s)
  BY <1>3, <1>4, <1>5 DEF ItemsLabelled
<1> QED BY <1>5, <1>6, <1>7, <1>8 DEF s, IsPart

\* A company updated first, its cities by rank, and the rows nobody sorts anywhere.
LEMMA PlansAreOrdered ==
    ASSUME NEW f \in File, Valid(f), NEW r \in Record
    PROVE  Plan(f, r) \in Seq(Item) /\ Ordered(Plan(f, r)) /\ ItemsLabelled(f, Plan(f, r))
<1> DEFINE locations == LockOrder(FillMetros(f, r.locations))
           names == r.sectors \o r.investors
           new == r.candidates
           company == <<[kind |-> "company", key |-> r.company, metro |-> Null]>>
           cities == [i \in DOMAIN locations |-> [kind |-> "location", key |-> locations[i].city,
                                                  metro |-> locations[i].metro]]
           shares == [i \in DOMAIN names |-> [kind |-> "shared", key |-> names[i], metro |-> Null]]
           pairs == [i \in DOMAIN new |-> [kind |-> "candidate", key |-> new[i], metro |-> Null]]
<1>1. /\ r.company \in Company \cup {Null} /\ r.candidates \in Seq(Company)
      /\ r.locations \in Seq(Reported)
      /\ r.sectors \in Seq(Shared) /\ r.investors \in Seq(Shared)
  BY RegionsAssumption DEF Reported
<1>2. names \in Seq(Shared) /\ new \in Seq(Company)
  BY <1>1
<1>3. Plan(f, r) = IF r.company = Null THEN cities \o (shares \o pairs)
                   ELSE company \o (pairs \o (cities \o shares))
  BY DEF Plan
<1>4. IsPart(f, cities, {"location"})
  BY <1>1, CitiesArePart
<1> HIDE DEF locations, names, new
<1>5. IsPart(f, shares, {"shared"})
  <2>1. \A n \in Shared : [kind |-> "shared", key |-> n, metro |-> Null] \in Item
    BY DEF Item, SharedItem
  <2> QED BY <1>2, <2>1, NamesArePart
<1>6. IsPart(f, pairs, {"candidate"})
  <2>1. \A n \in Company : [kind |-> "candidate", key |-> n, metro |-> Null] \in Item
    BY DEF Item, CandidateItem
  <2> QED BY <1>2, <2>1, NamesArePart
<1>7. r.company # Null => IsPart(f, company, {"company"})
  BY <1>1, CompanyIsPart
<1> HIDE DEF company, cities, shares, pairs
<1>8. IsPart(f, cities \o (shares \o pairs), {"location"} \cup ({"shared"} \cup {"candidate"}))
  <2>1. IsPart(f, shares \o pairs, {"shared"} \cup {"candidate"})
    BY <1>5, <1>6, PartsJoin
  <2> QED BY <1>4, <2>1, PartsJoin
<1>9. IsPart(f, pairs \o (cities \o shares), {"candidate"} \cup ({"location"} \cup {"shared"}))
  <2>1. IsPart(f, cities \o shares, {"location"} \cup {"shared"})
    BY <1>4, <1>5, PartsJoin
  <2> QED BY <1>6, <2>1, PartsJoin
<1>10. r.company # Null =>
          IsPart(f, company \o (pairs \o (cities \o shares)),
                 {"company"} \cup ({"candidate"} \cup ({"location"} \cup {"shared"})))
  BY <1>7, <1>9, PartsJoin
<1> QED BY <1>3, <1>8, <1>10 DEF IsPart

(***************************************************************************)
(* Types, and what upserts hold and want                                   *)
(***************************************************************************)

PlacedRow == [city : Spelling, metro : Metro, id : Nat \ {0}]
Upsert == [todo : Seq(Item), held : SUBSET Locks, places : SUBSET PlacedRow]

TypeOK ==
    /\ file \in File
    /\ loaded \in [Process -> File \cup {Null}]
    /\ place \in [Spelling -> LocationRow \cup {Null}]
    /\ tx \in [Process -> Upsert \cup {Null}]
    /\ sweep \in SweepType \cup {Null}
    /\ nextId \in Nat \ {0}

LoadedIsValid == \A p \in Process : loaded[p] # Null => Valid(loaded[p])

\* An upsert takes its locks in order, and every location it will write or has written is
\* labelled as the file its process keeps says.
UpsertOk(t, f) ==
    /\ Ordered(t.todo)
    /\ \A v \in t.held : \A i \in DOMAIN t.todo : Before(v, Lock(t.todo[i]))
    /\ ItemsLabelled(f, t.todo)
    /\ \A row \in t.places : FileSays(f, row.city, row.metro)

UpsertsOk == \A p \in Process : tx[p] # Null => loaded[p] # Null /\ UpsertOk(tx[p], loaded[p])

\* The sweep holds the row it is about to commit, and nothing else.
SweepOk ==
    sweep # Null =>
        /\ Valid(sweep.file)
        /\ sweep.pc # "commit" => sweep.held = {}
        /\ sweep.pc \in {"update", "commit"} =>
              /\ sweep.at \in Spelling /\ place[sweep.at] # Null
              /\ Lookup(sweep.file, sweep.at) # {}
        /\ sweep.pc = "page" => sweep.page = {}
        /\ \A r \in sweep.page : place[r.city] # Null

IInv == TypeOK /\ LoadedIsValid /\ UpsertsOk /\ SweepOk

LEMMA NullIsNothing ==
    /\ Null \notin File /\ Null \notin Metro /\ Null \notin LocationRow /\ Null \notin SweepType
    /\ LocationRow = [id : Nat \ {0}, metro : Metro]
BY RegionsAssumption DEF LocationRow

\* Rows numbered in the order of their spellings, and nothing in progress.
LEMMA InitHolds == Init => IInv
<1> SUFFICES ASSUME Init PROVE IInv
  OBVIOUS
<1>1. \A s \in Spelling : Cardinality({t \in Spelling : Stored[t] # Null /\ Rank[t] < Rank[s]}) \in Nat
  <2>1. ASSUME NEW s \in Spelling
        PROVE  IsFiniteSet({t \in Spelling : Stored[t] # Null /\ Rank[t] < Rank[s]})
    <3>1. {t \in Spelling : Stored[t] # Null /\ Rank[t] < Rank[s]} \subseteq Spelling
      OBVIOUS
    <3> QED BY <3>1, FS_Subset, RegionsAssumption
  <2> QED BY <2>1, FS_CardinalityType
<1>2. place \in [Spelling -> LocationRow \cup {Null}]
  <2>1. ASSUME NEW s \in Spelling, Stored[s] # Null
        PROVE  [id |-> 1 + Cardinality({t \in Spelling : Stored[t] # Null /\ Rank[t] < Rank[s]}),
                metro |-> Stored[s]] \in LocationRow
    <3>1. Stored[s] \in Metro
      BY <2>1, RegionsAssumption
    <3> QED BY <1>1, <3>1 DEF LocationRow
  <2> QED BY <2>1 DEF Init, Numbered
<1>3. nextId \in Nat \ {0}
  <2>1. {s \in Spelling : Stored[s] # Null} \subseteq Spelling
    OBVIOUS
  <2>2. Cardinality({s \in Spelling : Stored[s] # Null}) \in Nat
    BY <2>1, FS_Subset, FS_CardinalityType, RegionsAssumption
  <2> QED BY <2>2 DEF Init
<1>4. TypeOK
  BY <1>2, <1>3 DEF Init, TypeOK
<1>5. LoadedIsValid
  BY DEF Init, LoadedIsValid
<1>6. UpsertsOk /\ SweepOk
  BY DEF Init, UpsertsOk, SweepOk
<1> QED BY <1>4, <1>5, <1>6 DEF IInv

\* The upserts of the others are as they were.
LEMMA OthersKeep ==
    ASSUME NEW p \in Process, TypeOK, UpsertsOk,
           \A q \in Process \ {p} : tx'[q] = tx[q] /\ loaded'[q] = loaded[q],
           tx'[p] # Null => loaded'[p] # Null /\ UpsertOk(tx'[p], loaded'[p])
    PROVE  UpsertsOk'
<1>1. ASSUME NEW q \in Process, tx'[q] # Null
      PROVE  loaded'[q] # Null /\ UpsertOk(tx'[q], loaded'[q])
  <2>1. CASE q = p
    BY <1>1, <2>1
  <2>2. CASE q # p
    <3>1. tx'[q] = tx[q] /\ loaded'[q] = loaded[q]
      BY <2>2
    <3> QED BY <1>1, <3>1 DEF UpsertsOk
  <2> QED BY <2>1, <2>2
<1> QED BY <1>1 DEF UpsertsOk

\* What the statement of p writes, and what is left for it to do.
LEMMA ItemsGoInOrder ==
    ASSUME NEW p \in Process, TypeOK, UpsertsOk, tx[p] # Null, tx[p].todo # <<>>
    PROVE  /\ Head(tx[p].todo) \in Item
           /\ Wanted(p) \subseteq {Lock(Head(tx[p].todo))}
           /\ Tail(tx[p].todo) \in Seq(Item)
           /\ Ordered(Tail(tx[p].todo))
           /\ ItemsLabelled(loaded[p], Tail(tx[p].todo))
           /\ \A v \in tx[p].held \cup Wanted(p) :
                 \A i \in DOMAIN Tail(tx[p].todo) : Before(v, Lock(Tail(tx[p].todo)[i]))
           /\ tx[p].held \cup Wanted(p) \subseteq Locks
           /\ Head(tx[p].todo).kind = "location" =>
                 FileSays(loaded[p], Head(tx[p].todo).key, Head(tx[p].todo).metro)
<1> DEFINE todo == tx[p].todo
           rest == Tail(todo)
           item == Head(todo)
<1>1. /\ tx[p] \in Upsert /\ todo \in Seq(Item) /\ tx[p].held \subseteq Locks
      /\ UpsertOk(tx[p], loaded[p])
  BY DEF TypeOK, UpsertsOk, Upsert
<1>2. /\ Ordered(todo) /\ ItemsLabelled(loaded[p], todo)
      /\ \A v \in tx[p].held : \A i \in DOMAIN todo : Before(v, Lock(todo[i]))
  BY <1>1 DEF UpsertOk
<1>3. Wanted(p) \subseteq {Lock(item)}
  <2>1. p # "sweep"
    BY RegionsAssumption
  <2> QED BY <2>1 DEF Wanted, Lock
<1> HIDE DEF todo
<1>4. /\ item = todo[1] /\ item \in Item /\ 1 \in DOMAIN todo
      /\ rest \in Seq(Item)
      /\ \A i \in DOMAIN rest : i \in Nat /\ i >= 1 /\ i + 1 \in DOMAIN todo /\ rest[i] = todo[i + 1]
  <2>1. todo # <<>>
    BY DEF todo
  <2> QED BY <1>1, <2>1
<1>5. Lock(item) \in Locks
  BY <1>4 DEF Item, CompanyItem, CandidateItem, LocationItem, SharedItem, Lock, Locks
<1> HIDE DEF rest, item
<1>6. Ordered(rest)
  <2>1. ASSUME NEW i \in DOMAIN rest, NEW j \in DOMAIN rest, i < j
        PROVE  Before(Lock(rest[i]), Lock(rest[j]))
    <3>1. i + 1 < j + 1
      BY <1>4, <2>1
    <3> QED BY <1>2, <1>4, <3>1 DEF Ordered
  <2> QED BY <2>1 DEF Ordered
<1>7. ItemsLabelled(loaded[p], rest)
  BY <1>2, <1>4 DEF ItemsLabelled
<1>8. ASSUME NEW v \in tx[p].held \cup Wanted(p), NEW i \in DOMAIN rest
      PROVE  Before(v, Lock(rest[i]))
  <2>1. CASE v \in tx[p].held
    BY <1>2, <1>4, <2>1
  <2>2. CASE v = Lock(item)
    <3>1. 1 < i + 1
      BY <1>4
    <3> QED BY <1>2, <1>4, <2>2, <3>1 DEF Ordered
  <2> QED BY <1>3, <2>1, <2>2
<1>9. item.kind = "location" => FileSays(loaded[p], item.key, item.metro)
  BY <1>2, <1>4 DEF ItemsLabelled
<1>10. Ordered(Tail(tx[p].todo)) /\ ItemsLabelled(loaded[p], Tail(tx[p].todo)) /\ Tail(tx[p].todo) \in Seq(Item)
  BY <1>4, <1>6, <1>7 DEF rest, todo
<1>11. \A v \in tx[p].held \cup Wanted(p) :
                 \A i \in DOMAIN Tail(tx[p].todo) : Before(v, Lock(Tail(tx[p].todo)[i]))
  BY <1>8 DEF rest, todo
<1>12. tx[p].held \cup Wanted(p) \subseteq Locks
  BY <1>1, <1>3, <1>5
<1> QED BY <1>3, <1>4, <1>9, <1>10, <1>11, <1>12 DEF item, todo

\* A statement of an upsert that has got its lock.
LEMMA StatementHolds ==
    ASSUME NEW p \in Process, TypeOK, UpsertsOk, tx[p] # Null, tx[p].todo # <<>>
    PROVE  /\ Done(p) = [tx EXCEPT ![p] = [tx[p] EXCEPT !.todo = Tail(tx[p].todo),
                                                        !.held = tx[p].held \cup Wanted(p)]]
           /\ Done(p)[p].todo = Tail(tx[p].todo) /\ Done(p)[p].held = tx[p].held \cup Wanted(p)
           /\ Done(p)[p].places = tx[p].places
           /\ Done(p) \in [Process -> Upsert \cup {Null}]
           /\ Done(p)[p] \in Upsert
           /\ UpsertOk(Done(p)[p], loaded[p])
           /\ loaded[p] # Null
<1>1. tx[p] \in Upsert /\ tx \in [Process -> Upsert \cup {Null}]
  BY DEF TypeOK
<1>2. Done(p) = [tx EXCEPT ![p] = [tx[p] EXCEPT !.todo = Tail(tx[p].todo),
                                               !.held = tx[p].held \cup Wanted(p)]]
  BY DEF Done
<1>3. tx[p] = [todo |-> tx[p].todo, held |-> tx[p].held, places |-> tx[p].places]
  BY <1>1 DEF Upsert
<1>4. Done(p)[p] = [todo |-> Tail(tx[p].todo), held |-> tx[p].held \cup Wanted(p),
                    places |-> tx[p].places]
  <2>1. Done(p)[p] = [tx[p] EXCEPT !.todo = Tail(tx[p].todo), !.held = tx[p].held \cup Wanted(p)]
    BY <1>1, <1>2
  <2> QED BY <1>3, <2>1
<1>5. /\ Tail(tx[p].todo) \in Seq(Item) /\ tx[p].held \cup Wanted(p) \subseteq Locks
      /\ Ordered(Tail(tx[p].todo)) /\ ItemsLabelled(loaded[p], Tail(tx[p].todo))
      /\ \A v \in tx[p].held \cup Wanted(p) :
            \A i \in DOMAIN Tail(tx[p].todo) : Before(v, Lock(Tail(tx[p].todo)[i]))
  BY ItemsGoInOrder
<1>6. tx[p].places \subseteq PlacedRow
  BY <1>1 DEF Upsert
<1>7. UpsertOk(tx[p], loaded[p]) /\ loaded[p] # Null
  BY DEF UpsertsOk
<1>8. Done(p)[p] \in Upsert
  BY <1>4, <1>5, <1>6 DEF Upsert
<1>9. UpsertOk(Done(p)[p], loaded[p])
  BY <1>4, <1>5, <1>7 DEF UpsertOk
<1>10. Done(p) \in [Process -> Upsert \cup {Null}]
  <2>1. Done(p) = [tx EXCEPT ![p] = Done(p)[p]]
    BY <1>1, <1>2
  <2> QED BY <1>1, <1>8, <2>1
<1> QED BY <1>2, <1>4, <1>7, <1>8, <1>9, <1>10

\* The steps of upserts.
LEMMA IngestKeeps ==
    ASSUME IInv, NEW p \in Process, Ingest(p)
    PROVE  IInv'
<1> USE DEF IInv
<1>0. TypeOK /\ LoadedIsValid /\ UpsertsOk /\ SweepOk
  OBVIOUS
<1>1. CASE Load(p)
  <2>1. /\ file' = file /\ place' = place /\ tx' = tx /\ sweep' = sweep /\ nextId' = nextId
        /\ loaded' = [loaded EXCEPT ![p] = file] /\ loaded[p] = Null /\ Valid(file)
    BY <1>1 DEF Load
  <2>2. TypeOK'
    BY <2>1 DEF TypeOK
  <2>3. LoadedIsValid'
    BY <2>1 DEF TypeOK, LoadedIsValid
  <2>4. UpsertsOk'
    <3>1. tx[p] = Null
      BY <2>1 DEF UpsertsOk
    <3> QED BY <2>1, <3>1, OthersKeep DEF TypeOK
  <2>5. SweepOk'
    BY <2>1 DEF SweepOk
  <2> QED BY <2>2, <2>3, <2>4, <2>5
<1>2. CASE Stop(p)
  <2>1. /\ file' = file /\ place' = place /\ sweep' = sweep /\ nextId' = nextId
        /\ loaded' = [loaded EXCEPT ![p] = Null] /\ tx' = [tx EXCEPT ![p] = Null]
    BY <1>2 DEF Stop
  <2>2. TypeOK'
    BY <2>1 DEF TypeOK
  <2>3. LoadedIsValid'
    BY <2>1 DEF TypeOK, LoadedIsValid
  <2>4. UpsertsOk'
    BY <2>1, OthersKeep DEF TypeOK
  <2>5. SweepOk'
    BY <2>1 DEF SweepOk
  <2> QED BY <2>2, <2>3, <2>4, <2>5
<1>3. CASE \E r \in Record : BeginRecord(p, r)
  <2>1. PICK r \in Record : BeginRecord(p, r)
    BY <1>3
  <2> DEFINE t == [todo |-> Plan(loaded[p], r), held |-> {}, places |-> {}]
  <2>2. /\ file' = file /\ place' = place /\ sweep' = sweep /\ nextId' = nextId
        /\ loaded' = loaded /\ loaded[p] # Null /\ tx' = [tx EXCEPT ![p] = t]
    BY <2>1 DEF BeginRecord
  <2>3. loaded[p] \in File /\ Valid(loaded[p])
    BY <2>2 DEF TypeOK, LoadedIsValid
  <2>4. /\ Plan(loaded[p], r) \in Seq(Item) /\ Ordered(Plan(loaded[p], r))
        /\ ItemsLabelled(loaded[p], Plan(loaded[p], r))
    BY <2>3, PlansAreOrdered
  <2>5. t \in Upsert /\ UpsertOk(t, loaded[p])
    BY <2>4 DEF Upsert, UpsertOk
  <2> HIDE DEF t
  <2>6. TypeOK'
    BY <2>2, <2>5 DEF TypeOK
  <2>7. LoadedIsValid'
    BY <2>2 DEF LoadedIsValid
  <2>8. UpsertsOk'
    BY <2>2, <2>5, OthersKeep DEF TypeOK
  <2>9. SweepOk'
    BY <2>2 DEF SweepOk
  <2> QED BY <2>6, <2>7, <2>8, <2>9
<1>4. CASE LockCompany(p) \/ ShareCandidate(p) \/ GetOrCreate(p)
  <2>1. /\ file' = file /\ place' = place /\ sweep' = sweep /\ nextId' = nextId
        /\ loaded' = loaded /\ tx' = Done(p) /\ tx[p] # Null /\ tx[p].todo # <<>>
    BY <1>4 DEF LockCompany, ShareCandidate, GetOrCreate, Gets
  <2>2. TypeOK'
    BY <2>1, StatementHolds DEF TypeOK
  <2>3. LoadedIsValid'
    BY <2>1 DEF LoadedIsValid
  <2>4. \A q \in Process \ {p} : tx'[q] = tx[q]
    BY <2>1, StatementHolds DEF TypeOK
  <2>5. UpsertsOk'
    BY <2>1, <2>4, StatementHolds, OthersKeep
  <2>6. SweepOk'
    BY <2>1 DEF SweepOk
  <2> QED BY <2>2, <2>3, <2>5, <2>6
<1>5. CASE WriteLocation(p)
  <2> DEFINE l == Head(tx[p].todo)
             isNew == place[l.key] = Null
             row == [city |-> l.key, metro |-> l.metro,
                     id |-> IF isNew THEN nextId ELSE place[l.key].id]
             t == [Done(p)[p] EXCEPT !.places = Done(p)[p].places \cup {row}]
  <2>1. /\ file' = file /\ place' = place /\ sweep' = sweep /\ loaded' = loaded
        /\ tx[p] # Null /\ tx[p].todo # <<>> /\ l.kind = "location"
        /\ nextId' = IF isNew THEN nextId + 1 ELSE nextId
        /\ tx' = [Done(p) EXCEPT ![p].places = @ \cup {row}]
    BY <1>5 DEF WriteLocation, Gets
  <2>2. l \in LocationItem /\ FileSays(loaded[p], l.key, l.metro)
    BY <2>1, ItemsGoInOrder DEF Item, CompanyItem, CandidateItem, SharedItem
  <2>3. row \in PlacedRow
    <3>1. l.key \in Spelling /\ l.metro \in Metro
      BY <2>2 DEF LocationItem
    <3>2. ~isNew => place[l.key].id \in Nat \ {0}
      BY <3>1 DEF TypeOK, LocationRow
    <3> QED BY <3>1, <3>2 DEF PlacedRow, TypeOK
  <2>4. /\ Done(p) \in [Process -> Upsert \cup {Null}] /\ Done(p)[p] \in Upsert
        /\ UpsertOk(Done(p)[p], loaded[p]) /\ loaded[p] # Null
        /\ \A q \in Process \ {p} : Done(p)[q] = tx[q]
    BY <2>1, StatementHolds DEF TypeOK
  <2>5. row.city = l.key /\ row.metro = l.metro
    OBVIOUS
  <2> HIDE DEF row, l
  <2>6. t = [todo |-> Done(p)[p].todo, held |-> Done(p)[p].held,
             places |-> Done(p)[p].places \cup {row}]
    <3> DEFINE d == Done(p)[p]
    <3>1. d \in Upsert
      BY <2>4
    <3> HIDE DEF d
    <3>2. d = [todo |-> d.todo, held |-> d.held, places |-> d.places]
      BY <3>1 DEF Upsert
    <3>3. [d EXCEPT !.places = d.places \cup {row}]
             = [todo |-> d.todo, held |-> d.held, places |-> d.places \cup {row}]
      BY <3>2
    <3> QED BY <3>3 DEF d
  <2>7. t \in Upsert
    BY <2>3, <2>4, <2>6 DEF Upsert
  <2>8. UpsertOk(t, loaded[p])
    BY <2>2, <2>4, <2>5, <2>6 DEF UpsertOk
  <2>9. tx' = [Done(p) EXCEPT ![p] = t]
    BY <2>1
  <2> HIDE DEF t, isNew
  <2>10. TypeOK'
    <3>1. tx' \in [Process -> Upsert \cup {Null}]
      BY <2>4, <2>7, <2>9
    <3>2. nextId' \in Nat \ {0}
      BY <2>1 DEF TypeOK
    <3> QED BY <2>1, <3>1, <3>2 DEF TypeOK
  <2>11. LoadedIsValid'
    BY <2>1 DEF LoadedIsValid
  <2>12. UpsertsOk'
    BY <2>1, <2>4, <2>8, <2>9, OthersKeep
  <2>13. SweepOk'
    BY <2>1 DEF SweepOk
  <2> QED BY <2>10, <2>11, <2>12, <2>13
<1>6. CASE Commit(p)
  <2>1. /\ file' = file /\ sweep' = sweep /\ loaded' = loaded /\ nextId' = nextId
        /\ tx' = [tx EXCEPT ![p] = Null] /\ tx[p] # Null
        /\ place' = [s \in Spelling |->
                    IF \E row \in tx[p].places : row.city = s
                    THEN LET row == CHOOSE row \in tx[p].places : row.city = s
                         IN  [id |-> row.id, metro |-> row.metro]
                    ELSE place[s]]
    BY <1>6 DEF Commit
  <2>2. tx[p].places \subseteq PlacedRow
    BY <2>1 DEF TypeOK, Upsert
  <2>3. \A s \in Spelling : place'[s] \in LocationRow \/ place'[s] = place[s]
    <3>1. ASSUME NEW s \in Spelling, \E row \in tx[p].places : row.city = s
          PROVE  place'[s] \in LocationRow
      <4>1. PICK row : row \in tx[p].places /\ place'[s] = [id |-> row.id, metro |-> row.metro]
        BY <2>1, <3>1
      <4> QED BY <2>2, <4>1 DEF PlacedRow, LocationRow
    <3> QED BY <2>1, <3>1
  <2>4. \A s \in Spelling : place'[s] # Null \/ place[s] = Null
    BY <2>3, NullIsNothing
  <2>5. TypeOK'
    <3>1. place' \in [Spelling -> LocationRow \cup {Null}]
      BY <2>1, <2>3 DEF TypeOK
    <3> QED BY <2>1, <3>1 DEF TypeOK
  <2>6. LoadedIsValid'
    BY <2>1 DEF LoadedIsValid
  <2>7. UpsertsOk'
    BY <2>1, OthersKeep DEF TypeOK
  <2>8. SweepOk'
    <3>1. sweep # Null => \A r \in sweep.page : r.city \in Spelling
      BY DEF TypeOK, SweepType
    <3> QED BY <2>1, <2>4, <3>1 DEF SweepOk
  <2> QED BY <2>5, <2>6, <2>7, <2>8
<1>7. CASE RecordFails(p)
  <2>1. /\ file' = file /\ place' = place /\ sweep' = sweep /\ nextId' = nextId
        /\ loaded' = loaded /\ tx' = [tx EXCEPT ![p] = Null]
    BY <1>7 DEF RecordFails
  <2>2. TypeOK'
    BY <2>1 DEF TypeOK
  <2>3. LoadedIsValid'
    BY <2>1 DEF LoadedIsValid
  <2>4. UpsertsOk'
    BY <2>1, OthersKeep DEF TypeOK
  <2>5. SweepOk'
    BY <2>1 DEF SweepOk
  <2> QED BY <2>2, <2>3, <2>4, <2>5
<1> QED BY <1>1, <1>2, <1>3, <1>4, <1>5, <1>6, <1>7 DEF Ingest

(***************************************************************************)
(* The sweep                                                               *)
(***************************************************************************)

\* A page is the rows next in the order of their ids: those left come after the last of it.
LEMMA PagesAreNext ==
    ASSUME TypeOK, sweep # Null, Beyond # {}
    PROVE  /\ Page \subseteq Beyond /\ Beyond \subseteq Spelling
           /\ \A s \in Beyond : place[s] \in LocationRow
           /\ LastId(Page) \in Nat
           /\ \A s \in Beyond : s \in Page \/ place[s].id > LastId(Page)
<1> DEFINE key == [s \in Beyond |-> place[s].id]
           Under(s) == {t \in Beyond : place[t].id < place[s].id}
<1>1. /\ Page \subseteq Beyond /\ Beyond \subseteq Spelling
      /\ \A s \in Beyond : place[s] \in LocationRow
  BY DEF Page, Beyond, TypeOK
<1>2. \A s \in Beyond : place[s].id \in Nat
  BY <1>1 DEF LocationRow
<1>3. IsFiniteSet(Beyond) /\ key \in [Beyond -> Nat]
  BY <1>1, <1>2, FS_Subset, RegionsAssumption
<1>4. \A s \in Page : Cardinality(Under(s)) < Batch
  BY DEF Page
<1>5. \A s \in Beyond : s \notin Page => ~ Cardinality(Under(s)) < Batch
  BY DEF Page
<1>6. \A s \in Beyond : key[s] = place[s].id
  OBVIOUS
<1> HIDE DEF key
<1>7. Page # {}
  <2>1. PICK s \in Beyond : \A t \in Beyond : key[s] <= key[t]
    BY <1>3, ExtremesExist
  <2>2. Under(s) = {}
    BY <1>2, <1>6, <2>1
  <2>3. Cardinality(Under(s)) = 0
    BY <2>2, FS_EmptySet
  <2>4. Cardinality(Under(s)) < Batch
    BY <2>3, RegionsAssumption
  <2> QED BY <1>5, <2>4
<1>8. LastId(Page) \in {place[s].id : s \in Page} /\ \A s \in Page : place[s].id <= LastId(Page)
  <2> DEFINE page == [s \in Page |-> place[s].id]
  <2>1. IsFiniteSet(Page) /\ page \in [Page -> Nat]
    BY <1>1, <1>2, <1>3, FS_Subset
  <2>2. \E s \in Page : \A t \in Page : page[t] <= page[s]
    <3> HIDE DEF page
    <3> QED BY <1>7, <2>1, ExtremesExist
  <2>3. \E i \in {place[s].id : s \in Page} : \A s \in Page : place[s].id <= i
    BY <2>2
  <2> QED BY <2>3 DEF LastId
<1>9. PICK last \in Page : LastId(Page) = place[last].id
  BY <1>8
<1>10. ASSUME NEW s \in Beyond, s \notin Page
       PROVE  place[s].id > place[last].id
  <2>1. place[s].id \in Nat /\ place[last].id \in Nat
    BY <1>1, <1>2
  <2>2. ASSUME place[s].id <= place[last].id PROVE FALSE
    <3>1. Under(s) \subseteq Under(last)
      BY <1>1, <1>2, <2>1, <2>2
    <3>2. Under(last) \subseteq Beyond
      OBVIOUS
    <3>3. IsFiniteSet(Under(last))
      BY <1>3, <3>2, FS_Subset
    <3>4. /\ IsFiniteSet(Under(s)) /\ Cardinality(Under(s)) <= Cardinality(Under(last))
      BY <3>1, <3>3, FS_Subset
    <3>5. Cardinality(Under(s)) \in Nat /\ Cardinality(Under(last)) \in Nat
      BY <3>3, <3>4, FS_CardinalityType
    <3>6. Cardinality(Under(last)) < Batch /\ ~ Cardinality(Under(s)) < Batch
      BY <1>4, <1>5, <1>10
    <3> HIDE DEF Under
    <3> QED BY <3>4, <3>5, <3>6, RegionsAssumption
  <2> QED BY <2>1, <2>2
<1> QED BY <1>1, <1>2, <1>9, <1>10

\* The steps of the sweep.
LEMMA SweepKeeps ==
    ASSUME IInv, Sweep
    PROVE  IInv'
<1>0. TypeOK /\ LoadedIsValid /\ UpsertsOk /\ SweepOk
  BY DEF IInv
<1>1. file' = file /\ loaded' = loaded /\ tx' = tx /\ nextId' = nextId
  BY DEF Sweep, StartSweep, ReadPage, UpdateRow, CommitRow, PageDone, SweepDone, SweepStops, NextRow
<1>2. LoadedIsValid' /\ UpsertsOk'
  BY <1>0, <1>1 DEF LoadedIsValid, UpsertsOk
<1>3. sweep # Null =>
        /\ sweep \in SweepType /\ sweep.file \in File /\ sweep.dry \in BOOLEAN
        /\ sweep.pc \in {"page", "row", "update", "commit"} /\ sweep.after \in Nat
        /\ sweep.page \subseteq [city : Spelling, row : LocationRow]
        /\ sweep.at \in Spelling \cup {Null}
        /\ sweep.held \subseteq ({"location"} \X Spelling) /\ sweep.recipe \in BOOLEAN
  BY <1>0 DEF TypeOK, SweepType
<1>4. CASE \E dry \in BOOLEAN : StartSweep(dry)
  <2>1. PICK dry \in BOOLEAN : StartSweep(dry)
    BY <1>4
  <2>2. /\ place' = place /\ Valid(file)
        /\ sweep' = [file |-> file, dry |-> dry, pc |-> "page", after |-> 0, page |-> {},
                     at |-> Null, held |-> {}, recipe |-> Running \subseteq {file}]
    BY <2>1 DEF StartSweep
  <2>3. sweep' \in SweepType
    BY <1>0, <2>2 DEF SweepType, TypeOK
  <2>4. TypeOK'
    BY <1>0, <1>1, <2>2, <2>3 DEF TypeOK
  <2>5. SweepOk'
    BY <2>2 DEF SweepOk
  <2> QED BY <1>2, <2>4, <2>5 DEF IInv
<1>5. CASE ReadPage
  <2>1. /\ place' = place /\ sweep # Null /\ Beyond # {}
        /\ sweep' = [sweep EXCEPT !.page = {[city |-> s, row |-> place[s]] : s \in Page},
                                  !.after = LastId(Page), !.pc = "row"]
        /\ sweep.pc = "page"
    BY <1>5 DEF ReadPage
  <2>2. /\ {[city |-> s, row |-> place[s]] : s \in Page} \subseteq [city : Spelling, row : LocationRow]
        /\ LastId(Page) \in Nat
    BY <1>0, <2>1, PagesAreNext
  <2>3. \A s \in Page : place[s] # Null
    BY <1>0, <2>1, PagesAreNext, NullIsNothing
  <2>4. sweep' \in SweepType
    BY <1>3, <2>1, <2>2 DEF SweepType
  <2>5. /\ sweep'.file = sweep.file /\ sweep'.held = sweep.held /\ sweep'.pc = "row"
        /\ sweep'.page = {[city |-> s, row |-> place[s]] : s \in Page}
    BY <1>3, <2>1 DEF SweepType
  <2>6. TypeOK'
    BY <1>0, <1>1, <2>1, <2>4 DEF TypeOK
  <2>7. \A r \in sweep'.page : place'[r.city] # Null
    BY <2>1, <2>3, <2>5
  <2>8. SweepOk'
    BY <1>0, <2>1, <2>5, <2>7 DEF SweepOk
  <2> QED BY <1>2, <2>6, <2>8 DEF IInv
<1>6. CASE sweep # Null /\ \E r \in sweep.page : NextRow(r)
  <2>1. PICK r \in sweep.page : NextRow(r)
    BY <1>6
  <2>2. /\ place' = place /\ sweep # Null
        /\ sweep' = [sweep EXCEPT !.page = @ \ {r},
                              !.pc = IF Differs(r) /\ ~sweep.dry THEN "update" ELSE "row",
                              !.at = IF Differs(r) /\ ~sweep.dry THEN r.city ELSE Null]
        /\ sweep.pc = "row"
    BY <1>6, <2>1 DEF NextRow
  <2>3. r.city \in Spelling
    BY <1>3, <2>2
  <2>4. /\ sweep'.file = sweep.file /\ sweep'.held = sweep.held
        /\ sweep'.page = sweep.page \ {r}
        /\ sweep'.pc = IF Differs(r) /\ ~sweep.dry THEN "update" ELSE "row"
        /\ sweep'.at = IF Differs(r) /\ ~sweep.dry THEN r.city ELSE Null
    BY <1>3, <2>2 DEF SweepType
  <2>5. sweep' \in SweepType
    <3>1. /\ (IF Differs(r) /\ ~sweep.dry THEN "update" ELSE "row") \in {"page", "row", "update", "commit"}
          /\ (IF Differs(r) /\ ~sweep.dry THEN r.city ELSE Null) \in Spelling \cup {Null}
      BY <2>3
    <3> QED BY <1>3, <2>2, <3>1 DEF SweepType
  <2>6. TypeOK'
    BY <1>0, <1>1, <2>2, <2>5 DEF TypeOK
  <2>7. Differs(r) => Lookup(sweep.file, r.city) # {}
    BY DEF Differs
  <2>8. SweepOk'
    BY <1>0, <2>1, <2>2, <2>3, <2>4, <2>7 DEF SweepOk
  <2> QED BY <1>2, <2>6, <2>8 DEF IInv
<1>7. CASE UpdateRow
  <2>1. /\ place' = place /\ sweep # Null /\ sweep.pc = "update"
        /\ sweep' = [sweep EXCEPT !.held = @ \cup Wanted("sweep"), !.pc = "commit"]
    BY <1>7 DEF UpdateRow
  <2>2. sweep.at \in Spelling
    BY <1>0, <2>1 DEF SweepOk
  <2>3. Wanted("sweep") \subseteq {"location"} \X Spelling
    BY <2>1, <2>2 DEF Wanted
  <2>4. /\ sweep'.file = sweep.file /\ sweep'.page = sweep.page
        /\ sweep'.pc = "commit" /\ sweep'.at = sweep.at
    BY <1>3, <2>1 DEF SweepType
  <2>5. sweep' \in SweepType
    BY <1>3, <2>1, <2>3 DEF SweepType
  <2>6. TypeOK'
    BY <1>0, <1>1, <2>1, <2>5 DEF TypeOK
  <2>7. SweepOk'
    BY <1>0, <2>1, <2>4 DEF SweepOk
  <2> QED BY <1>2, <2>6, <2>7 DEF IInv
<1>8. CASE CommitRow
  <2> DEFINE c == CHOOSE c \in Lookup(sweep.file, sweep.at) : TRUE
  <2>1. /\ sweep # Null /\ sweep.pc = "commit"
        /\ place' = [place EXCEPT ![sweep.at].metro = c.metro]
        /\ sweep' = [sweep EXCEPT !.held = {}, !.pc = "row", !.at = Null]
    BY <1>8 DEF CommitRow
  <2>2. /\ sweep.at \in Spelling /\ place[sweep.at] # Null
        /\ Lookup(sweep.file, sweep.at) # {}
    BY <1>0, <2>1 DEF SweepOk
  <2>3. c \in Lookup(sweep.file, sweep.at)
    BY <2>2
  <2> HIDE DEF c
  <2>4. c.metro \in Metro
    <3>1. c \in [city : Spelling, metro : Metro]
      BY <1>3, <2>1, <2>2, <2>3, LookupIsRight
    <3> QED BY <3>1
  <2>5. place[sweep.at] \in LocationRow
    BY <1>0, <2>2 DEF TypeOK
  <2>6. [place[sweep.at] EXCEPT !.metro = c.metro] \in LocationRow
    BY <2>4, <2>5 DEF LocationRow
  <2>7. place' = [place EXCEPT ![sweep.at] = [place[sweep.at] EXCEPT !.metro = c.metro]]
    BY <2>1
  <2>8. place' \in [Spelling -> LocationRow \cup {Null}]
    BY <1>0, <2>2, <2>6, <2>7 DEF TypeOK
  <2>9. \A s \in Spelling : place[s] # Null => place'[s] # Null
    BY <1>0, <2>2, <2>6, <2>7, NullIsNothing DEF TypeOK
  <2>10. /\ sweep' \in SweepType
         /\ sweep'.file = sweep.file /\ sweep'.page = sweep.page /\ sweep'.held = {}
         /\ sweep'.pc = "row"
    BY <1>3, <2>1 DEF SweepType
  <2>11. TypeOK'
    BY <1>0, <1>1, <2>8, <2>10 DEF TypeOK
  <2>12. SweepOk'
    <3>1. \A r \in sweep.page : r.city \in Spelling
      BY <1>3, <2>1
    <3> QED BY <1>0, <2>1, <2>9, <2>10, <3>1 DEF SweepOk
  <2> QED BY <1>2, <2>11, <2>12 DEF IInv
<1>9. CASE PageDone
  <2>1. /\ place' = place /\ sweep # Null /\ sweep.pc = "row" /\ sweep.page = {}
        /\ sweep' = [sweep EXCEPT !.pc = "page"]
    BY <1>9 DEF PageDone
  <2>2. /\ sweep' \in SweepType /\ sweep'.file = sweep.file /\ sweep'.page = {}
        /\ sweep'.held = sweep.held /\ sweep'.pc = "page"
    BY <1>3, <2>1 DEF SweepType
  <2>3. TypeOK'
    BY <1>0, <1>1, <2>1, <2>2 DEF TypeOK
  <2>4. SweepOk'
    BY <1>0, <2>1, <2>2 DEF SweepOk
  <2> QED BY <1>2, <2>3, <2>4 DEF IInv
<1>10. CASE SweepDone \/ SweepStops
  <2>1. place' = place /\ sweep' = Null
    BY <1>10 DEF SweepDone, SweepStops
  <2>2. TypeOK' /\ SweepOk'
    BY <1>0, <1>1, <2>1 DEF TypeOK, SweepOk
  <2> QED BY <1>2, <2>2 DEF IInv
<1> QED BY <1>4, <1>5, <1>6, <1>7, <1>8, <1>9, <1>10 DEF Sweep

\* Every step.
LEMMA NextKeeps == IInv /\ [Next]_vars => IInv'
<1> SUFFICES ASSUME IInv, [Next]_vars PROVE IInv'
  OBVIOUS
<1>1. CASE \E f \in File : Edit(f)
  <2>1. PICK f \in File : Edit(f)
    BY <1>1
  <2>2. /\ file' = f /\ loaded' = loaded /\ place' = place /\ tx' = tx /\ nextId' = nextId
        /\ sweep' = IF sweep = Null THEN Null ELSE [sweep EXCEPT !.recipe = FALSE]
    BY <2>1 DEF Edit
  <2>3. sweep # Null =>
          /\ sweep' \in SweepType /\ sweep'.file = sweep.file /\ sweep'.page = sweep.page
          /\ sweep'.held = sweep.held /\ sweep'.pc = sweep.pc /\ sweep'.at = sweep.at
    BY <2>2 DEF IInv, TypeOK, SweepType
  <2>4. TypeOK'
    BY <2>2, <2>3 DEF IInv, TypeOK
  <2>5. SweepOk'
    BY <2>2, <2>3 DEF IInv, SweepOk
  <2>6. LoadedIsValid' /\ UpsertsOk'
    BY <2>2 DEF IInv, LoadedIsValid, UpsertsOk
  <2> QED BY <2>4, <2>5, <2>6 DEF IInv
<1>2. CASE \E p \in Process : Ingest(p)
  BY <1>2, IngestKeeps
<1>3. CASE Sweep
  BY <1>3, SweepKeeps
<1>4. CASE UNCHANGED vars
  BY <1>4 DEF vars, IInv, TypeOK, LoadedIsValid, UpsertsOk, SweepOk
<1> QED BY <1>1, <1>2, <1>3, <1>4 DEF Next

\* So of every behaviour.
LEMMA Invariance == Spec => []IInv
<1>1. Init => IInv
  BY InitHolds
<1>2. IInv /\ [Next]_vars => IInv'
  BY NextKeeps
<1> QED BY <1>1, <1>2, PTL DEF Spec

(***************************************************************************)
(* Cities alone never deadlock                                             *)
(***************************************************************************)

\* What one holds comes before what it wants.
LEMMA HoldersWantMore ==
    ASSUME IInv, NEW a \in Agent, NEW v \in Held(a), NEW w \in Wanted(a)
    PROVE  Before(v, w)
<1>1. CASE a = "sweep"
  <2>1. sweep # Null /\ sweep.pc = "update" /\ v \in sweep.held
    BY <1>1 DEF Held, Wanted
  <2> QED BY <2>1 DEF IInv, SweepOk
<1>2. CASE a \in Process
  <2>1. a # "sweep"
    BY <1>2, RegionsAssumption
  <2>2. tx[a] # Null /\ tx[a].todo # <<>> /\ v \in tx[a].held /\ w = Lock(Head(tx[a].todo))
    BY <2>1 DEF Held, Wanted, Lock
  <2>3. tx[a].todo \in Seq(Item) /\ UpsertOk(tx[a], loaded[a])
    BY <1>2, <2>2 DEF IInv, TypeOK, UpsertsOk, Upsert
  <2>4. 1 \in DOMAIN tx[a].todo /\ Head(tx[a].todo) = tx[a].todo[1]
    BY <2>2, <2>3
  <2> QED BY <2>2, <2>3, <2>4 DEF UpsertOk
<1> QED BY <1>1, <1>2 DEF Agent

\* One wants one lock at a time, and the sweep a location.
LEMMA WantsAreSingle ==
    ASSUME IInv, NEW a \in Agent, NEW v \in Wanted(a)
    PROVE  Wanted(a) = {v} /\ v \in Locks
<1>1. CASE a = "sweep"
  <2>1. sweep # Null /\ sweep.pc = "update" /\ Wanted(a) = {<<"location", sweep.at>>}
    BY <1>1 DEF Wanted
  <2>2. sweep.at \in Spelling
    BY <2>1 DEF IInv, SweepOk
  <2> QED BY <2>1, <2>2 DEF Locks
<1>2. CASE a \in Process
  <2>1. a # "sweep"
    BY <1>2, RegionsAssumption
  <2>2. tx[a] # Null /\ tx[a].todo # <<>> /\ Wanted(a) = {Lock(Head(tx[a].todo))}
    BY <2>1 DEF Wanted, Lock
  <2>3. Head(tx[a].todo) \in Item
    BY <1>2, <2>2, ItemsGoInOrder DEF IInv
  <2>4. Lock(Head(tx[a].todo)) \in Locks
    BY <2>3 DEF Item, CompanyItem, CandidateItem, LocationItem, SharedItem, Lock, Locks
  <2> QED BY <2>2, <2>4
<1> QED BY <1>1, <1>2 DEF Agent

\* Who waits holds something that is waited for, if the wait is in a cycle.
LEMMA HoldersWait ==
    ASSUME NEW S \in SUBSET Agent, Cycle(S), NEW a \in S
    PROVE  /\ \E w : w \in Wanted(a)
           /\ \E b \in S : \E v \in Held(a) : \E w \in Wanted(b) : Conflict(w, v)
<1>1. PICK b \in S : b \in WaitsFor(a)
  BY DEF Cycle
<1>2. PICK c \in S : a \in WaitsFor(c)
  BY DEF Cycle
<1> QED BY <1>1, <1>2 DEF WaitsFor

\* Who waits for the least city of a cycle holds a lesser one that is waited for too, or a
\* company that is waited for by somebody who then holds nothing.
LEMMA NobodyWaitsForCitiesAlone == IInv => CitiesAloneNeverDeadlock
<1> SUFFICES ASSUME IInv, NEW S \in (SUBSET Agent) \ {{}}, Cycle(S)
             PROVE  /\ "sweep" \notin S
                    /\ \E a \in S : \E w \in Wanted(a) : w[1] \in {"shared", "candidate"}
  BY DEF CitiesAloneNeverDeadlock
<1>1. "sweep" \notin S
  <2> SUFFICES ASSUME "sweep" \in S PROVE FALSE
    OBVIOUS
  <2>1. \E w : w \in Wanted("sweep")
    BY HoldersWait
  <2>2. sweep # Null /\ sweep.pc = "update"
    BY <2>1 DEF Wanted
  <2>3. Held("sweep") = {}
    BY <2>2 DEF Held, IInv, SweepOk
  <2> QED BY <2>3, HoldersWait
<1>2. ASSUME \A a \in S : \A w \in Wanted(a) : w[1] \notin {"shared", "candidate"}
      PROVE  FALSE
  <2>1. \A a \in S : \A w \in Wanted(a) : w = <<"location", w[2]>> /\ w[2] \in Spelling
    <3>1. ASSUME NEW a \in S, NEW w \in Wanted(a)
          PROVE  w = <<"location", w[2]>> /\ w[2] \in Spelling
      <4>1. w \in Locks /\ w[1] \notin {"shared", "candidate"}
        BY <1>2, WantsAreSingle
      <4>2. PICK b \in S : \E v \in Held(a) : \E u \in Wanted(b) : Conflict(u, v)
        BY HoldersWait
      <4>3. w[1] # "company"
        BY <4>2, HoldersWantMore DEF Before
      <4> QED BY <4>1, <4>3 DEF Locks
    <3> QED BY <3>1
  <2> DEFINE L == {s \in Spelling : \E a \in S : <<"location", s>> \in Wanted(a)}
  <2>2. L # {} /\ IsFiniteSet(L)
    <3>1. PICK a \in S : TRUE
      OBVIOUS
    <3>2. PICK w : w \in Wanted(a)
      BY HoldersWait
    <3>3. w[2] \in L
      BY <2>1, <3>2
    <3>4. L \subseteq Spelling
      OBVIOUS
    <3> QED BY <3>3, <3>4, FS_Subset, RegionsAssumption
  <2>3. PICK s \in L : \A t \in L : Rank[s] <= Rank[t]
    <3> DEFINE key == [t \in L |-> Rank[t]]
    <3>1. key \in [L -> Nat] /\ \A t \in L : key[t] = Rank[t]
      BY RegionsAssumption
    <3> HIDE DEF key
    <3>2. \E x \in L : \A y \in L : key[x] <= key[y]
      <4> HIDE DEF L
      <4> QED BY <2>2, <3>1, ExtremesExist
    <3> QED BY <3>1, <3>2
  <2>4. PICK a \in S : <<"location", s>> \in Wanted(a)
    OBVIOUS
  <2>5. PICK b \in S : \E v \in Held(a) : \E w \in Wanted(b) : Conflict(w, v)
    BY HoldersWait
  <2>6. PICK v \in Held(a), w \in Wanted(b) : Conflict(w, v)
    BY <2>5
  <2>7. w = <<"location", w[2]>> /\ w[2] \in L
    BY <2>1, <2>6
  <2>8. v[1] = "location" /\ v[2] = w[2]
    BY <2>6, <2>7 DEF Conflict
  <2>9. Rank[w[2]] < Rank[s]
    BY <2>4, <2>6, <2>8, HoldersWantMore DEF Before
  <2>10. Rank[w[2]] \in Nat /\ Rank[s] \in Nat
    BY <2>7, RegionsAssumption
  <2> QED BY <2>3, <2>7, <2>9, <2>10
<1> QED BY <1>1, <1>2

\* Upserts take the cities of their records in one order, and the sweep holds nothing when it
\* asks for one (_upsert_locations, sync_regions_once): a cycle of waits needs a row that upserts
\* do not sort, and the sweep is in none.
THEOREM LocationsAreTakenInOrder == Spec => []CitiesAloneNeverDeadlock
BY Invariance, NobodyWaitsForCitiesAlone, PTL

(***************************************************************************)
(* Labels                                                                  *)
(***************************************************************************)

\* A city is right if what is stored of it is what the file says, or nothing is.
LEMMA RightIsWhatTheFileSays ==
    ASSUME NEW s
    PROVE  Right(s) <=> (place[s] # Null => FileSays(file, s, place[s].metro))
BY DEF Right, FileSays

\* A label nobody writes is right as before.
LEMMA KeptStaysRight ==
    ASSUME NEW s, file' = file, place'[s] = place[s], Right(s)
    PROVE  Right(s)'
BY DEF Right

\* A process that keeps the file writes no label but the one the file gives.
LEMMA CommitsAreRight ==
    ASSUME IInv, NEW p \in Process, Commit(p), loaded[p] = file, NEW s \in Spelling
    PROVE  place'[s] = place[s] \/ Right(s)'
<1>1. /\ tx[p] # Null /\ file' = file
      /\ place'[s] = IF \E row \in tx[p].places : row.city = s
                     THEN LET row == CHOOSE row \in tx[p].places : row.city = s
                          IN  [id |-> row.id, metro |-> row.metro]
                     ELSE place[s]
  BY DEF Commit
<1>2. UpsertOk(tx[p], file)
  BY <1>1 DEF IInv, UpsertsOk
<1>3. CASE \E row \in tx[p].places : row.city = s
  <2>1. PICK row \in tx[p].places : /\ row.city = s
                                    /\ place'[s] = [id |-> row.id, metro |-> row.metro]
    BY <1>1, <1>3
  <2>2. FileSays(file, s, row.metro)
    BY <1>2, <2>1 DEF UpsertOk
  <2>3. FileSays(file', s, place'[s].metro)
    BY <1>1, <2>1, <2>2
  <2> QED BY <2>3 DEF Right, FileSays
<1> QED BY <1>1, <1>3

\* Neither does a sweep of the file.
LEMMA RelabelsAreRight ==
    ASSUME IInv, CommitRow, sweep.file = file, NEW s \in Spelling
    PROVE  /\ s # sweep.at => place'[s] = place[s]
           /\ s = sweep.at => Right(s)'
<1> DEFINE c == CHOOSE c \in Lookup(sweep.file, sweep.at) : TRUE
<1>1. /\ sweep # Null /\ sweep.pc = "commit" /\ file' = file
      /\ place' = [place EXCEPT ![sweep.at].metro = c.metro]
  BY DEF CommitRow
<1>2. /\ sweep.at \in Spelling /\ place[sweep.at] # Null /\ Valid(file)
      /\ c \in Lookup(file, sweep.at)
  BY <1>1 DEF IInv, SweepOk
<1> HIDE DEF c
<1>3. place[sweep.at] \in LocationRow /\ file \in File /\ place \in [Spelling -> LocationRow \cup {Null}]
  BY <1>2 DEF IInv, TypeOK
<1>4. FileSays(file, sweep.at, c.metro)
  BY <1>2, <1>3, LookupIsRight
<1>5. place'[sweep.at].metro = c.metro
  BY <1>1, <1>2, <1>3 DEF LocationRow
<1>6. s # sweep.at => place'[s] = place[s]
  BY <1>1, <1>2, <1>3
<1>7. ASSUME s = sweep.at PROVE Right(s)'
  <2>1. FileSays(file', s, place'[s].metro)
    BY <1>1, <1>4, <1>5, <1>7
  <2> QED BY <2>1 DEF Right, FileSays
<1> QED BY <1>6, <1>7

\* While everybody goes by the file, every label written is right.
LEMMA WritesAreRight ==
    ASSUME IInv, Next, file' = file, Running \subseteq {file},
           sweep # Null => sweep.file = file, NEW s \in Spelling
    PROVE  place'[s] = place[s] \/ Right(s)'
<1>1. CASE \E p \in Process : Commit(p)
  <2>1. PICK p \in Process : Commit(p)
    BY <1>1
  <2>2. loaded[p] # Null
    BY <2>1 DEF Commit, IInv, UpsertsOk
  <2>3. loaded[p] = file
    BY <2>2 DEF Running
  <2> QED BY <2>1, <2>3, CommitsAreRight
<1>2. CASE CommitRow
  <2>1. sweep # Null
    BY <1>2 DEF CommitRow
  <2> QED BY <1>2, <2>1, RelabelsAreRight
<1>3. CASE ~ (\E p \in Process : Commit(p)) /\ ~ CommitRow
  <2>1. place' = place
    BY <1>3 DEF Next, Ingest, Sweep, Edit, Load, Stop, BeginRecord, LockCompany, ShareCandidate, WriteLocation,
                GetOrCreate, RecordFails, StartSweep, ReadPage, UpdateRow, PageDone, SweepDone,
                SweepStops, NextRow
  <2> QED BY <2>1
<1> QED BY <1>1, <1>2, <1>3

\* Once nobody runs with another vintage of the file, a label that is right stays right until
\* the next edit, whatever is in progress (_upsert_locations: "It converges rather than
\* corrupts").
THEOREM LabelsConverge == Spec => LabelsSettle
<1> DEFINE Settled == Valid(file)
                        /\ Running \cup (IF sweep = Null THEN {} ELSE {sweep.file}) \subseteq {file}
                      => \A s \in Spelling : Right(s) => Right(s)' \/ file' # file
<1>1. IInv /\ [Next]_vars => [Settled]_vars
  <2> SUFFICES ASSUME IInv, Next, file' = file, Running \subseteq {file},
                      sweep # Null => sweep.file = file, NEW s \in Spelling, Right(s)
               PROVE  Right(s)'
    BY DEF vars
  <2>1. CASE place'[s] = place[s]
    BY <2>1, KeptStaysRight
  <2> QED BY <2>1, WritesAreRight
<1> QED BY <1>1, Invariance, PTL DEF Spec, LabelsSettle

(***************************************************************************)
(* The recipe                                                              *)
(***************************************************************************)

\* A stored city not labelled right is yet to be read, is read, or is being relabelled; and what
\* was read of a city not labelled right since is its label still.
RecipeInv ==
    sweep # Null /\ sweep.recipe /\ ~sweep.dry =>
        /\ Running \subseteq {file} /\ sweep.file = file
        /\ \A s \in Spelling : \/ Right(s)
                               \/ place[s] # Null /\ place[s].id > sweep.after
                               \/ \E r \in sweep.page : r.city = s
                               \/ sweep.pc \in {"update", "commit"} /\ sweep.at = s
        /\ \A r \in sweep.page : Right(r.city) \/ place[r.city].metro = r.row.metro

\* Steps that are not the sweep's.
LEMMA RecipeOfOthers ==
    ASSUME IInv, RecipeInv, sweep' = sweep, file' = file,
           sweep # Null /\ Running \subseteq {file} => Running' \subseteq {file},
           sweep # Null /\ Running \subseteq {file} /\ sweep.file = file =>
              \A s \in Spelling : place'[s] = place[s] \/ Right(s)'
    PROVE  RecipeInv'
<1> SUFFICES ASSUME sweep # Null, sweep.recipe, ~sweep.dry
             PROVE  /\ Running' \subseteq {file} /\ sweep.file = file
                    /\ \A s \in Spelling : \/ Right(s)'
                                           \/ place'[s] # Null /\ place'[s].id > sweep.after
                                           \/ \E r \in sweep.page : r.city = s
                                           \/ sweep.pc \in {"update", "commit"} /\ sweep.at = s
                    /\ \A r \in sweep.page : Right(r.city)' \/ place'[r.city].metro = r.row.metro
  BY DEF RecipeInv
<1>1. Running \subseteq {file} /\ sweep.file = file
  BY DEF RecipeInv
<1>2. ASSUME NEW s \in Spelling
      PROVE  (place'[s] = place[s] /\ (Right(s) => Right(s)')) \/ Right(s)'
  BY <1>1, KeptStaysRight
<1>3. \A r \in sweep.page : r.city \in Spelling
  BY DEF IInv, TypeOK, SweepType
<1>4. ASSUME NEW r \in sweep.page
      PROVE  Right(r.city)' \/ place'[r.city].metro = r.row.metro
  <2>1. Right(r.city) \/ place[r.city].metro = r.row.metro
    BY DEF RecipeInv
  <2> QED BY <1>2, <1>3, <2>1
<1>5. ASSUME NEW s \in Spelling
      PROVE  \/ Right(s)'
             \/ place'[s] # Null /\ place'[s].id > sweep.after
             \/ \E r \in sweep.page : r.city = s
             \/ sweep.pc \in {"update", "commit"} /\ sweep.at = s
  <2>1. \/ Right(s)
        \/ place[s] # Null /\ place[s].id > sweep.after
        \/ \E r \in sweep.page : r.city = s
        \/ sweep.pc \in {"update", "commit"} /\ sweep.at = s
    BY DEF RecipeInv
  <2> QED BY <1>2, <2>1
<1> QED BY <1>1, <1>4, <1>5

\* An upsert that commits under the sweep's file writes right labels.
LEMMA RecipeOfIngest ==
    ASSUME IInv, RecipeInv, NEW p \in Process, Ingest(p)
    PROVE  RecipeInv'
<1>1. sweep' = sweep /\ file' = file
  BY DEF Ingest, Load, Stop, BeginRecord, LockCompany, ShareCandidate, WriteLocation, GetOrCreate, Commit, RecordFails
<1>2. ASSUME Running \subseteq {file} PROVE Running' \subseteq {file}
  <2>1. \A q \in Process : loaded'[q] \in {loaded[q], file, Null}
    BY DEF Ingest, Load, Stop, BeginRecord, LockCompany, ShareCandidate, WriteLocation, GetOrCreate, Commit,
           RecordFails, IInv, TypeOK
  <2> QED BY <1>2, <2>1 DEF Running
<1>3. ASSUME Running \subseteq {file}, sweep # Null, sweep.file = file, NEW s \in Spelling
      PROVE  place'[s] = place[s] \/ Right(s)'
  BY <1>1, <1>3, WritesAreRight DEF Next
<1> QED BY <1>1, <1>2, <1>3, RecipeOfOthers

\* A sweep of the recipe.
LEMMA RecipeOfSweep ==
    ASSUME IInv, RecipeInv, Sweep
    PROVE  RecipeInv'
<1> SUFFICES ASSUME sweep' # Null, sweep'.recipe, ~sweep'.dry
             PROVE  RecipeInv'
  BY DEF RecipeInv
<1>0. file' = file /\ Running' = Running
  <2>1. file' = file /\ loaded' = loaded
    BY DEF Sweep, StartSweep, ReadPage, UpdateRow, CommitRow, PageDone, SweepDone, SweepStops,
           NextRow
  <2> QED BY <2>1 DEF Running
<1>1. CASE \E dry \in BOOLEAN : StartSweep(dry)
  <2>1. PICK dry \in BOOLEAN : StartSweep(dry)
    BY <1>1
  <2>2. /\ place' = place /\ sweep'.after = 0 /\ sweep'.page = {} /\ sweep'.file = file
        /\ sweep'.recipe = (Running \subseteq {file})
    BY <2>1 DEF StartSweep
  <2>3. ASSUME NEW s \in Spelling PROVE Right(s)' \/ (place'[s] # Null /\ place'[s].id > 0)
    <3>1. place[s] # Null => place[s] \in LocationRow
      BY DEF IInv, TypeOK
    <3>2. place[s] # Null => place[s].id > 0
      BY <3>1 DEF LocationRow
    <3>3. place[s] = Null => Right(s)'
      BY <2>2 DEF Right
    <3> QED BY <2>2, <3>2, <3>3
  <2> QED BY <1>0, <2>2, <2>3 DEF RecipeInv
<1> SUFFICES ASSUME sweep # Null, Sweep, ~ \E dry \in BOOLEAN : StartSweep(dry)
             PROVE  RecipeInv'
  BY <1>1 DEF Sweep, ReadPage, UpdateRow, CommitRow, PageDone, SweepDone, SweepStops
<1>2. /\ sweep \in SweepType /\ sweep.page \subseteq [city : Spelling, row : LocationRow]
  BY DEF IInv, TypeOK, SweepType
<1>3. CASE ReadPage
  <2>1. /\ place' = place /\ Beyond # {}
        /\ sweep' = [sweep EXCEPT !.page = {[city |-> s, row |-> place[s]] : s \in Page},
                                  !.after = LastId(Page), !.pc = "row"]
        /\ sweep.pc = "page"
    BY <1>3 DEF ReadPage
  <2>2. /\ sweep'.file = sweep.file /\ sweep'.recipe = sweep.recipe /\ sweep'.dry = sweep.dry
        /\ sweep'.page = {[city |-> s, row |-> place[s]] : s \in Page}
        /\ sweep'.after = LastId(Page)
    BY <1>2, <2>1 DEF SweepType
  <2>3. RecipeInv /\ sweep.page = {} /\ ~ sweep.pc \in {"update", "commit"}
    BY <2>1 DEF IInv, SweepOk
  <2>4. /\ Running \subseteq {file} /\ sweep.file = file
        /\ \A s \in Spelling : Right(s) \/ s \in Beyond
    BY <2>2, <2>3 DEF RecipeInv, Beyond
  <2>5. ASSUME NEW s \in Spelling
        PROVE  \/ Right(s)'
               \/ place'[s] # Null /\ place'[s].id > sweep'.after
               \/ \E r \in sweep'.page : r.city = s
    <3>1. CASE Right(s)
      BY <1>0, <2>1, <3>1, KeptStaysRight
    <3>2. CASE s \in Page
      <4>1. [city |-> s, row |-> place[s]] \in sweep'.page
        BY <2>2, <3>2
      <4> QED BY <4>1
    <3>3. CASE s \in Beyond /\ s \notin Page
      <4>1. place[s].id > LastId(Page) /\ place[s] # Null
        BY <2>1, <3>3, PagesAreNext DEF IInv, Beyond
      <4> QED BY <2>1, <2>2, <4>1
    <3> QED BY <2>4, <3>1, <3>2, <3>3
  <2>6. \A r \in sweep'.page : place'[r.city].metro = r.row.metro
    BY <2>1, <2>2
  <2> QED BY <1>0, <2>2, <2>4, <2>5, <2>6 DEF RecipeInv
<1>4. CASE \E r \in sweep.page : NextRow(r)
  <2>1. PICK r \in sweep.page : NextRow(r)
    BY <1>4
  <2>2. /\ place' = place
        /\ sweep' = [sweep EXCEPT !.page = @ \ {r},
                              !.pc = IF Differs(r) /\ ~sweep.dry THEN "update" ELSE "row",
                              !.at = IF Differs(r) /\ ~sweep.dry THEN r.city ELSE Null]
        /\ sweep.pc = "row"
    BY <2>1 DEF NextRow
  <2>3. /\ sweep'.file = sweep.file /\ sweep'.recipe = sweep.recipe /\ sweep'.dry = sweep.dry
        /\ sweep'.page = sweep.page \ {r} /\ sweep'.after = sweep.after
    BY <1>2, <2>2 DEF SweepType
  <2>4. /\ Running \subseteq {file} /\ sweep.file = file
        /\ \A s \in Spelling : \/ Right(s)
                               \/ place[s] # Null /\ place[s].id > sweep.after
                               \/ \E q \in sweep.page : q.city = s
        /\ \A q \in sweep.page : Right(q.city) \/ place[q.city].metro = q.row.metro
    BY <2>2, <2>3 DEF RecipeInv
  <2>5. ~ sweep.dry /\ (Differs(r) => sweep'.pc = "update" /\ sweep'.at = r.city)
    BY <1>2, <2>2, <2>3 DEF SweepType
  <2>6. ~ Differs(r) => Right(r.city)
    <3>1. r.city \in Spelling /\ file \in File
      BY <1>2 DEF IInv, TypeOK
    <3>2. ~ Differs(r) => FileSays(file, r.city, r.row.metro)
      BY <2>4, <3>1, LookupIsRight DEF Differs
    <3>3. place[r.city].metro = r.row.metro /\ ~ Differs(r) => Right(r.city)
      BY <3>2, RightIsWhatTheFileSays
    <3> QED BY <2>4, <3>3
  <2>7. ASSUME NEW s \in Spelling
        PROVE  \/ Right(s)'
               \/ place'[s] # Null /\ place'[s].id > sweep'.after
               \/ \E q \in sweep'.page : q.city = s
               \/ sweep'.pc \in {"update", "commit"} /\ sweep'.at = s
    <3>1. CASE Right(s)
      BY <1>0, <2>2, <3>1, KeptStaysRight
    <3>2. CASE s = r.city
      BY <2>5, <2>6, <3>1, <3>2
    <3>3. CASE s # r.city /\ \E q \in sweep.page : q.city = s
      BY <2>3, <3>3
    <3> QED BY <2>2, <2>3, <2>4, <3>1, <3>2, <3>3
  <2>8. ASSUME NEW q \in sweep.page
        PROVE  Right(q.city)' \/ place'[q.city].metro = q.row.metro
    BY <1>0, <2>2, <2>4, KeptStaysRight
  <2> QED BY <1>0, <2>3, <2>4, <2>7, <2>8 DEF RecipeInv
<1>5. CASE UpdateRow
  <2>1. /\ place' = place /\ sweep.pc = "update"
        /\ sweep' = [sweep EXCEPT !.held = @ \cup Wanted("sweep"), !.pc = "commit"]
    BY <1>5 DEF UpdateRow
  <2>2. /\ sweep'.file = sweep.file /\ sweep'.recipe = sweep.recipe /\ sweep'.dry = sweep.dry
        /\ sweep'.page = sweep.page /\ sweep'.after = sweep.after /\ sweep'.pc = "commit"
        /\ sweep'.at = sweep.at
    BY <1>2, <2>1 DEF SweepType
  <2>3. \A s : Right(s) => Right(s)'
    BY <1>0, <2>1, KeptStaysRight
  <2> QED BY <1>0, <2>1, <2>2, <2>3 DEF RecipeInv
<1>6. CASE CommitRow
  <2>1. /\ sweep.pc = "commit"
        /\ sweep' = [sweep EXCEPT !.held = {}, !.pc = "row", !.at = Null]
    BY <1>6 DEF CommitRow
  <2>2. /\ sweep'.file = sweep.file /\ sweep'.recipe = sweep.recipe /\ sweep'.dry = sweep.dry
        /\ sweep'.page = sweep.page /\ sweep'.after = sweep.after
    BY <1>2, <2>1 DEF SweepType
  <2>3. /\ Running \subseteq {file} /\ sweep.file = file
        /\ \A s \in Spelling : \/ Right(s)
                               \/ place[s] # Null /\ place[s].id > sweep.after
                               \/ \E q \in sweep.page : q.city = s
                               \/ sweep.at = s
        /\ \A q \in sweep.page : Right(q.city) \/ place[q.city].metro = q.row.metro
    BY <2>2 DEF RecipeInv
  <2>4. ASSUME NEW s \in Spelling
        PROVE  Right(s)' \/ (s # sweep.at /\ place'[s] = place[s] /\ ~ Right(s))
    <3>1. /\ s # sweep.at => place'[s] = place[s]
          /\ s = sweep.at => Right(s)'
      BY <1>6, <2>3, RelabelsAreRight
    <3> QED BY <1>0, <3>1, KeptStaysRight
  <2>5. \A q \in sweep.page : q.city \in Spelling
    BY <1>2
  <2>6. ASSUME NEW q \in sweep.page
        PROVE  Right(q.city)' \/ place'[q.city].metro = q.row.metro
    BY <2>3, <2>4, <2>5
  <2>7. ASSUME NEW s \in Spelling
        PROVE  \/ Right(s)'
               \/ place'[s] # Null /\ place'[s].id > sweep.after
               \/ \E q \in sweep.page : q.city = s
    BY <2>3, <2>4
  <2> QED BY <1>0, <2>2, <2>3, <2>6, <2>7 DEF RecipeInv
<1>7. CASE PageDone
  <2>1. /\ place' = place /\ sweep.pc = "row" /\ sweep.page = {}
        /\ sweep' = [sweep EXCEPT !.pc = "page"]
    BY <1>7 DEF PageDone
  <2>2. /\ sweep'.file = sweep.file /\ sweep'.recipe = sweep.recipe /\ sweep'.dry = sweep.dry
        /\ sweep'.page = sweep.page /\ sweep'.after = sweep.after
    BY <1>2, <2>1 DEF SweepType
  <2>3. \A s : Right(s) => Right(s)'
    BY <1>0, <2>1, KeptStaysRight
  <2> QED BY <1>0, <2>1, <2>2, <2>3 DEF RecipeInv
<1>8. CASE SweepDone \/ SweepStops
  BY <1>8 DEF SweepDone, SweepStops, RecipeInv
<1> QED BY <1>3, <1>4, <1>5, <1>6, <1>7, <1>8 DEF Sweep

\* Every step.
LEMMA RecipeKeeps == IInv /\ RecipeInv /\ [Next]_vars => RecipeInv'
<1> SUFFICES ASSUME IInv, RecipeInv, [Next]_vars PROVE RecipeInv'
  OBVIOUS
<1>1. CASE \E f \in File : Edit(f)
  <2>1. PICK f \in File : Edit(f)
    BY <1>1
  <2>2. sweep # Null => sweep' = [sweep EXCEPT !.recipe = FALSE] /\ sweep \in SweepType
    BY <2>1 DEF Edit, IInv, TypeOK
  <2>3. sweep # Null => sweep'.recipe = FALSE
    BY <2>2 DEF SweepType
  <2>4. sweep = Null => sweep' = Null
    BY <2>1 DEF Edit
  <2> QED BY <2>3, <2>4 DEF RecipeInv
<1>2. CASE \E p \in Process : Ingest(p)
  BY <1>2, RecipeOfIngest
<1>3. CASE Sweep
  BY <1>3, RecipeOfSweep
<1>4. CASE UNCHANGED vars
  BY <1>4 DEF vars, RecipeInv, Running, Right
<1> QED BY <1>1, <1>2, <1>3, <1>4 DEF Next

\* The README's recipe, scheduler restarted and a sweep to its end with no edit meanwhile, leaves
\* every stored city labelled as the file says (sync_regions_once).
THEOREM RecipeIsComplete == Spec => RecipeReachesAll
<1> DEFINE Reached == sweep # Null /\ sweep' = Null /\ sweep.pc = "page" /\ sweep.recipe /\ ~sweep.dry
                      => \A s \in Spelling : Right(s)
<1>1. Init => RecipeInv
  BY DEF Init, RecipeInv
<1>2. IInv /\ RecipeInv /\ [Next]_vars => RecipeInv'
  BY RecipeKeeps
<1>3. IInv /\ RecipeInv /\ [Next]_vars => [Reached]_vars
  <2> SUFFICES ASSUME IInv, RecipeInv, Next, sweep # Null, sweep' = Null, sweep.pc = "page",
                      sweep.recipe, ~sweep.dry, NEW s \in Spelling
               PROVE  Right(s)
    BY DEF vars
  <2>1. SweepDone
    <3>1. sweep' # sweep
      OBVIOUS
    <3>2. ~ \E f \in File : Edit(f)
      <4>1. sweep # Null => [sweep EXCEPT !.recipe = FALSE] \in SweepType
        BY DEF IInv, TypeOK, SweepType
      <4> QED BY <4>1, NullIsNothing DEF Edit
    <3>3. ~ \E p \in Process : Ingest(p)
      BY <3>1 DEF Ingest, Load, Stop, BeginRecord, LockCompany, ShareCandidate, WriteLocation, GetOrCreate,
                  Commit, RecordFails
    <3>4. ~ PageDone /\ ~ UpdateRow /\ ~ CommitRow /\ ~ SweepStops
          /\ ~ (\E r \in sweep.page : NextRow(r)) /\ ~ (\E dry \in BOOLEAN : StartSweep(dry))
      BY DEF PageDone, UpdateRow, CommitRow, SweepStops, NextRow, StartSweep
    <3>5. ~ ReadPage
      <4>1. ASSUME ReadPage PROVE FALSE
        <5>1. /\ Beyond # {}
              /\ sweep' = [sweep EXCEPT !.page = {[city |-> t, row |-> place[t]] : t \in Page},
                                        !.after = LastId(Page), !.pc = "row"]
          BY <4>1 DEF ReadPage
        <5>2. /\ {[city |-> t, row |-> place[t]] : t \in Page} \subseteq [city : Spelling, row : LocationRow]
              /\ LastId(Page) \in Nat
          BY <5>1, PagesAreNext DEF IInv
        <5>3. sweep \in SweepType
          BY DEF IInv, TypeOK
        <5>4. sweep' \in SweepType
          BY <5>1, <5>2, <5>3 DEF SweepType
        <5> QED BY <5>4, NullIsNothing
      <4> QED BY <4>1
    <3> QED BY <3>2, <3>3, <3>4, <3>5 DEF Next, Sweep
  <2>2. sweep.page = {} /\ ~ (place[s] # Null /\ place[s].id > sweep.after)
    BY <2>1 DEF SweepDone, Beyond, IInv, SweepOk
  <2> QED BY <2>2 DEF RecipeInv
<1>4. Spec => [](IInv /\ RecipeInv)
  BY <1>1, <1>2, Invariance, PTL DEF Spec
<1> QED BY <1>3, <1>4, PTL DEF Spec, RecipeReachesAll
==============================================================================
