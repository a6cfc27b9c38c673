---------------------------- MODULE ListingProofs ----------------------------
(***************************************************************************)
(* The two lists, for every set of companies, jobs, filters and page size. *)
(* The order of a list and the cursor written from its last row are one    *)
(* relation, total on any rows that have keys (OrderIsTotal,               *)
(* CursorIsTheOrder), so a page is exactly what remains up to the cursor   *)
(* of the next (PageIsUpToCursor).  Two invariants rest on that: RowsInv,  *)
(* by which the two lists mean the same, and ReaderOK, by which no steady  *)
(* row is skipped or shown twice.  PanelOK is the roles table's own.       *)
(***************************************************************************)
EXTENDS Listing, FiniteSetTheorems, TLAPS

(***************************************************************************)
(* The order of a list                                                     *)
(***************************************************************************)

\* r has a place in the order.
Keyed(sort, r) == r \in Nat /\ SortKey(sort, r) \in Nat \union {Null}

LEMMA NullIsNothing ==
    Null \notin Nat /\ Null \notin CompanyRow /\ Null \notin JobRow /\ Null \notin Cursor
BY ListingAssumption

\* ORDER BY is a strict total order of the rows that have a key, NULLs and ties included.
LEMMA OrderIsTotal ==
    ASSUME NEW sort, NEW q, NEW r, Keyed(sort, q), Keyed(sort, r)
    PROVE  /\ ~ (OrderBy(sort, q, r) /\ OrderBy(sort, r, q))
           /\ OrderBy(sort, q, r) \/ OrderBy(sort, r, q) \/ q = r
           /\ ~ OrderBy(sort, r, r)
<1> DEFINE k == SortKey(sort, q)
           l == SortKey(sort, r)
<1>1. k \in Nat \union {Null} /\ l \in Nat \union {Null} /\ q \in Nat /\ r \in Nat
  BY DEF Keyed
<1>2. OrderBy(sort, q, r) <=> \/ k # Null /\ l = Null
                              \/ k # Null /\ l # Null /\ Beyond(sort, l, k)
                              \/ k = l /\ q < r
  BY DEF OrderBy
<1>3. OrderBy(sort, r, q) <=> \/ l # Null /\ k = Null
                              \/ l # Null /\ k # Null /\ Beyond(sort, k, l)
                              \/ l = k /\ r < q
  BY DEF OrderBy
<1>4. OrderBy(sort, r, r) <=> \/ l # Null /\ l # Null /\ Beyond(sort, l, l)
                              \/ r < r
  BY DEF OrderBy
<1> HIDE DEF k, l
<1> QED BY <1>1, <1>2, <1>3, <1>4, NullIsNothing DEF Beyond

\* Three rows too are in one order.
LEMMA OrderIsTransitive ==
    ASSUME NEW sort, NEW p, NEW q, NEW r, Keyed(sort, p), Keyed(sort, q), Keyed(sort, r),
           OrderBy(sort, p, q), OrderBy(sort, q, r)
    PROVE  OrderBy(sort, p, r)
<1> DEFINE j == SortKey(sort, p)
           k == SortKey(sort, q)
           l == SortKey(sort, r)
<1>1. /\ j \in Nat \union {Null} /\ k \in Nat \union {Null} /\ l \in Nat \union {Null}
      /\ p \in Nat /\ q \in Nat /\ r \in Nat
  BY DEF Keyed
<1>2. \/ j # Null /\ k = Null
      \/ j # Null /\ k # Null /\ Beyond(sort, k, j)
      \/ j = k /\ p < q
  BY DEF OrderBy
<1>3. \/ k # Null /\ l = Null
      \/ k # Null /\ l # Null /\ Beyond(sort, l, k)
      \/ k = l /\ q < r
  BY DEF OrderBy
<1>4. (\/ j # Null /\ l = Null
       \/ j # Null /\ l # Null /\ Beyond(sort, l, j)
       \/ j = l /\ p < r) => OrderBy(sort, p, r)
  BY DEF OrderBy
<1> HIDE DEF j, k, l
<1> QED BY <1>1, <1>2, <1>3, <1>4, NullIsNothing DEF Beyond

\* A cursor lets through the rows that come after the row it was made from.
LEMMA CursorIsTheOrder ==
    ASSUME NEW cursor, NEW q, NEW r, Keyed(cursor.sort, q), Keyed(cursor.sort, r),
           cursor.key = SortKey(cursor.sort, q), cursor.id = q
    PROVE  AfterCursor(cursor, r) <=> OrderBy(cursor.sort, q, r)
<1> DEFINE k == SortKey(cursor.sort, q)
           l == SortKey(cursor.sort, r)
<1>1. k \in Nat \union {Null} /\ l \in Nat \union {Null} /\ q \in Nat /\ r \in Nat
  BY DEF Keyed
<1>2. OrderBy(cursor.sort, q, r) <=> \/ k # Null /\ l = Null
                                     \/ k # Null /\ l # Null /\ Beyond(cursor.sort, l, k)
                                     \/ k = l /\ q < r
  BY DEF OrderBy
<1>3. AfterCursor(cursor, r) <=> IF k = Null THEN l = Null /\ r > q
                                 ELSE \/ l # Null /\ Beyond(cursor.sort, l, k)
                                      \/ l = k /\ r > q
                                      \/ l = Null
  BY DEF AfterCursor
<1> HIDE DEF k, l
<1> QED BY <1>1, <1>2, <1>3, NullIsNothing DEF Beyond

\* What comes after a row that a cursor lets through, it lets through too.
LEMMA CursorIsTransitive ==
    ASSUME NEW cursor \in Cursor, NEW q, NEW r, Keyed(cursor.sort, q), Keyed(cursor.sort, r),
           AfterCursor(cursor, q), OrderBy(cursor.sort, q, r)
    PROVE  AfterCursor(cursor, r)
<1> DEFINE j == cursor.key
           k == SortKey(cursor.sort, q)
           l == SortKey(cursor.sort, r)
<1>1. /\ j \in Nat \union {Null} /\ k \in Nat \union {Null} /\ l \in Nat \union {Null}
      /\ cursor.id \in Nat /\ q \in Nat /\ r \in Nat
  BY DEF Keyed, Cursor
<1>2. IF j = Null THEN k = Null /\ q > cursor.id
      ELSE \/ k # Null /\ Beyond(cursor.sort, k, j)
           \/ k = j /\ q > cursor.id
           \/ k = Null
  BY DEF AfterCursor
<1>3. \/ k # Null /\ l = Null
      \/ k # Null /\ l # Null /\ Beyond(cursor.sort, l, k)
      \/ k = l /\ q < r
  BY DEF OrderBy
<1>4. AfterCursor(cursor, r) <=> IF j = Null THEN l = Null /\ r > cursor.id
                                 ELSE \/ l # Null /\ Beyond(cursor.sort, l, j)
                                      \/ l = j /\ r > cursor.id
                                      \/ l = Null
  BY DEF AfterCursor
<1> HIDE DEF j, k, l
<1> QED BY <1>1, <1>2, <1>3, <1>4, NullIsNothing DEF Beyond

(***************************************************************************)
(* Counting                                                                *)
(***************************************************************************)

\* In a finite set with a strict total order, U[r] being what comes before r, every place is
\* somebody's.
LEMMA PlacesAreTaken ==
    ASSUME NEW S, IsFiniteSet(S), NEW U \in [S -> SUBSET S],
           \A q, r \in S : q \in U[r] \/ r \in U[q] \/ q = r,
           \A r \in S : r \notin U[r],
           \A p, q, r \in S : p \in U[q] /\ q \in U[r] => p \in U[r]
    PROVE  /\ Cardinality(S) \in Nat
           /\ \A r \in S : /\ IsFiniteSet(U[r])
                           /\ Cardinality(U[r]) \in 0 .. Cardinality(S) - 1
           /\ \A q, r \in S : q \in U[r] =>
                 Cardinality(U[q]) < Cardinality(U[r])
           /\ \A i \in 0 .. Cardinality(S) - 1 :
                 \E r \in S : Cardinality(U[r]) = i
<1> DEFINE n == Cardinality(S)
           below == [r \in S |-> Cardinality(U[r]) + 1]
<1>1. n \in Nat
  BY FS_CardinalityType
<1>2. ASSUME NEW r \in S
      PROVE  /\ IsFiniteSet(U[r])
             /\ Cardinality(U[r]) \in 0 .. n - 1
  <2>1. U[r] \subseteq S \ {r}
    OBVIOUS
  <2>2. IsFiniteSet(S \ {r}) /\ Cardinality(S \ {r}) = n - 1
    BY FS_RemoveElement
  <2>3. IsFiniteSet(U[r]) /\ Cardinality(U[r]) <= n - 1
    BY <2>1, <2>2, FS_Subset
  <2>4. Cardinality(U[r]) \in Nat
    BY <2>3, FS_CardinalityType
  <2> HIDE DEF n
  <2> QED BY <1>1, <2>3, <2>4
<1> HIDE DEF n
<1>3. ASSUME NEW q \in S, NEW r \in S, q \in U[r]
      PROVE  Cardinality(U[q]) < Cardinality(U[r])
  <2>1. U[q] \cup {q} \subseteq U[r]
    <3>1. ASSUME NEW p \in U[q] PROVE p \in U[r]
      <4>1. p \in S
        OBVIOUS
      <4> QED BY <1>3, <4>1
    <3> QED BY <1>3, <3>1
  <2>2. q \notin U[q]
    OBVIOUS
  <2>3. Cardinality(U[q] \cup {q}) = Cardinality(U[q]) + 1
    BY <1>2, <2>2, FS_AddElement
  <2>4. Cardinality(U[q] \cup {q}) <= Cardinality(U[r])
    BY <1>2, <2>1, FS_Subset
  <2> QED BY <1>2, <2>3, <2>4
<1>4. \A r \in S : below[r] \in 1 .. n /\ below[r] = Cardinality(U[r]) + 1
  BY <1>1, <1>2
<1>5. below \in [S -> 1 .. n]
  BY <1>4
<1> HIDE DEF below
<1>6. below \in Injection(S, 1 .. n)
  <2>1. ASSUME NEW q \in S, NEW r \in S, below[q] = below[r] PROVE q = r
    <3>1. ~ (q \in U[r]) /\ ~ (r \in U[q])
      BY <1>2, <1>3, <1>4, <2>1
    <3> QED BY <3>1
  <2>2. IsInjective(below)
    BY <1>5, <2>1 DEF IsInjective
  <2> QED BY <1>5, <2>2 DEF Injection
<1>7. IsFiniteSet(1 .. n) /\ Cardinality(1 .. n) = n
  BY <1>1, FS_Interval
<1>8. below \in Surjection(S, 1 .. n)
  BY <1>6, <1>7, FS_Injection DEF n
<1>9. ASSUME NEW i \in 0 .. n - 1
      PROVE  \E r \in S : Cardinality(U[r]) = i
  <2>1. i + 1 \in 1 .. n
    BY <1>1
  <2>2. PICK r \in S : below[r] = i + 1
    BY <1>8, <2>1 DEF Surjection
  <2> QED BY <1>2, <1>4, <2>2
<1> QED BY <1>1, <1>2, <1>3, <1>9 DEF n

\* max(...) of some values is one of them.
LEMMA LargestExists ==
    ASSUME NEW S, IsFiniteSet(S), S \subseteq Nat, S # {}
    PROVE  Larger(S) \in S
<1> DEFINE U == [n \in S |-> {m \in S : m < n}]
           size == Cardinality(S)
<1>1. /\ U \in [S -> SUBSET S]
      /\ \A m, n \in S : m \in U[n] <=> m < n
  OBVIOUS
<1>2. \A n \in S : n \in Nat
  OBVIOUS
<1> HIDE DEF U
<1>3. /\ \A m, n \in S : m \in U[n] \/ n \in U[m] \/ m = n
      /\ \A n \in S : n \notin U[n]
      /\ \A l, m, n \in S : l \in U[m] /\ m \in U[n] => l \in U[n]
  BY <1>1, <1>2
<1>4. /\ size \in Nat
      /\ \A n \in S : Cardinality(U[n]) \in 0 .. size - 1
      /\ \A m, n \in S : m \in U[n] => Cardinality(U[m]) < Cardinality(U[n])
      /\ \A i \in 0 .. size - 1 : \E n \in S : Cardinality(U[n]) = i
  BY <1>1, <1>3, PlacesAreTaken
<1> HIDE DEF size
<1>5. size - 1 \in 0 .. size - 1
  <2>1. PICK n \in S : TRUE
    OBVIOUS
  <2>2. Cardinality(U[n]) \in 0 .. size - 1
    BY <1>4
  <2> QED BY <1>4, <2>2
<1>6. PICK t \in S : Cardinality(U[t]) = size - 1
  BY <1>4, <1>5
<1>7. ASSUME NEW n \in S PROVE n <= t
  <2>1. t \notin U[n]
    BY <1>4, <1>6
  <2> QED BY <1>1, <1>2, <2>1
<1> QED BY <1>7 DEF Larger

\* The rows of a list, in the order of the list.
Earlier(sort, S) == [r \in S |-> {q \in S : OrderBy(sort, q, r)}]

\* In a finite list every row has as many before it as its place says, and every place
\* is a row's.
LEMMA ListPlacesAreTaken ==
    ASSUME NEW S, IsFiniteSet(S), NEW sort, \A r \in S : Keyed(sort, r)
    PROVE  LET U == Earlier(sort, S) IN
           /\ Cardinality(S) \in Nat
           /\ \A q, r \in S : q \in U[r] <=> OrderBy(sort, q, r)
           /\ \A r \in S : /\ U[r] = {q \in S : OrderBy(sort, q, r)}
                           /\ IsFiniteSet(U[r]) /\ Cardinality(U[r]) \in 0 .. Cardinality(S) - 1
           /\ \A q, r \in S : OrderBy(sort, q, r) => Cardinality(U[q]) < Cardinality(U[r])
           /\ \A i \in 0 .. Cardinality(S) - 1 : \E r \in S : Cardinality(U[r]) = i
<1> DEFINE U == Earlier(sort, S)
<1>1. /\ U \in [S -> SUBSET S]
      /\ \A r \in S : U[r] = {q \in S : OrderBy(sort, q, r)}
      /\ \A q, r \in S : q \in U[r] <=> OrderBy(sort, q, r)
  BY DEF Earlier
<1> HIDE DEF U
<1>2. /\ \A q, r \in S : q \in U[r] \/ r \in U[q] \/ q = r
      /\ \A r \in S : r \notin U[r]
  BY <1>1, OrderIsTotal
<1>3. \A p, q, r \in S : p \in U[q] /\ q \in U[r] => p \in U[r]
  BY <1>1, OrderIsTransitive
<1>4. /\ Cardinality(S) \in Nat
      /\ \A r \in S : IsFiniteSet(U[r]) /\ Cardinality(U[r]) \in 0 .. Cardinality(S) - 1
      /\ \A q, r \in S : q \in U[r] => Cardinality(U[q]) < Cardinality(U[r])
      /\ \A i \in 0 .. Cardinality(S) - 1 : \E r \in S : Cardinality(U[r]) = i
  BY <1>1, <1>2, <1>3, PlacesAreTaken
<1> QED BY <1>1, <1>4 DEF U

\* LIMIT n + 1 tells whether there are more rows than LIMIT n returns; and the last of those
\* divides what is shown from what is not.
LEMMA PagesSplit ==
    ASSUME NEW S, IsFiniteSet(S), NEW sort, \A r \in S : Keyed(sort, r), NEW n \in Nat \ {0}
    PROVE  /\ ~ Cardinality(FirstOf(sort, S, n + 1)) > n => FirstOf(sort, S, n) = S
           /\ Cardinality(FirstOf(sort, S, n + 1)) > n =>
                 /\ LastOf(sort, FirstOf(sort, S, n)) \in FirstOf(sort, S, n)
                 /\ \A r \in S : r \in FirstOf(sort, S, n) <=>
                                   ~ OrderBy(sort, LastOf(sort, FirstOf(sort, S, n)), r)
<1> DEFINE page == FirstOf(sort, S, n)
           more == FirstOf(sort, S, n + 1)
           U == Earlier(sort, S)
           above(r) == Cardinality(U[r])
<1>1. /\ page = {r \in S : above(r) < n}
      /\ more = {r \in S : above(r) < n + 1}
  <2>1. \A r \in S : U[r] = {q \in S : OrderBy(sort, q, r)}
    BY ListPlacesAreTaken
  <2> HIDE DEF U
  <2> QED BY <2>1 DEF FirstOf
<1>2. /\ Cardinality(S) \in Nat
      /\ \A q, r \in S : q \in U[r] <=> OrderBy(sort, q, r)
      /\ \A r \in S : U[r] \subseteq S
      /\ \A r \in S : IsFiniteSet(U[r]) /\ above(r) \in 0 .. Cardinality(S) - 1
      /\ \A q, r \in S : OrderBy(sort, q, r) => above(q) < above(r)
      /\ \A i \in 0 .. Cardinality(S) - 1 : \E r \in S : above(r) = i
  BY ListPlacesAreTaken
<1> HIDE DEF U
<1>3. /\ IsFiniteSet(more) /\ more \subseteq S /\ page \subseteq S
      /\ Cardinality(more) \in Nat
  <2>1. more \subseteq S /\ page \subseteq S
    BY <1>1
  <2>2. IsFiniteSet(more)
    BY <2>1, FS_Subset
  <2> QED BY <2>1, <2>2, FS_CardinalityType
<1> HIDE DEF page, more
<1>4. ASSUME NEW s \in S, s \notin page PROVE Cardinality(more) > n
  <2>1. above(s) \in Nat /\ above(s) >= n /\ above(s) <= Cardinality(S) - 1
    BY <1>1, <1>2, <1>4
  <2>2. n \in 0 .. Cardinality(S) - 1
    BY <1>2, <2>1
  <2>3. PICK r \in S : above(r) = n
    BY <1>2, <2>2
  <2>4. U[r] \cup {r} \subseteq more
    <3>1. r \in more
      BY <1>1, <2>3
    <3>2. ASSUME NEW q \in U[r] PROVE q \in more
      <4>1. q \in S /\ OrderBy(sort, q, r)
        BY <1>2
      <4>2. above(q) < above(r) /\ above(q) \in Nat
        BY <1>2, <4>1
      <4> QED BY <1>1, <2>3, <4>1, <4>2
    <3> QED BY <3>1, <3>2
  <2>5. r \notin U[r]
    BY <1>2, OrderIsTotal
  <2>6. Cardinality(U[r] \cup {r}) = n + 1
    BY <1>2, <2>3, <2>5, FS_AddElement
  <2>7. n + 1 <= Cardinality(more)
    BY <1>3, <2>4, <2>6, FS_Subset
  <2> QED BY <1>3, <2>7
<1>5. ASSUME Cardinality(more) > n
      PROVE  /\ LastOf(sort, page) \in page
             /\ \A r \in page : r = LastOf(sort, page) \/ OrderBy(sort, r, LastOf(sort, page))
  <2>1. page # {}
    <3>1. more # {}
      BY <1>3, <1>5, FS_EmptySet
    <3>2. PICK r \in S : TRUE
      BY <1>3, <3>1
    <3>3. 0 \in 0 .. Cardinality(S) - 1
      BY <1>2
    <3>4. PICK q \in S : above(q) = 0
      BY <1>2, <3>3
    <3> QED BY <1>1, <3>4
  <2>2. IsFiniteSet(page) /\ \A r \in page : Keyed(sort, r)
    BY <1>3, FS_Subset
  <2> DEFINE P == Earlier(sort, page)
  <2>3. /\ Cardinality(page) \in Nat
        /\ \A r \in page : Cardinality(P[r]) \in 0 .. Cardinality(page) - 1
        /\ \A q, r \in page : OrderBy(sort, q, r) =>
              Cardinality(P[q]) < Cardinality(P[r])
        /\ \A i \in 0 .. Cardinality(page) - 1 :
              \E r \in page : Cardinality(P[r]) = i
    BY <2>2, ListPlacesAreTaken
  <2> HIDE DEF P
  <2>4. Cardinality(page) - 1 \in 0 .. Cardinality(page) - 1
    BY <2>1, <2>3
  <2>5. PICK last \in page : Cardinality(P[last]) = Cardinality(page) - 1
    BY <2>3, <2>4
  <2>6. \A r \in page : r = last \/ OrderBy(sort, r, last)
    <3>1. ASSUME NEW r \in page PROVE ~ OrderBy(sort, last, r)
      BY <2>3, <2>5
    <3> QED BY <2>2, <3>1, OrderIsTotal
  <2> QED BY <2>6 DEF LastOf
<1>6. ASSUME Cardinality(more) > n, NEW r \in S
      PROVE  r \in page <=> ~ OrderBy(sort, LastOf(sort, page), r)
  <2> DEFINE last == LastOf(sort, page)
  <2>1. last \in page /\ (r \in page => r = last \/ OrderBy(sort, r, last))
    BY <1>5, <1>6
  <2> HIDE DEF last
  <2>2. last \in S /\ Keyed(sort, last) /\ Keyed(sort, r)
    BY <1>3, <2>1
  <2>3. r \in page => ~ OrderBy(sort, last, r)
    BY <2>1, <2>2, OrderIsTotal
  <2>4. ASSUME r \notin page PROVE OrderBy(sort, last, r)
    <3>1. above(last) < n /\ ~ above(r) < n
      BY <1>1, <2>1, <2>4
    <3>2. above(last) \in Nat /\ above(r) \in Nat
      BY <1>2, <2>2
    <3>3. ~ OrderBy(sort, r, last) /\ r # last
      BY <1>2, <2>1, <2>2, <2>4, <3>1, <3>2
    <3> QED BY <2>2, <3>3, OrderIsTotal
  <2> QED BY <2>3, <2>4 DEF last
<1>7. ~ Cardinality(more) > n => page = S
  BY <1>3, <1>4
<1> QED BY <1>5, <1>6, <1>7 DEF page, more

(***************************************************************************)
(* The rows                                                                *)
(***************************************************************************)

RowsOK ==
    /\ company \in [CompanyId -> CompanyRow \union {Null}]
    /\ job \in [JobId -> JobRow \union {Null}]

\* A job is of a company that is there (the foreign key, and what a merge repoints).
JobsAreOwned == \A j \in JobId : job[j] # Null => company[job[j].company] # Null

RowsInv == RowsOK /\ JobsAreOwned

\* What a refresh writes are counts and times.
LEMMA RefreshedIsARow ==
    ASSUME NEW c \in CompanyId, NEW t \in [JobId -> JobRow \union {Null}],
           NEW note \in Status \union {Null}
    PROVE  Refreshed(c, t, note) \in CompanyRow
<1> DEFINE open == {j \in JobId : t[j] # Null /\ t[j].company = c /\ t[j].open}
           seen == {IF PostedOf[j] = Null THEN SeenOf[j] ELSE PostedOf[j] : j \in open}
<1>1. IsFiniteSet(open) /\ Cardinality(open) \in Nat
  <2>1. open \subseteq JobId
    OBVIOUS
  <2> QED BY <2>1, FS_Subset, FS_CardinalityType, ListingAssumption
<1>2. seen \subseteq Nat
  BY ListingAssumption
<1>3. IsFiniteSet(seen)
  <2> DEFINE date == [j \in open |-> IF PostedOf[j] = Null THEN SeenOf[j] ELSE PostedOf[j]]
  <2> HIDE DEF open
  <2>1. date \in Surjection(open, seen)
    BY DEF Surjection
  <2> QED BY <1>1, <2>1, FS_Surjection
<1>4. open # {} => seen # {}
  OBVIOUS
<1>5. Refreshed(c, t, note) = [open_job_count |-> Cardinality(open),
                               latest_job_posted_at |-> IF open = {} THEN Null ELSE Larger(seen),
                               note |-> note]
  BY DEF Refreshed
<1> HIDE DEF open, seen
<1>6. open # {} => Larger(seen) \in Nat
  BY <1>2, <1>3, <1>4, LargestExists
<1> QED BY <1>1, <1>5, <1>6 DEF CompanyRow

\* What a reader may find at first.
LEMMA RowsInit == Init => RowsInv
<1> SUFFICES ASSUME Init PROVE RowsInv
  OBVIOUS
<1>1. job \in [JobId -> JobRow \union {Null}]
  BY DEF Init, JobRow
<1>2. \A c \in CompanyId : company[c] = Refreshed(c, job, Null) /\ company[c] \in CompanyRow
  BY <1>1, RefreshedIsARow DEF Init
<1>3. company \in [CompanyId -> CompanyRow \union {Null}]
  BY <1>2 DEF Init
<1>4. ASSUME NEW j \in JobId, job[j] # Null PROVE company[job[j].company] # Null
  <2>1. job[j].company \in CompanyId
    BY <1>1, <1>4 DEF JobRow
  <2> QED BY <1>2, <2>1, NullIsNothing
<1> QED BY <1>1, <1>3, <1>4 DEF RowsInv, RowsOK, JobsAreOwned

\* Every transaction of the others; a merge moves the jobs before it deletes.
LEMMA WritesKeepRows ==
    ASSUME RowsInv, Write
    PROVE  RowsInv'
<1> USE DEF RowsInv, RowsOK, JobsAreOwned
<1>0. \A j \in JobId : job[j] # Null => job[j] \in JobRow /\ job[j].company \in CompanyId
  BY DEF JobRow
<1>1. ASSUME NEW j \in JobId, PostJob(j) PROVE RowsInv'
  <2>1. /\ company' = company /\ company[OwnerOf[j]] # Null
        /\ job' = [job EXCEPT ![j] = [company |-> OwnerOf[j], open |-> TRUE]]
    BY <1>1 DEF PostJob
  <2>2. [company |-> OwnerOf[j], open |-> TRUE] \in JobRow
    BY ListingAssumption DEF JobRow
  <2> QED BY <2>1, <2>2
<1>2. ASSUME NEW j \in JobId, CloseJob(j) PROVE RowsInv'
  <2>1. company' = company /\ job' = [job EXCEPT ![j].open = FALSE] /\ job[j] # Null
    BY <1>2 DEF CloseJob
  <2>2. [job[j] EXCEPT !.open = FALSE] \in JobRow /\ [job[j] EXCEPT !.open = FALSE].company = job[j].company
    BY <1>0, <2>1 DEF JobRow
  <2>3. job' = [job EXCEPT ![j] = [job[j] EXCEPT !.open = FALSE]]
    BY <2>1
  <2> QED BY <2>1, <2>2, <2>3
<1>3. ASSUME NEW c \in CompanyId, NEW row \in CompanyRow, job' = job,
             company' = [company EXCEPT ![c] = row]
      PROVE  RowsInv'
  BY <1>0, <1>3, NullIsNothing
<1>4. \A c \in CompanyId : company[c] # Null => company[c] \in CompanyRow /\ company[c].note \in Status \union {Null}
  BY DEF CompanyRow
<1>5. ASSUME NEW c \in CompanyId, Refresh(c) PROVE RowsInv'
  <2>1. /\ job' = job /\ company[c] # Null
        /\ company' = [company EXCEPT ![c] = Refreshed(c, job, company[c].note)]
    BY <1>5 DEF Refresh
  <2>2. Refreshed(c, job, company[c].note) \in CompanyRow
    BY <1>4, <2>1, RefreshedIsARow
  <2> QED BY <1>3, <2>1, <2>2
<1>6. ASSUME NEW c \in CompanyId, NEW s \in Status, SaveNote(c, s) PROVE RowsInv'
  <2>1. /\ job' = job /\ company[c] # Null /\ company' = [company EXCEPT ![c].note = s]
    BY <1>6 DEF SaveNote
  <2>2. [company[c] EXCEPT !.note = s] \in CompanyRow
    BY <1>4, <2>1 DEF CompanyRow
  <2>3. company' = [company EXCEPT ![c] = [company[c] EXCEPT !.note = s]]
    BY <2>1
  <2> QED BY <1>3, <2>1, <2>2, <2>3
<1>7. ASSUME NEW keep \in CompanyId, NEW drop \in CompanyId, MergeCompanies(keep, drop)
      PROVE  RowsInv'
  <2> DEFINE note == IF company[keep].note = Null THEN company[drop].note ELSE company[keep].note
             row == Refreshed(keep, job', note)
  <2>1. /\ keep # drop /\ company[keep] # Null /\ company[drop] # Null
        /\ job' = [j \in JobId |-> IF j \in JobsAt(drop) THEN [job[j] EXCEPT !.company = keep]
                                   ELSE job[j]]
        /\ company' = [company EXCEPT ![drop] = Null, ![keep] = row]
    BY <1>7 DEF MergeCompanies
  <2>2. ASSUME NEW j \in JobId
        PROVE  /\ job'[j] \in JobRow \union {Null}
               /\ job'[j] # Null => /\ job'[j].company \in CompanyId /\ job'[j].company # drop
                                    /\ company[job'[j].company] # Null
    <3>1. CASE j \in JobsAt(drop)
      <4>1. job[j] \in JobRow
        BY <1>0, <3>1 DEF JobsAt
      <4>2. job'[j] = [company |-> keep, open |-> job[j].open] /\ job[j].open \in BOOLEAN
        BY <2>1, <3>1, <4>1 DEF JobRow
      <4>3. job'[j] \in JobRow /\ job'[j].company = keep
        BY <4>2 DEF JobRow
      <4> QED BY <2>1, <4>3
    <3>2. CASE j \notin JobsAt(drop)
      BY <1>0, <2>1, <3>2 DEF JobsAt
    <3> QED BY <3>1, <3>2
  <2>3. job' \in [JobId -> JobRow \union {Null}]
    BY <2>1, <2>2
  <2>4. note \in Status \union {Null}
    BY <1>4, <2>1
  <2> HIDE DEF note
  <2>5. row \in CompanyRow
    BY <2>3, <2>4, RefreshedIsARow
  <2> HIDE DEF row
  <2>6. company' \in [CompanyId -> CompanyRow \union {Null}]
    BY <2>1, <2>5
  <2>7. \A c \in CompanyId \ {drop} : company[c] # Null => company'[c] # Null
    BY <2>1, <2>5, NullIsNothing
  <2> QED BY <2>2, <2>3, <2>6, <2>7
<1> QED BY <1>1, <1>2, <1>5, <1>6, <1>7 DEF Write

\* A reader writes nothing.
LEMMA NextKeepsRows == RowsInv /\ [Next]_vars => RowsInv'
<1> SUFFICES ASSUME RowsInv, [Next]_vars PROVE RowsInv'
  OBVIOUS
<1>1. CASE Write
  BY <1>1, WritesKeepRows
<1>2. CASE Browse \/ Unfold \/ UNCHANGED vars
  <2>1. company' = company /\ job' = job
    BY <1>2 DEF Browse, Unfold, vars, rows, Open, LoadMore, EditSort, Serve, Expand, InPanel,
                ClickHeader, NarrowRoles, ShowEveryRole
  <2> QED BY <2>1 DEF RowsInv, RowsOK, JobsAreOwned
<1> QED BY <1>1, <1>2 DEF Next

\* So of every behaviour.
LEMMA RowsInvariance == Spec => []RowsInv
<1>1. Init => RowsInv
  BY RowsInit
<1>2. RowsInv /\ [Next]_vars => RowsInv'
  BY NextKeepsRows
<1> QED BY <1>1, <1>2, PTL DEF Spec

\* Both lists ask one predicate of one set of jobs.
LEMMA ListsAgree == RowsInv => RolesAgree
<1> SUFFICES ASSUME RowsInv, NEW u \in FormUrl, HasJobFilters(Filters(u))
             PROVE  CompanyRows(Filters(u)) =
                       {job[j].company : j \in JobRows([Filters(u) EXCEPT !.closed = FALSE])}
  BY DEF RolesAgree
<1> DEFINE f == Filters(u)
           g == [f EXCEPT !.closed = FALSE]
<1>1. /\ g.cities = f.cities /\ g.metros = f.metros /\ g.families = f.families
      /\ g.tracking = f.tracking /\ g.amount_min = f.amount_min /\ g.flexible = f.flexible
      /\ g.open_roles = f.open_roles /\ g.closed = FALSE
  BY DEF Filters
<1> HIDE DEF f, g
<1>2. \A c : CompanyPredicates(g, c) <=> CompanyPredicates(f, c)
  BY <1>1 DEF CompanyPredicates
<1>3. \A j : JobAttributes(g, j) <=> JobAttributes(f, j)
  BY <1>1 DEF JobAttributes
<1>4. ASSUME NEW j \in JobRows(g) PROVE job[j].company \in CompanyRows(f)
  <2>1. /\ j \in JobId /\ job[j] # Null /\ CompanyPredicates(f, job[j].company)
        /\ JobAttributes(f, j) /\ job[j].open
    BY <1>1, <1>2, <1>3 DEF JobRows
  <2>2. job[j].company \in CompanyId /\ company[job[j].company] # Null
    BY <2>1 DEF RowsInv, RowsOK, JobsAreOwned, JobRow
  <2>3. OpenJobsExist(f, job[j].company)
    BY <2>1 DEF OpenJobsExist, OpenAt, JobsAt
  <2> QED BY <2>1, <2>2, <2>3 DEF CompanyRows
<1>5. ASSUME NEW c \in CompanyRows(f) PROVE \E j \in JobRows(g) : job[j].company = c
  <2>1. c \in CompanyId /\ CompanyPredicates(f, c) /\ OpenJobsExist(f, c)
    BY DEF CompanyRows, f
  <2>2. PICK j \in OpenAt(c) : JobAttributes(f, j)
    BY <2>1 DEF OpenJobsExist
  <2>3. j \in JobRows(g) /\ job[j].company = c
    BY <1>2, <1>3, <2>1, <2>2 DEF OpenAt, JobsAt, JobRows
  <2> QED BY <2>3
<1> QED BY <1>4, <1>5 DEF f, g

\* The filters mean the same in both lists, between two refreshes of the columns too
\* (open_jobs_exist, list_companies, list_jobs): no merge leaves an open role at a company that
\* is gone.
THEOREM ListsMeanTheSame == Spec => []RolesAgree
BY RowsInvariance, ListsAgree, PTL

(***************************************************************************)
(* The roles table                                                         *)
(***************************************************************************)

PanelOK ==
    pc = "panel" =>
        /\ panel = [company |-> panel.company, families |-> panel.families,
                    flexible |-> panel.flexible, sort |-> panel.sort, dir |-> panel.dir,
                    title_q |-> panel.title_q, include_closed |-> panel.include_closed]
        /\ panel.sort \in RoleSort \union {Blank}

Kept ==
    /\ pc = "browsing" /\ pc' = "panel" =>
            Highlight(panel') = [families |-> Filters(url).families,
                                 flexible |-> Filters(url).flexible]
    /\ pc = "panel" =>
            LET k == Controls(panel)
                l == Controls(panel')
            IN  /\ Highlight(panel') = Highlight(panel)
                /\ \A s \in RoleSort : ClickHeader(s) =>
                        /\ l.sort = s
                        /\ l.descending = IF s = k.sort THEN ~k.descending
                                          ELSE RoleSortDescending(s)
                /\ \/ l.sort = k.sort /\ l.descending = k.descending
                   \/ l.title_q = k.title_q /\ l.include_closed = k.include_closed

\* A URL that leaves out what is at its default reads back as the controls it was made from.
LEMMA PanelUrlReadsBack ==
    ASSUME NEW p, NEW k, k.sort \in RoleSort, k.descending \in BOOLEAN,
           k.title_q # Blank \/ k.title_q = Null
    PROVE  /\ Controls(PanelUrl(p, k)).sort = k.sort
           /\ Controls(PanelUrl(p, k)).descending = k.descending
           /\ Controls(PanelUrl(p, k)).title_q = k.title_q
           /\ Controls(PanelUrl(p, k)).include_closed = k.include_closed
           /\ Highlight(PanelUrl(p, k)) = Highlight(p)
           /\ PanelUrl(p, k).sort \in RoleSort \union {Blank}
<1> DEFINE q == PanelUrl(p, k)
<1>1. /\ q.families = Given(p.families) /\ q.flexible = p.flexible
      /\ q.sort = IF k.sort = "posted" THEN Blank ELSE k.sort
      /\ q.dir = IF k.descending = RoleSortDescending(k.sort) THEN Blank
                 ELSE IF k.descending THEN "desc" ELSE "asc"
      /\ q.title_q = IF k.title_q = Null THEN Blank ELSE k.title_q
      /\ q.include_closed = k.include_closed
  BY DEF PanelUrl
<1> HIDE DEF q
<1>2. Blank \notin RoleSort /\ Blank # "asc" /\ Blank # "desc"
  BY ListingAssumption
<1>3. Controls(q).sort = k.sort
  BY <1>1, <1>2 DEF Controls
<1>4. Controls(q).descending = k.descending
  <2>1. Controls(q).descending = IF q.dir = Blank THEN RoleSortDescending(k.sort) ELSE q.dir = "desc"
    BY <1>3 DEF Controls
  <2> QED BY <1>1, <1>2, <2>1 DEF RoleSortDescending
<1>5. Controls(q).title_q = k.title_q /\ Controls(q).include_closed = k.include_closed
  BY <1>1 DEF Controls
<1>6. Highlight(q) = Highlight(p)
  BY <1>1 DEF Highlight, Given
<1>7. q.sort \in RoleSort \union {Blank}
  BY <1>1
<1> QED BY <1>3, <1>4, <1>5, <1>6, <1>7 DEF q

\* What the controls of a panel are, in a panel the application renders.
LEMMA ControlsAreTyped ==
    ASSUME PanelOK, pc = "panel"
    PROVE  LET k == Controls(panel)
           IN  /\ k = [sort |-> k.sort, descending |-> k.descending, title_q |-> k.title_q,
                       include_closed |-> k.include_closed]
               /\ k.sort \in RoleSort /\ k.descending \in BOOLEAN
               /\ k.title_q # Blank \/ k.title_q = Null
BY DEF Controls, PanelOK, RoleSort, RoleSortDescending

\* The link of a column header.
LEMMA HeadersReadBack ==
    ASSUME PanelOK, pc = "panel", NEW s \in RoleSort, ClickHeader(s)
    PROVE  LET k == Controls(panel)
               l == Controls(panel')
           IN  /\ l.sort = s
               /\ l.descending = IF s = k.sort THEN ~k.descending ELSE RoleSortDescending(s)
               /\ l.title_q = k.title_q /\ l.include_closed = k.include_closed
               /\ Highlight(panel') = Highlight(panel)
               /\ panel'.sort \in RoleSort \union {Blank}
<1> DEFINE k == Controls(panel)
           link == RoleSortLink(s, k)
<1>1. /\ k = [sort |-> k.sort, descending |-> k.descending, title_q |-> k.title_q,
              include_closed |-> k.include_closed]
      /\ k.sort \in RoleSort /\ k.descending \in BOOLEAN
      /\ k.title_q # Blank \/ k.title_q = Null
  BY ControlsAreTyped
<1>2. panel' = PanelUrl(panel, link)
  BY DEF ClickHeader
<1> HIDE DEF k
<1>3. /\ link.sort = s
      /\ link.descending = IF s = k.sort THEN ~k.descending ELSE RoleSortDescending(s)
      /\ link.title_q = k.title_q /\ link.include_closed = k.include_closed
  BY <1>1 DEF RoleSortLink
<1>4. link.descending \in BOOLEAN
  BY <1>1, <1>3 DEF RoleSortDescending
<1> HIDE DEF link
<1> QED BY <1>1, <1>2, <1>3, <1>4, PanelUrlReadsBack DEF k

\* The form that narrows the roles.
LEMMA NarrowingReadsBack ==
    ASSUME PanelOK, pc = "panel", NEW q, NEW closed, NarrowRoles(q, closed)
    PROVE  LET k == Controls(panel)
               l == Controls(panel')
           IN  /\ l.sort = k.sort /\ l.descending = k.descending
               /\ Highlight(panel') = Highlight(panel)
               /\ panel'.sort \in RoleSort \union {Blank}
<1> DEFINE k == Controls(panel)
<1>1. /\ k.sort \in RoleSort /\ k.descending \in BOOLEAN
  BY ControlsAreTyped
<1>2. panel' = [panel EXCEPT !.sort = k.sort, !.dir = IF k.descending THEN "desc" ELSE "asc",
                             !.title_q = q, !.include_closed = closed]
  BY DEF NarrowRoles
<1> HIDE DEF k
<1>3. /\ panel'.families = panel.families /\ panel'.flexible = panel.flexible
      /\ panel'.sort = k.sort /\ panel'.dir = IF k.descending THEN "desc" ELSE "asc"
  BY <1>2 DEF PanelOK
<1>4. Blank \notin RoleSort /\ Blank # "asc" /\ Blank # "desc"
  BY ListingAssumption
<1>5. Controls(panel').sort = k.sort /\ Controls(panel').descending = k.descending
  BY <1>1, <1>3, <1>4 DEF Controls
<1>6. Highlight(panel') = Highlight(panel)
  BY <1>3 DEF Highlight
<1> QED BY <1>1, <1>3, <1>5, <1>6 DEF k

\* The way back to every role.
LEMMA ShowingAllReadsBack ==
    ASSUME PanelOK, pc = "panel", ShowEveryRole
    PROVE  LET k == Controls(panel)
               l == Controls(panel')
           IN  /\ l.sort = k.sort /\ l.descending = k.descending
               /\ Highlight(panel') = Highlight(panel)
               /\ panel'.sort \in RoleSort \union {Blank}
<1> DEFINE k == Controls(panel)
           all == [k EXCEPT !.title_q = Null, !.include_closed = FALSE]
<1>1. /\ k = [sort |-> k.sort, descending |-> k.descending, title_q |-> k.title_q,
              include_closed |-> k.include_closed]
      /\ k.sort \in RoleSort /\ k.descending \in BOOLEAN
  BY ControlsAreTyped
<1>2. panel' = PanelUrl(panel, all)
  BY DEF ShowEveryRole
<1> HIDE DEF k
<1>3. all.sort = k.sort /\ all.descending = k.descending /\ all.title_q = Null
  BY <1>1
<1> HIDE DEF all
<1> QED BY <1>1, <1>2, <1>3, PanelUrlReadsBack DEF k

\* Every step of a reader and of the others.
LEMMA PanelsKeep == PanelOK /\ [Next]_vars => PanelOK' /\ [Kept]_vars
<1> SUFFICES ASSUME PanelOK, [Next]_vars PROVE PanelOK' /\ [Kept]_vars
  OBVIOUS
<1>1. CASE panel' = panel /\ pc' # "panel" /\ pc # "panel"
  BY <1>1 DEF PanelOK, Kept
<1>2. CASE panel' = panel /\ pc' = pc
  <2>1. pc = "panel" => \A s \in RoleSort : ClickHeader(s) =>
             /\ Controls(panel').sort = s
             /\ Controls(panel').descending = IF s = Controls(panel).sort
                                              THEN ~Controls(panel).descending
                                              ELSE RoleSortDescending(s)
    BY HeadersReadBack
  <2> QED BY <1>2, <2>1 DEF PanelOK, Kept
<1>3. CASE Write \/ UNCHANGED vars
  <2>1. panel' = panel /\ pc' = pc
    BY <1>3 DEF Write, PostJob, CloseJob, Refresh, MergeCompanies, SaveNote, World, tab, vars
  <2> QED BY <1>2, <2>1
<1>4. CASE Browse
  <2>1. panel' = panel /\ pc' # "panel" /\ pc # "panel"
    BY <1>4 DEF Browse, Open, LoadMore, EditSort, Serve
  <2> QED BY <1>1, <2>1
<1>5. CASE \E c \in CompanyId : Expand(c)
  <2>1. PICK c \in CompanyId : Expand(c)
    BY <1>5
  <2>2. /\ pc = "browsing" /\ pc' = "panel"
        /\ panel' = [company |-> c, families |-> Filters(url).families,
                 flexible |-> Filters(url).flexible, sort |-> Blank, dir |-> Blank,
                 title_q |-> Blank, include_closed |-> FALSE]
    BY <2>1 DEF Expand
  <2>4. Highlight(panel') = [families |-> Filters(url).families, flexible |-> Filters(url).flexible]
    BY <2>2 DEF Highlight, Given, Filters
  <2>5. PanelOK'
    BY <2>2 DEF PanelOK
  <2> QED BY <2>2, <2>4, <2>5 DEF Kept
<1>6. ASSUME InPanel,
             panel' = [company |-> panel'.company, families |-> panel'.families,
                       flexible |-> panel'.flexible, sort |-> panel'.sort, dir |-> panel'.dir,
                       title_q |-> panel'.title_q, include_closed |-> panel'.include_closed],
             panel'.sort \in RoleSort \union {Blank},
             Highlight(panel') = Highlight(panel),
             LET k == Controls(panel)
                 l == Controls(panel')
             IN  \/ l.sort = k.sort /\ l.descending = k.descending
                 \/ l.title_q = k.title_q /\ l.include_closed = k.include_closed
      PROVE  PanelOK' /\ [Kept]_vars
  <2>1. pc' = pc /\ pc = "panel"
    BY <1>6 DEF InPanel, tab
  <2>2. PanelOK'
    BY <1>6, <2>1 DEF PanelOK
  <2>3. \A s \in RoleSort : ClickHeader(s) =>
             /\ Controls(panel').sort = s
             /\ Controls(panel').descending = IF s = Controls(panel).sort
                                              THEN ~Controls(panel).descending
                                              ELSE RoleSortDescending(s)
    BY <2>1, HeadersReadBack
  <2>4. Kept
    BY <1>6, <2>1, <2>3 DEF Kept
  <2> QED BY <2>2, <2>4
<1>7. ASSUME NEW s \in RoleSort, ClickHeader(s) PROVE PanelOK' /\ [Kept]_vars
  <2>1. InPanel /\ pc = "panel"
    BY <1>7 DEF ClickHeader, InPanel
  <2>2. panel' = [company |-> panel'.company, families |-> panel'.families,
                  flexible |-> panel'.flexible, sort |-> panel'.sort, dir |-> panel'.dir,
                  title_q |-> panel'.title_q, include_closed |-> panel'.include_closed]
    BY <1>7 DEF ClickHeader, PanelUrl
  <2> QED BY <1>6, <1>7, <2>1, <2>2, HeadersReadBack
<1>8. ASSUME NEW q, NEW closed, NarrowRoles(q, closed) PROVE PanelOK' /\ [Kept]_vars
  <2>1. InPanel /\ pc = "panel"
    BY <1>8 DEF NarrowRoles, InPanel
  <2>2. panel' = [company |-> panel'.company, families |-> panel'.families,
                  flexible |-> panel'.flexible, sort |-> panel'.sort, dir |-> panel'.dir,
                  title_q |-> panel'.title_q, include_closed |-> panel'.include_closed]
    <3>1. /\ panel = [company |-> panel.company, families |-> panel.families,
                      flexible |-> panel.flexible, sort |-> panel.sort, dir |-> panel.dir,
                      title_q |-> panel.title_q, include_closed |-> panel.include_closed]
          /\ panel' = [panel EXCEPT !.sort = Controls(panel).sort,
                                    !.dir = IF Controls(panel).descending THEN "desc" ELSE "asc",
                                    !.title_q = q, !.include_closed = closed]
      BY <1>8, <2>1 DEF NarrowRoles, PanelOK
    <3> QED BY <3>1
  <2> QED BY <1>6, <1>8, <2>1, <2>2, NarrowingReadsBack
<1>9. ASSUME ShowEveryRole PROVE PanelOK' /\ [Kept]_vars
  <2>1. InPanel /\ pc = "panel"
    BY <1>9 DEF ShowEveryRole, InPanel
  <2>2. panel' = [company |-> panel'.company, families |-> panel'.families,
                  flexible |-> panel'.flexible, sort |-> panel'.sort, dir |-> panel'.dir,
                  title_q |-> panel'.title_q, include_closed |-> panel'.include_closed]
    BY <1>9 DEF ShowEveryRole, PanelUrl
  <2> QED BY <1>6, <1>9, <2>1, <2>2, ShowingAllReadsBack
<1> QED BY <1>3, <1>4, <1>5, <1>7, <1>8, <1>9 DEF Next, Unfold

\* Through URLs that leave out what is at its default, the panel of an expanded row keeps what it
\* is not asked to change, and reverses the column it is sorted by (panel_controls,
\* panel_query_string).
THEOREM PanelsReadBack == Spec => PanelKeepsState
<1>1. Init => PanelOK
  BY DEF Init, PanelOK
<1>2. PanelOK /\ [Next]_vars => PanelOK' /\ [Kept]_vars
  BY PanelsKeep
<1>3. Spec => [][Kept]_vars
  BY <1>1, <1>2, PTL DEF Spec
<1> QED BY <1>3 DEF PanelKeepsState, Kept

(***************************************************************************)
(* The reader                                                              *)
(***************************************************************************)

UrlOK(u) ==
    /\ u = [view |-> u.view, cities |-> u.cities, metros |-> u.metros,
            families |-> u.families, tracking |-> u.tracking, amount_min |-> u.amount_min,
            flexible |-> u.flexible, open_roles |-> u.open_roles, closed |-> u.closed,
            sort |-> u.sort, cursor |-> u.cursor]
    /\ u.view \in {"companies", "roles"}

\* A list that is not refused has finitely many rows, and each a key.
LEMMA RowsAreKeyed ==
    ASSUME RowsInv, NEW u, UrlOK(u), ~ BadRequest(u)
    PROVE  /\ SortOf(u) \in CompanySort \union JobSort
           /\ IsFiniteSet(Matching(u)) /\ \A r \in Matching(u) : Keyed(SortOf(u), r)
<1>1. SortOf(u) \in SortsOf(u.view)
  BY DEF BadRequest
<1>2. CASE u.view = "companies"
  <2>1. SortOf(u) \in CompanySort
    BY <1>1, <1>2 DEF SortsOf
  <2>2. Matching(u) \subseteq CompanyId /\ \A r \in Matching(u) : company[r] \in CompanyRow
    BY <1>2 DEF Matching, CompanyRows, RowsInv, RowsOK
  <2>3. IsFiniteSet(Matching(u))
    BY <2>2, FS_Subset, ListingAssumption
  <2>4. ASSUME NEW r \in Matching(u) PROVE Keyed(SortOf(u), r)
    <3>1. /\ r \in Nat /\ company[r].open_job_count \in Nat
          /\ company[r].latest_job_posted_at \in Nat \union {Null} /\ NameOf[r] \in Nat
      BY <2>2, ListingAssumption DEF CompanyRow
    <3> QED BY <2>1, <3>1 DEF Keyed, SortKey, CompanySort
  <2> QED BY <2>1, <2>3, <2>4
<1>3. CASE u.view = "roles"
  <2>1. SortOf(u) \in JobSort
    BY <1>1, <1>3 DEF SortsOf
  <2>2. Matching(u) \subseteq JobId /\ \A r \in Matching(u) : job[r] \in JobRow
    BY <1>3 DEF Matching, JobRows, RowsInv, RowsOK
  <2>3. IsFiniteSet(Matching(u))
    BY <2>2, FS_Subset, ListingAssumption
  <2>4. ASSUME NEW r \in Matching(u) PROVE Keyed(SortOf(u), r)
    <3>1. /\ r \in Nat /\ PostedOf[r] \in Nat \union {Null} /\ NameOf[job[r].company] \in Nat
      BY <2>2, ListingAssumption DEF JobRow
    <3> QED BY <2>1, <3>1 DEF Keyed, SortKey, JobSort
  <2> QED BY <2>1, <2>3, <2>4
<1> QED BY <1>2, <1>3 DEF UrlOK

\* A page is what remains up to the cursor of the next one.
LEMMA PageIsUpToCursor ==
    ASSUME RowsInv, NEW u, UrlOK(u), ~ BadRequest(u)
    PROVE  /\ PageRows(u) \subseteq Remaining(u) /\ Remaining(u) \subseteq Matching(u)
           /\ NextCursor(u) = Null => PageRows(u) = Remaining(u)
           /\ NextCursor(u) # Null =>
                 /\ NextCursor(u) \in Cursor /\ NextCursor(u).sort = SortOf(u)
                 /\ NextCursor(u).id \in PageRows(u)
                 /\ NextCursor(u).key = SortKey(SortOf(u), NextCursor(u).id)
                 /\ \A r \in Remaining(u) : r \in PageRows(u) <=> ~ AfterCursor(NextCursor(u), r)
<1> DEFINE S == Remaining(u)
           sort == SortOf(u)
           page == PageRows(u)
           last == LastOf(sort, page)
           position == [sort |-> sort, key |-> SortKey(sort, last), id |-> last]
<1>1. /\ sort \in CompanySort \union JobSort
      /\ S \subseteq Matching(u) /\ IsFiniteSet(S) /\ \A r \in S : Keyed(sort, r)
  <2>1. S \subseteq Matching(u)
    BY DEF Remaining
  <2> QED BY <2>1, RowsAreKeyed, FS_Subset
<1>2. page = FirstOf(sort, S, Limit) /\ page \subseteq S
  BY DEF PageRows, FirstOf
<1>3. NextCursor(u) = IF Cardinality(FirstOf(sort, S, Limit + 1)) > Limit THEN position ELSE Null
  BY DEF NextCursor
<1>4. Limit \in Nat \ {0}
  BY ListingAssumption
<1> HIDE DEF S, sort, page, last
<1>5. /\ ~ Cardinality(FirstOf(sort, S, Limit + 1)) > Limit => page = S
      /\ Cardinality(FirstOf(sort, S, Limit + 1)) > Limit =>
            /\ last \in page
            /\ \A r \in S : r \in page <=> ~ OrderBy(sort, last, r)
  BY <1>1, <1>2, <1>4, PagesSplit DEF last
<1>6. CASE Cardinality(FirstOf(sort, S, Limit + 1)) > Limit
  <2>1. last \in S /\ last \in page /\ Keyed(sort, last)
    BY <1>1, <1>2, <1>5, <1>6
  <2>2. position \in Cursor
    BY <1>1, <2>1 DEF Keyed, Cursor
  <2>3. NextCursor(u) = position /\ NextCursor(u) # Null
    BY <1>3, <1>6, <2>2, NullIsNothing
  <2>4. position.sort = sort /\ position.key = SortKey(sort, last) /\ position.id = last
    OBVIOUS
  <2> HIDE DEF position
  <2>5. ASSUME NEW r \in S PROVE r \in page <=> ~ AfterCursor(position, r)
    <3>1. AfterCursor(position, r) <=> OrderBy(sort, last, r)
      BY <1>1, <2>1, <2>4, CursorIsTheOrder
    <3> QED BY <1>5, <1>6, <3>1
  <2> QED BY <1>1, <1>2, <2>1, <2>2, <2>3, <2>4, <2>5 DEF S, sort, page
<1>7. CASE ~ Cardinality(FirstOf(sort, S, Limit + 1)) > Limit
  <2>1. NextCursor(u) = Null /\ page = S
    BY <1>3, <1>5, <1>7
  <2> QED BY <1>1, <2>1 DEF S, page
<1> QED BY <1>6, <1>7

ReaderOK ==
    /\ pc = "browsing" =>
          /\ UrlOK(url) /\ ~ BadRequest(url)
          /\ steady \subseteq Matching(url)
          /\ next # Null => next \in Cursor /\ next.sort = SortOf(url) /\ shown # {}
          /\ SteadyRowsShownOnce
    /\ pc # "browsing" => again = {}

\* The first page.
LEMMA OpeningKeeps ==
    ASSUME RowsInv, ReaderOK, NEW u \in FormUrl, Open(u)
    PROVE  ReaderOK'
<1>1. again = {}
  BY DEF ReaderOK, Open
<1>2. CASE BadRequest(u)
  BY <1>2 DEF Open, Serve, ReaderOK
<1>3. CASE ~ BadRequest(u)
  <2>1. /\ url' = u /\ pc' = "browsing" /\ next' = NextCursor(u)
        /\ shown' = PageRows(u) /\ again' = {} /\ steady' = Matching(u)
        /\ company' = company /\ job' = job
    BY <1>1, <1>3 DEF Open, Serve, rows
  <2>2. UrlOK(u) /\ u.cursor = Null
    <3>1. /\ u = [view |-> u.view, cities |-> u.cities, metros |-> u.metros,
                  families |-> u.families, tracking |-> u.tracking,
                  amount_min |-> u.amount_min, flexible |-> u.flexible,
                  open_roles |-> u.open_roles, closed |-> u.closed,
                  sort |-> u.sort, cursor |-> Null]
          /\ u.view \in {"companies", "roles"}
      BY ListingAssumption
    <3>2. u.cursor = Null
      BY <3>1
    <3> QED BY <3>1, <3>2 DEF UrlOK
  <2>3. Remaining(u) = Matching(u)
    BY <2>2 DEF Remaining
  <2>4. Matching(url)' = Matching(u)
    BY <2>1 DEF Matching, CompanyRows, JobRows, CompanyPredicates, OpenJobsExist, OpenAt, JobsAt
  <2>5. \A r : AfterCursor(next, r)' <=> AfterCursor(next', r)
    BY <2>1 DEF AfterCursor, SortKey
  <2>6. ~ BadRequest(url)' /\ UrlOK(url)' /\ SortOf(url)' = SortOf(u)
    BY <1>3, <2>1, <2>2 DEF BadRequest, SortOf
  <2>7. next' # Null => next' \in Cursor /\ next'.sort = SortOf(u) /\ shown' # {}
    BY <1>3, <2>1, <2>2, PageIsUpToCursor
  <2>8. SteadyRowsShownOnce'
    <3>1. ASSUME NEW r \in steady'
          PROVE  r \in shown' <=> (next' = Null \/ ~ AfterCursor(next, r)')
      BY <1>3, <2>1, <2>2, <2>3, <2>5, PageIsUpToCursor
    <3> QED BY <2>1, <3>1 DEF SteadyRowsShownOnce
  <2> QED BY <2>1, <2>4, <2>6, <2>7, <2>8 DEF ReaderOK
<1> QED BY <1>2, <1>3

\* The page behind "load more".
LEMMA LoadingKeeps ==
    ASSUME RowsInv, ReaderOK, LoadMore
    PROVE  ReaderOK'
<1> DEFINE v == [url EXCEPT !.cursor = next]
<1>1. pc = "browsing" /\ next # Null /\ Serve(v, shown)
  BY DEF LoadMore
<1>2. /\ UrlOK(url) /\ ~ BadRequest(url) /\ steady \subseteq Matching(url)
      /\ next \in Cursor /\ next.sort = SortOf(url) /\ shown # {}
      /\ steady \intersect again = {}
      /\ \A r \in steady : r \in shown <=> ~ AfterCursor(next, r)
  BY <1>1 DEF ReaderOK, SteadyRowsShownOnce
<1>3. /\ UrlOK(v) /\ v.cursor = next /\ SortOf(v) = SortOf(url) /\ Filters(v) = Filters(url)
      /\ v.view = url.view /\ v.families = url.families /\ v.tracking = url.tracking
  BY <1>2 DEF UrlOK, SortOf, Filters
<1> HIDE DEF v
<1>4. ~ BadRequest(v)
  BY <1>2, <1>3 DEF BadRequest
<1>5. Matching(v) = Matching(url)
  BY <1>3 DEF Matching
<1>6. /\ url' = v /\ pc' = "browsing" /\ next' = NextCursor(v)
      /\ shown' = shown \union PageRows(v)
      /\ again' = again \union (shown \intersect PageRows(v)) /\ steady' = steady
      /\ company' = company /\ job' = job
  BY <1>1, <1>2, <1>4 DEF Serve, rows
<1>7. Remaining(v) = {r \in Matching(url) : AfterCursor(next, r)}
  BY <1>1, <1>3, <1>5 DEF Remaining
<1>8. /\ PageRows(v) \subseteq Remaining(v)
      /\ NextCursor(v) = Null => PageRows(v) = Remaining(v)
      /\ NextCursor(v) # Null =>
                 /\ NextCursor(v) \in Cursor /\ NextCursor(v).sort = SortOf(v)
                 /\ NextCursor(v).id \in PageRows(v)
                 /\ NextCursor(v).key = SortKey(SortOf(v), NextCursor(v).id)
                 /\ \A r \in Remaining(v) : r \in PageRows(v) <=> ~ AfterCursor(NextCursor(v), r)
  BY <1>3, <1>4, PageIsUpToCursor
<1>9. \A r \in Matching(url) : Keyed(SortOf(url), r)
  BY <1>2, RowsAreKeyed
<1>10. Matching(url)' = Matching(v)
  BY <1>6 DEF Matching, CompanyRows, JobRows, CompanyPredicates, OpenJobsExist, OpenAt, JobsAt
<1>11. \A r : AfterCursor(next, r)' <=> AfterCursor(NextCursor(v), r)
  BY <1>6 DEF AfterCursor, SortKey
<1>12. ~ BadRequest(url)' /\ UrlOK(url)' /\ SortOf(url)' = SortOf(v)
  BY <1>3, <1>4, <1>6 DEF BadRequest, SortOf
<1>13. ASSUME NEW r \in steady, r \in shown, NextCursor(v) # Null
       PROVE  ~ AfterCursor(NextCursor(v), r)
  <2> DEFINE nx == NextCursor(v)
             q == nx.id
  <2>1. /\ nx \in Cursor /\ nx.sort = SortOf(url) /\ q \in Matching(url) /\ AfterCursor(next, q)
        /\ nx.key = SortKey(SortOf(url), q)
    BY <1>3, <1>7, <1>8, <1>13
  <2> HIDE DEF nx
  <2>2. Keyed(SortOf(url), q) /\ Keyed(SortOf(url), r) /\ ~ AfterCursor(next, r)
    BY <1>2, <1>9, <1>13, <2>1
  <2>3. ASSUME AfterCursor(nx, r) PROVE FALSE
    <3>1. OrderBy(SortOf(url), q, r)
      BY <2>1, <2>2, <2>3, CursorIsTheOrder
    <3>2. AfterCursor(next, r)
      BY <1>2, <2>1, <2>2, <3>1, CursorIsTransitive
    <3> QED BY <2>2, <3>2
  <2> QED BY <2>3 DEF nx
<1>14. ASSUME NEW r \in steady
       PROVE  /\ r \notin again'
              /\ r \in shown' <=> (next' = Null \/ ~ AfterCursor(next, r)')
  <2>1. r \in Matching(url) /\ r \notin again /\ (r \in shown <=> r \notin Remaining(v))
    BY <1>2, <1>7
  <2>2. r \notin again'
    BY <1>6, <1>8, <2>1
  <2>3. ASSUME r \in shown PROVE r \in shown' /\ (next' # Null => ~ AfterCursor(next, r)')
    BY <1>6, <1>11, <1>13, <2>3
  <2>4. ASSUME r \notin shown
        PROVE  r \in shown' <=> (next' = Null \/ ~ AfterCursor(next, r)')
    <3>1. r \in Remaining(v)
      BY <2>1, <2>4
    <3>2. r \in shown' <=> r \in PageRows(v)
      BY <1>6, <2>4
    <3>3. CASE NextCursor(v) = Null
      BY <1>6, <1>8, <3>1, <3>2, <3>3
    <3>4. CASE NextCursor(v) # Null
      <4>1. r \in PageRows(v) <=> ~ AfterCursor(NextCursor(v), r)
        BY <1>8, <3>1, <3>4
      <4> QED BY <1>6, <1>11, <3>2, <3>4, <4>1
    <3> QED BY <3>3, <3>4
  <2>5. r \in shown' <=> (next' = Null \/ ~ AfterCursor(next, r)')
    <3>1. CASE r \in shown
      BY <2>3, <3>1
    <3>2. CASE r \notin shown
      BY <2>4, <3>2
    <3> QED BY <3>1, <3>2
  <2> QED BY <2>2, <2>5
<1>15. SteadyRowsShownOnce'
  BY <1>6, <1>14 DEF SteadyRowsShownOnce
<1>16. next' # Null => next' \in Cursor /\ next'.sort = SortOf(url)' /\ shown' # {}
  BY <1>2, <1>6, <1>8, <1>12
<1> QED BY <1>2, <1>5, <1>6, <1>10, <1>12, <1>15, <1>16 DEF ReaderOK

\* Another sort under the cursor of this one is refused.
LEMMA EditingKeeps ==
    ASSUME ReaderOK, NEW s \in CompanySort \union JobSort, EditSort(s)
    PROVE  ReaderOK'
<1> DEFINE v == [url EXCEPT !.sort = s]
<1>1. pc = "browsing" /\ url.cursor # Null /\ s # SortOf(url) /\ Serve(v, shown)
  BY DEF EditSort
<1>2. UrlOK(url) /\ ~ BadRequest(url)
  BY <1>1 DEF ReaderOK
<1>3. v.sort = s /\ v.cursor = url.cursor
  BY <1>2 DEF UrlOK
<1> HIDE DEF v
<1>4. SortOf(v) = s
  BY <1>3, ListingAssumption DEF SortOf
<1>5. BadRequest(v)
  BY <1>1, <1>2, <1>3, <1>4 DEF BadRequest
<1>6. pc' = "refused" /\ again' = {}
  BY <1>1, <1>5 DEF Serve
<1> QED BY <1>6 DEF ReaderOK

\* What is written behind the reader takes rows out of steady, and moves none that stays.
LEMMA WritingKeeps ==
    ASSUME ReaderOK, World
    PROVE  ReaderOK'
<1>1. /\ pc' = pc /\ url' = url /\ next' = next /\ shown' = shown /\ again' = again
      /\ Steady
  BY DEF World, tab
<1>2. CASE pc # "browsing"
  BY <1>1, <1>2 DEF ReaderOK
<1>3. CASE pc = "browsing"
  <2>1. /\ UrlOK(url) /\ ~ BadRequest(url)
        /\ next # Null => next \in Cursor /\ next.sort = SortOf(url) /\ shown # {}
        /\ steady \intersect again = {}
        /\ \A r \in steady : r \in shown <=> (next = Null \/ ~ AfterCursor(next, r))
    BY <1>3 DEF ReaderOK, SteadyRowsShownOnce
  <2>2. UrlOK(url)' /\ ~ BadRequest(url)' /\ SortOf(url)' = SortOf(url)
    BY <1>1, <2>1 DEF UrlOK, BadRequest, SortOf
  <2>3. /\ steady' \subseteq steady /\ steady' \subseteq Matching(url)'
        /\ \A r \in steady' : SortKey(SortOf(url), r)' = SortKey(SortOf(url), r)
    BY <1>1 DEF Steady
  <2>4. ASSUME NEW r \in steady', next # Null
        PROVE  AfterCursor(next, r)' <=> AfterCursor(next, r)
    <3>1. SortKey(next.sort, r)' = SortKey(next.sort, r)
      <4>1. SortKey(SortOf(url), r)' = SortKey(SortOf(url), r)
        BY <2>3
      <4>2. next'.sort = SortOf(url)' /\ next.sort = SortOf(url)
        BY <1>1, <2>1, <2>2, <2>4
      <4>3. SortKey(next.sort, r)' = SortKey(SortOf(url), r)'
        BY <4>2 DEF SortKey
      <4>4. SortKey(next.sort, r) = SortKey(SortOf(url), r)
        BY <4>2
      <4> QED BY <4>1, <4>3, <4>4
    <3> QED BY <1>1, <3>1 DEF AfterCursor
  <2>5. SteadyRowsShownOnce'
    <3>1. ASSUME NEW r \in steady'
          PROVE  r \in shown' <=> (next' = Null \/ ~ AfterCursor(next, r)')
      <4>1. r \in steady /\ (r \in shown <=> (next = Null \/ ~ AfterCursor(next, r)))
        BY <2>1, <2>3
      <4>2. CASE next = Null
        BY <1>1, <4>1, <4>2
      <4>3. CASE next # Null
        BY <1>1, <2>4, <4>1, <4>3
      <4> QED BY <4>2, <4>3
    <3>2. steady' \intersect again' = {}
      BY <1>1, <2>1, <2>3
    <3> QED BY <3>1, <3>2 DEF SteadyRowsShownOnce
  <2> QED BY <1>1, <1>3, <2>1, <2>2, <2>3, <2>5 DEF ReaderOK
<1> QED BY <1>2, <1>3

\* Every step keeps what is shown and what is to come apart.
LEMMA NextKeepsReader ==
    ASSUME RowsInv, ReaderOK, [Next]_vars
    PROVE  ReaderOK'
<1>1. CASE Write
  <2>1. World
    BY <1>1 DEF Write, PostJob, CloseJob, Refresh, MergeCompanies, SaveNote
  <2> QED BY <2>1, WritingKeeps
<1>2. CASE Browse
  BY <1>2, OpeningKeeps, LoadingKeeps, EditingKeeps DEF Browse
<1>3. CASE \E c \in CompanyId : Expand(c)
  <2>1. pc' = "panel" /\ again' = {}
    BY <1>3 DEF Expand
  <2> QED BY <2>1 DEF ReaderOK
<1>4. CASE InPanel
  <2>1. pc = "panel" /\ pc' = pc /\ again' = again
    BY <1>4 DEF InPanel, tab
  <2> QED BY <2>1 DEF ReaderOK
<1>5. CASE UNCHANGED vars
  <2>1. /\ pc' = pc /\ url' = url /\ next' = next /\ shown' = shown /\ again' = again
        /\ steady' = steady /\ company' = company /\ job' = job
    BY <1>5 DEF vars
  <2>2. Matching(url)' = Matching(url)
    BY <2>1 DEF Matching, CompanyRows, JobRows, CompanyPredicates, OpenJobsExist, OpenAt, JobsAt,
                Filters
  <2>3. UrlOK(url)' = UrlOK(url) /\ BadRequest(url)' = BadRequest(url) /\ SortOf(url)' = SortOf(url)
    BY <2>1 DEF UrlOK, BadRequest, SortOf
  <2>4. SteadyRowsShownOnce' = SteadyRowsShownOnce
    BY <2>1 DEF SteadyRowsShownOnce, AfterCursor, SortKey
  <2> QED BY <2>1, <2>2, <2>3, <2>4 DEF ReaderOK
<1> QED
  BY <1>1, <1>2, <1>3, <1>4, <1>5 DEF Next, Unfold, ClickHeader, NarrowRoles, ShowEveryRole

\* Listing.SteadyRowsShownOnce: through any number of pages, and whatever runs, merges and
\* notes write between them, a row that goes on matching and keeps its sort key is shown once,
\* and never skipped: _order_by, _after_cursor and the LIMIT + 1 of the statement agree, on
\* ties and in the tail of NULLs too.
THEOREM SteadyRowsAreShownOnce == Spec => []SteadyRowsShownOnce
<1>1. Init => RowsInv /\ ReaderOK
  BY RowsInit DEF Init, ReaderOK
<1>2. RowsInv /\ ReaderOK /\ [Next]_vars => RowsInv' /\ ReaderOK'
  BY NextKeepsRows, NextKeepsReader
<1>3. ReaderOK => SteadyRowsShownOnce
  BY DEF ReaderOK, SteadyRowsShownOnce
<1> QED BY <1>1, <1>2, <1>3, PTL DEF Spec
=============================================================================
