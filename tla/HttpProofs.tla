----------------------------- MODULE HttpProofs -----------------------------
(***************************************************************************)
(* Proofs that the client keeps its promises to the hosts and to its       *)
(* callers: budget, spacing and robots.txt, and answers that are current,  *)
(* for any number of overlapping callers, hosts and origins.               *)
(***************************************************************************)
EXTENDS HttpClient, FiniteSetTheorems, TLAPS

USE HttpAssumption

(***************************************************************************)
(* Types                                                                   *)
(***************************************************************************)

Pc == {"idle", "robots", "budget", "slot", "sleep", "sent", "served", "backoff"}

CallerTypes ==
    /\ pc \in [Caller -> Pc]
    /\ req \in [Caller -> Req \cup {Null}]
    /\ try \in [Caller -> Try \cup {Null}]
    /\ \A c \in Caller : pc[c] # "idle" => req[c] # Null /\ try[c] # Null

LimitTypes ==
    /\ robots \in [Origin -> Rules \cup {Null}]
    /\ delay \in [Host -> 0..Far]
    /\ since \in [Host -> 0..Far \cup {Null}]
    /\ used \in [Host -> 0..Budget]
    /\ hostLock \in [Host -> Caller \cup {Null}]
    /\ robotsLock \in [Origin -> Caller \cup {Null}]
    /\ pages \in [Host -> Nat]

CacheTypes ==
    /\ page \in [Url -> Version]
    /\ cache \in [Url -> Entry \cup {Null}]

\* A server's answer is under way: the version it was made of is known.
Seen(c) == pc[c] = "served" => try[c].seen \in Version

Types == CallerTypes /\ LimitTypes /\ CacheTypes /\ \A c \in Caller : Seen(c)

\* The three parts are the whole.
LEMMA TypesAreTypeOK == Types => TypeOK
BY DEF Types, CallerTypes, LimitTypes, CacheTypes, TypeOK, Pc

\* One caller moves, the others do not.
Moves(c, p, r, t) ==
    /\ pc' = [pc EXCEPT ![c] = p]
    /\ req' = [req EXCEPT ![c] = r]
    /\ try' = [try EXCEPT ![c] = t]

\* A caller that is at work has a request and an attempt.
LEMMA AtWork ==
    ASSUME CallerTypes, NEW c \in Caller, pc[c] # "idle"
    PROVE  req[c] \in Req /\ try[c] \in Try
BY DEF CallerTypes

\* The first attempt of a kind at a host.
LEMMA NewTryType ==
    ASSUME NEW kind \in {"page", "robots"}, NEW h \in Host
    PROVE  /\ NewTry(kind, h) \in Try
           /\ NewTry(kind, h).kind = kind /\ NewTry(kind, h).host = h
           /\ NewTry(kind, h).wait = 0 /\ NewTry(kind, h).entry = Null
BY DEF NewTry, Try

\* A caller that moves with values of the right types keeps the types.
LEMMA MoveTypes ==
    ASSUME CallerTypes, NEW c \in Caller, NEW p \in Pc, NEW r \in Req \cup {Null},
           NEW t \in Try \cup {Null}, Moves(c, p, r, t),
           p # "idle" => r # Null /\ t # Null
    PROVE  /\ CallerTypes'
           /\ pc'[c] = p /\ req'[c] = r /\ try'[c] = t
           /\ \A d \in Caller \ {c} : pc'[d] = pc[d] /\ req'[d] = req[d] /\ try'[d] = try[d]
BY DEF CallerTypes, Moves

(***************************************************************************)
(* The invariant                                                           *)
(***************************************************************************)

OriginAt(c) == OriginOf[req[c].url]
Working(c, kind) == pc[c] # "idle" /\ try[c].kind = kind

\* A page is tried at the host of the url that is asked for.
Own(c) ==
    /\ pc[c] \in {"robots", "budget", "served"} => try[c].kind = "page"
    /\ Working(c, "page") => try[c].host = HostOf[req[c].url]

\* Who fetches a robots.txt is alone in it.
Holds(c) ==
    Working(c, "robots") => robotsLock[OriginAt(c)] = c /\ robots[OriginAt(c)] = Null

\* A page is past the rules of its origin.
Allowed(c) ==
    (RespectRobots /\ Working(c, "page") /\ pc[c] # "robots") =>
        /\ robots[OriginAt(c)] # Null
        /\ req[c].url \notin robots[OriginAt(c)].deny

\* A sleeper holds the host's lock, and sleeps long enough.
Sleeping(c) ==
    pc[c] = "sleep" =>
        /\ hostLock[try[c].host] = c
        /\ since[try[c].host] # Null
        /\ since[try[c].host] + try[c].wait >= MinInterval
        /\ (RespectRobots /\ Working(c, "page")) =>
              since[try[c].host] + try[c].wait >= robots[OriginAt(c)].delay

CallerInv(c) == Own(c) /\ Holds(c) /\ Allowed(c) /\ Sleeping(c)

\* A host waits at least as long as any of its origins asks.
Stretched ==
    \A u \in Url : robots[OriginOf[u]] # Null => delay[HostOf[u]] >= robots[OriginOf[u]].delay

\* Who has taken from the budget of a host and not yet sent its page.
Reserved(h) ==
    {c \in Caller : pc[c] \in {"slot", "sleep"} /\ try[c].kind = "page" /\ try[c].host = h}

Counted == \A h \in Host : pages[h] + Cardinality(Reserved(h)) <= used[h]

HttpInv == Types /\ Stretched /\ Counted /\ \A c \in Caller : CallerInv(c)

\* The invariant bounds what a host is sent.
LEMMA InvImpliesBudget == HttpInv => BudgetKept
<1> SUFFICES ASSUME HttpInv, NEW h \in Host PROVE pages[h] <= Budget
  BY DEF BudgetKept
<1>1. Reserved(h) \subseteq Caller
  BY DEF Reserved
<1>2. Cardinality(Reserved(h)) \in Nat
  BY <1>1, FS_Subset, FS_CardinalityType
<1>3. pages[h] \in Nat /\ used[h] \in 0..Budget
  BY DEF HttpInv, Types, LimitTypes
<1>4. pages[h] + Cardinality(Reserved(h)) <= used[h]
  BY DEF HttpInv, Counted
<1> QED BY <1>2, <1>3, <1>4

(***************************************************************************)
(* What one caller does, seen by the others                                *)
(***************************************************************************)

\* The locks, the slots and the rules change only for who may change them.
Minds(c) ==
    /\ \A h \in Host : hostLock[h] \notin {Null, c} =>
           hostLock'[h] = hostLock[h] /\ since'[h] = since[h]
    /\ \A o \in Origin : robotsLock[o] \notin {Null, c} => robotsLock'[o] = robotsLock[o]
    /\ \A o \in Origin : robots'[o] = robots[o] \/ (robots[o] = Null /\ robotsLock[o] = c)

\* The other callers are as they were.
Alone(c) ==
    \A d \in Caller \ {c} : pc'[d] = pc[d] /\ req'[d] = req[d] /\ try'[d] = try[d]

\* What holds of the others goes on to hold.
LEMMA OthersKept ==
    ASSUME HttpInv, NEW c \in Caller, Minds(c), Alone(c), NEW d \in Caller \ {c}
    PROVE  CallerInv(d)' /\ Seen(d)'
<1>1. pc'[d] = pc[d] /\ req'[d] = req[d] /\ try'[d] = try[d] /\ CallerInv(d) /\ Seen(d)
  BY DEF Alone, HttpInv, Types
<1>2. CASE pc[d] = "idle"
  BY <1>1, <1>2 DEF CallerInv, Own, Holds, Allowed, Sleeping, Working, Seen
<1>3. CASE pc[d] # "idle"
  <2>1. req[d] \in Req /\ try[d] \in Try
    BY <1>3, AtWork DEF HttpInv, Types
  <2>2. OriginAt(d) \in Origin /\ try[d].host \in Host /\ OriginAt(d)' = OriginAt(d)
    BY <1>1, <2>1 DEF Req, Try, OriginAt
  <2>3. Own(d)' /\ Seen(d)'
    BY <1>1 DEF CallerInv, Own, Working, Seen
  <2>4. Holds(d)'
    BY <1>1, <2>2 DEF CallerInv, Holds, Working, Minds
  <2>5. Allowed(d)'
    BY <1>1, <2>2 DEF CallerInv, Allowed, Working, Minds
  <2>6. Sleeping(d)'
    <3> SUFFICES ASSUME pc[d] = "sleep" PROVE Sleeping(d)'
      BY <1>1 DEF Sleeping
    <3>1. hostLock[try[d].host] = d
      BY <1>1 DEF CallerInv, Sleeping
    <3>2. hostLock'[try[d].host] = d /\ since'[try[d].host] = since[try[d].host]
      BY <2>2, <3>1 DEF Minds
    <3>3. (RespectRobots /\ Working(d, "page")) => robots'[OriginAt(d)] = robots[OriginAt(d)]
      BY <1>1, <2>2 DEF CallerInv, Allowed, Minds, Working
    <3> QED BY <1>1, <2>2, <3>2, <3>3 DEF CallerInv, Sleeping, Working
  <2> QED BY <2>3, <2>4, <2>5, <2>6 DEF CallerInv
<1> QED BY <1>2, <1>3

\* Nobody new is between the budget and the slot.
LEMMA CountKept ==
    ASSUME HttpInv, UNCHANGED <<pages, used>>,
           \A h \in Host : Reserved(h)' \subseteq Reserved(h)
    PROVE  Counted'
<1> SUFFICES ASSUME NEW h \in Host
             PROVE  pages'[h] + Cardinality(Reserved(h)') <= used'[h]
  BY DEF Counted
<1>1. Reserved(h) \subseteq Caller /\ Reserved(h)' \subseteq Reserved(h)
  BY DEF Reserved
<1>2. IsFiniteSet(Reserved(h))
  BY <1>1, FS_Subset
<1>3. /\ Cardinality(Reserved(h)') <= Cardinality(Reserved(h))
      /\ Cardinality(Reserved(h)) \in Nat /\ Cardinality(Reserved(h)') \in Nat
  BY <1>1, <1>2, FS_Subset, FS_CardinalityType
<1>4. pages[h] \in Nat /\ used[h] \in 0..Budget
  BY DEF HttpInv, Types, LimitTypes
<1> QED BY <1>3, <1>4 DEF HttpInv, Counted

(***************************************************************************)
(* Steps of a caller that leave the limits alone                           *)
(***************************************************************************)

\* A caller that moves without a slot, a lock or budget keeps the invariant.
LEMMA QuietStep ==
    ASSUME HttpInv, NEW c \in Caller, NEW p \in Pc, NEW r \in Req \cup {Null},
           NEW t \in Try \cup {Null}, Moves(c, p, r, t),
           p # "idle" => r # Null /\ t # Null,
           p \in {"slot", "sleep"} => t.kind = "robots",
           UNCHANGED <<limits, pages>>, CacheTypes',
           CallerInv(c)', Seen(c)'
    PROVE  HttpInv'
<1>1. CallerTypes' /\ pc'[c] = p /\ try'[c] = t /\ Alone(c)
  BY MoveTypes DEF HttpInv, Types, Alone
<1>2. LimitTypes' /\ Minds(c) /\ Stretched'
  BY DEF HttpInv, Types, LimitTypes, Minds, Stretched, limits
<1>3. \A d \in Caller : CallerInv(d)' /\ Seen(d)'
  BY <1>1, <1>2, OthersKept
<1>4. \A h \in Host : Reserved(h)' \subseteq Reserved(h)
  BY <1>1 DEF Reserved, Alone
<1>5. Counted'
  BY <1>4, CountKept DEF limits
<1> QED BY <1>1, <1>2, <1>3, <1>5 DEF HttpInv, Types

\* A request that ends keeps the invariant.
LEMMA LeaveStep ==
    ASSUME HttpInv, NEW c \in Caller, Leave(c), UNCHANGED <<limits, pages>>, CacheTypes'
    PROVE  HttpInv'
<1>1. Moves(c, "idle", Null, Null)
  BY DEF Leave, Moves
<1>2. pc'[c] = "idle"
  BY DEF Leave, HttpInv, Types, CallerTypes
<1>3. CallerInv(c)' /\ Seen(c)'
  BY <1>2 DEF CallerInv, Own, Holds, Allowed, Sleeping, Working, Seen
<1> QED BY <1>1, <1>3, QuietStep DEF Pc

\* Request, and the next hop of one.
LEMMA HopStep ==
    ASSUME HttpInv, NEW c \in Caller, NEW r \in Req,
           Moves(c, HopStart, r, NewTry("page", HostOf[r.url])),
           UNCHANGED <<limits, pages, cache, page>>
    PROVE  HttpInv'
<1> DEFINE t == NewTry("page", HostOf[r.url])
<1>1. HostOf[r.url] \in Host
  BY DEF Req
<1>2. t \in Try /\ t.kind = "page" /\ t.host = HostOf[r.url]
  BY <1>1, NewTryType
<1>3. r # Null /\ t # Null
  BY <1>2
<1>4. HopStart \in {"robots", "budget"} /\ (RespectRobots => HopStart = "robots")
  BY DEF HopStart
<1>5. CacheTypes'
  BY DEF HttpInv, Types, CacheTypes
<1> HIDE DEF t
<1>6. pc'[c] = HopStart /\ req'[c] = r /\ try'[c] = t
  BY <1>2, <1>4, MoveTypes DEF t, HttpInv, Types, CallerTypes, Moves
<1>7. CallerInv(c)' /\ Seen(c)'
  BY <1>2, <1>4, <1>6 DEF CallerInv, Own, Holds, Allowed, Sleeping, Working, Seen
<1> QED BY <1>2, <1>3, <1>4, <1>5, <1>7, QuietStep DEF t, Pc

\* request begins.
LEMMA RequestInv == ASSUME HttpInv, NEW c \in Caller, Request(c) PROVE HttpInv'
<1>1. PICK a \in Asked :
          /\ req' = [req EXCEPT ![c] = [url |-> a.url, method |-> a.method, hop |-> 0]]
          /\ try' = [try EXCEPT ![c] = NewTry("page", HostOf[a.url])]
  BY DEF Request
<1> DEFINE r == [url |-> a.url, method |-> a.method, hop |-> 0]
<1>2. r \in Req /\ r.url = a.url
  BY DEF Req
<1>3. Moves(c, HopStart, r, NewTry("page", HostOf[r.url]))
  BY <1>1, <1>2 DEF Request, Moves
<1> QED BY <1>2, <1>3, HopStep DEF Request, shared

\* A redirect is followed.
LEMMA RedirectedInv == ASSUME HttpInv, NEW c \in Caller, Redirected(c) PROVE HttpInv'
<1>1. PICK u \in Url :
          /\ req' = [req EXCEPT ![c] = [url |-> u, method |-> req[c].method, hop |-> req[c].hop + 1]]
          /\ try' = [try EXCEPT ![c] = NewTry("page", HostOf[u])]
  BY DEF Redirected
<1> DEFINE r == [url |-> u, method |-> req[c].method, hop |-> req[c].hop + 1]
<1>2. req[c] \in Req /\ req[c].hop < MaxRedirects
  BY AtWork DEF Redirected, HttpInv, Types
<1>3. r \in Req /\ r.url = u
  BY <1>2 DEF Req
<1>4. Moves(c, HopStart, r, NewTry("page", HostOf[r.url]))
  BY <1>1, <1>3 DEF Redirected, Moves
<1> QED BY <1>3, <1>4, HopStep DEF Redirected, shared

\* What a caller at work knows of itself.
LEMMA SelfFacts ==
    ASSUME HttpInv, NEW c \in Caller, pc[c] # "idle"
    PROVE  /\ req[c] \in Req /\ try[c] \in Try /\ req[c] # Null /\ try[c] # Null
           /\ OriginAt(c) \in Origin /\ try[c].host \in Host /\ HostOf[req[c].url] \in Host
           /\ try[c].kind \in {"page", "robots"} /\ try[c].wait \in 0..Far
           /\ CallerInv(c) /\ Seen(c)
<1>1. req[c] \in Req /\ try[c] \in Try
  BY AtWork DEF HttpInv, Types
<1>2. req[c] # Null /\ try[c] # Null
  BY <1>1
<1> QED BY <1>1, <1>2 DEF Req, Try, OriginAt, HttpInv, Types

\* A quiet step of a caller that keeps its request.
LEMMA QuietTry ==
    ASSUME HttpInv, NEW c \in Caller, pc[c] \notin {"idle", "robots"},
           NEW p \in Pc, NEW t \in Try,
           pc' = [pc EXCEPT ![c] = p], try' = [try EXCEPT ![c] = t],
           UNCHANGED <<req, limits, pages, page, cache>>,
           p \in {"budget", "sent", "served", "backoff", "slot"},
           p = "slot" => t.kind = "robots",
           p \in {"budget", "served"} => t.kind = "page",
           p = "served" => t.seen \in Version,
           t.kind = try[c].kind, t.host = try[c].host \/ t.kind = "robots"
    PROVE  HttpInv'
<1>1. Moves(c, p, req[c], t)
  BY DEF HttpInv, Types, CallerTypes, Moves
<1>2. CacheTypes' /\ t # Null
  BY DEF HttpInv, Types, CacheTypes
<1>3. req[c] \in Req /\ req[c] # Null /\ OriginAt(c) \in Origin
  BY SelfFacts
<1>4. pc'[c] = p /\ req'[c] = req[c] /\ try'[c] = t /\ OriginAt(c)' = OriginAt(c)
  BY <1>1, <1>2, <1>3, MoveTypes DEF HttpInv, Types, OriginAt
<1>5. CallerInv(c) /\ UNCHANGED <<robots, robotsLock>>
  BY DEF HttpInv, limits
<1>6. Own(c)' /\ Seen(c)'
  BY <1>4, <1>5 DEF CallerInv, Own, Working, Seen
<1>7. Holds(c)'
  BY <1>4, <1>5 DEF CallerInv, Own, Holds, Working
<1>8. Allowed(c)'
  BY <1>4, <1>5 DEF CallerInv, Own, Allowed, Working
<1>9. Sleeping(c)'
  BY <1>4 DEF Sleeping
<1>10. CallerInv(c)'
  BY <1>6, <1>7, <1>8, <1>9 DEF CallerInv
<1> QED BY <1>1, <1>2, <1>3, <1>6, <1>10, QuietStep

\* A redirect of a robots.txt is followed.
LEMMA RobotsRedirectedInv ==
    ASSUME HttpInv, NEW c \in Caller, RobotsRedirected(c) PROVE HttpInv'
<1>1. PICK h \in Host :
          try' = [try EXCEPT ![c] = [NewTry("robots", h) EXCEPT !.hop = try[c].hop + 1]]
  BY DEF RobotsRedirected
<1> DEFINE t == [NewTry("robots", h) EXCEPT !.hop = try[c].hop + 1]
<1>2. pc[c] # "idle" /\ try[c].kind = "robots" /\ try[c].hop < MaxRedirects
  BY DEF RobotsRedirected
<1>3. t \in Try /\ t.kind = "robots"
  BY <1>2, SelfFacts DEF NewTry, Try
<1>4. "slot" \in Pc
  BY DEF Pc
<1> HIDE DEF t
<1> QED BY <1>1, <1>2, <1>3, <1>4, QuietTry DEF t, RobotsRedirected, shared

\* The server deals with a request.
LEMMA ServeInv == ASSUME HttpInv, NEW c \in Caller, Serve(c) PROVE HttpInv'
<1> DEFINE t == [try[c] EXCEPT !.seen = page[req[c].url]]
<1>1. pc[c] = "sent" /\ try[c].kind = "page"
  BY DEF Serve
<1>2. page[req[c].url] \in Version
  BY <1>1, SelfFacts DEF Req, HttpInv, Types, CacheTypes
<1>3. t \in Try /\ t.kind = "page" /\ t.host = try[c].host /\ t.seen \in Version
  BY <1>1, <1>2, SelfFacts DEF Try
<1>4. try' = [try EXCEPT ![c] = t]
  BY DEF Serve
<1>6. "served" \in Pc
  BY DEF Pc
<1>7. pc' = [pc EXCEPT ![c] = "served"] /\ UNCHANGED <<req, limits, pages, page, cache>>
  BY DEF Serve, shared
<1> HIDE DEF t
<1> QED BY <1>1, <1>3, <1>4, <1>6, <1>7, QuietTry

\* An attempt that failed is repeated after a while.
LEMMA RetryInv == ASSUME HttpInv, NEW c \in Caller, Retry(c) PROVE HttpInv'
<1>1. PICK w \in Backoff :
          try' = [try EXCEPT ![c] = [NewTry(try[c].kind, try[c].host) EXCEPT
                     !.hop = try[c].hop, !.attempt = try[c].attempt + 1, !.wait = w]]
  BY DEF Retry
<1> DEFINE t == [NewTry(try[c].kind, try[c].host) EXCEPT
                     !.hop = try[c].hop, !.attempt = try[c].attempt + 1, !.wait = w]
<1>2. pc[c] \in {"sent", "served"} /\ try[c].attempt < MaxAttempts
  BY DEF Retry
<1>3. /\ try[c].kind \in {"page", "robots"} /\ try[c].host \in Host
      /\ try[c].hop \in 0..MaxRedirects /\ try[c].attempt + 1 \in 1..MaxAttempts
      /\ w \in 0..Far
  BY <1>2, SelfFacts DEF Try
<1>4. t \in Try /\ t.kind = try[c].kind /\ t.host = try[c].host
  BY <1>3 DEF NewTry, Try
<1>5. "backoff" \in Pc
  BY DEF Pc
<1>6. pc' = [pc EXCEPT ![c] = "backoff"] /\ UNCHANGED <<req, limits, pages, page, cache>>
  BY DEF Retry, shared
<1> HIDE DEF t
<1> QED BY <1>1, <1>2, <1>4, <1>5, <1>6, QuietTry DEF t

\* The wait before a retry is over.
LEMMA RetryNowInv == ASSUME HttpInv, NEW c \in Caller, RetryNow(c) PROVE HttpInv'
<1> DEFINE p == IF try[c].kind = "page" THEN "budget" ELSE "slot"
<1>1. pc[c] = "backoff" /\ UNCHANGED <<req, limits, pages, page, cache>>
  BY DEF RetryNow, shared
<1>2. /\ try[c] \in Try /\ try[c].kind \in {"page", "robots"}
      /\ try[c].kind = "page" => try[c].host = HostOf[req[c].url]
  BY <1>1, SelfFacts DEF CallerInv, Own, Working
<1>3. try' = [try EXCEPT ![c] = try[c]] /\ pc' = [pc EXCEPT ![c] = p]
  BY DEF RetryNow, HttpInv, Types, CallerTypes
<1>4. p \in Pc
  BY DEF Pc
<1> QED BY <1>1, <1>2, <1>3, <1>4, QuietTry

\* The rules of an origin are there: the page is tried, or denied.
LEMMA RobotsKnownInv == ASSUME HttpInv, NEW c \in Caller, RobotsKnown(c) PROVE HttpInv'
<1>1. /\ pc[c] = "robots" /\ robots[OriginAt(c)] # Null
      /\ Admit(c, robots[OriginAt(c)].deny)
      /\ UNCHANGED <<limits, pages, page, cache>>
  BY DEF RobotsKnown, OriginAt, shared
<1>2. CacheTypes'
  BY <1>1 DEF HttpInv, Types, CacheTypes
<1>3. CASE req[c].url \in robots[OriginAt(c)].deny
  BY <1>1, <1>2, <1>3, LeaveStep DEF Admit
<1>4. CASE req[c].url \notin robots[OriginAt(c)].deny
  <2> DEFINE t == NewTry("page", HostOf[req[c].url])
  <2>1. /\ req[c] \in Req /\ req[c] # Null /\ HostOf[req[c].url] \in Host
        /\ OriginAt(c) \in Origin
    BY <1>1, SelfFacts
  <2>2. t \in Try /\ t.kind = "page" /\ t.host = HostOf[req[c].url]
    BY <2>1, NewTryType
  <2>3. t # Null /\ "budget" \in Pc
    BY <2>2 DEF Pc
  <2>4. Moves(c, "budget", req[c], t)
    BY <1>1, <1>4 DEF Admit, HttpInv, Types, CallerTypes, Moves
  <2> HIDE DEF t
  <2>5. pc'[c] = "budget" /\ req'[c] = req[c] /\ try'[c] = t /\ OriginAt(c)' = OriginAt(c)
    BY <2>1, <2>2, <2>3, <2>4, MoveTypes DEF HttpInv, Types, OriginAt
  <2>6. UNCHANGED robots
    BY <1>1 DEF limits
  <2>7. CallerInv(c)' /\ Seen(c)'
    BY <1>1, <1>4, <2>2, <2>5, <2>6
    DEF CallerInv, Own, Holds, Allowed, Sleeping, Working, Seen
  <2> QED BY <1>1, <1>2, <2>1, <2>2, <2>3, <2>4, <2>7, QuietStep
<1> QED BY <1>3, <1>4

\* A request is answered, replayed or given up.
LEMMA EndInv ==
    ASSUME HttpInv, NEW c \in Caller, Answered(c) \/ NotModified(c) \/ GiveUp(c)
    PROVE  HttpInv'
<1>1. Leave(c) /\ UNCHANGED <<limits, pages>>
  BY DEF Answered, NotModified, GiveUp
<1>2. CASE UNCHANGED <<page, cache>>
  BY <1>1, <1>2, LeaveStep DEF HttpInv, Types, CacheTypes
<1>3. ASSUME NEW e \in Entry, cache' = [cache EXCEPT ![req[c].url] = e], UNCHANGED page
      PROVE  HttpInv'
  <2>1. CacheTypes'
    BY <1>3 DEF HttpInv, Types, CacheTypes
  <2> QED BY <1>1, <2>1, LeaveStep
<1>4. CASE Answered(c)
  <2>1. try[c].seen \in Version /\ pc[c] = "served" /\ UNCHANGED page
    BY <1>4 DEF Answered, HttpInv, Types, Seen
  <2> DEFINE e == [body |-> Body(c), tag |-> try[c].seen, age |-> 0]
  <2>2. e \in Entry
    BY <2>1 DEF Entry, Body
  <2>3. cache' = [cache EXCEPT ![req[c].url] = e] \/ UNCHANGED cache
    BY <1>4 DEF Answered
  <2> HIDE DEF e
  <2> QED BY <1>2, <1>3, <2>1, <2>2, <2>3
<1>5. CASE NotModified(c)
  <2>1. /\ pc[c] = "served" /\ try[c].entry # Null /\ UNCHANGED page
        /\ cache' = [cache EXCEPT ![req[c].url] = [try[c].entry EXCEPT !.age = 0]] \/ UNCHANGED cache
    BY <1>5 DEF NotModified
  <2>2. try[c].entry \in Entry
    BY <2>1, SelfFacts DEF Try
  <2>3. [try[c].entry EXCEPT !.age = 0] \in Entry
    BY <2>2 DEF Entry
  <2> QED BY <1>2, <1>3, <2>1, <2>3
<1>6. CASE GiveUp(c)
  BY <1>2, <1>6 DEF GiveUp, shared
<1> QED BY <1>4, <1>5, <1>6

(***************************************************************************)
(* Steps that change the limits                                            *)
(***************************************************************************)

\* A step of a caller that keeps what it knows of itself and minds the others.
LEMMA CallerStep ==
    ASSUME HttpInv, NEW c \in Caller, NEW p \in Pc, NEW r \in Req \cup {Null},
           NEW t \in Try \cup {Null}, Moves(c, p, r, t),
           p # "idle" => r # Null /\ t # Null,
           LimitTypes', UNCHANGED <<page, cache>>, Minds(c), Stretched', Counted',
           CallerInv(c)', Seen(c)'
    PROVE  HttpInv'
<1>1. CallerTypes' /\ Alone(c)
  BY MoveTypes DEF HttpInv, Types, Alone
<1>2. \A d \in Caller : CallerInv(d)' /\ Seen(d)'
  BY <1>1, OthersKept
<1> QED BY <1>1, <1>2 DEF HttpInv, Types, CacheTypes

\* A robots.txt is fetched under the lock of its origin.
LEMMA FetchRobotsInv == ASSUME HttpInv, NEW c \in Caller, FetchRobots(c) PROVE HttpInv'
<1> DEFINE t == NewTry("robots", HostOf[req[c].url])
           o == OriginAt(c)
<1>1. /\ pc[c] = "robots" /\ robotsLock[o] = Null /\ robots[o] = Null
      /\ robotsLock' = [robotsLock EXCEPT ![o] = c]
      /\ UNCHANGED <<page, cache, robots, delay, since, used, hostLock, pages>>
  BY DEF FetchRobots, OriginAt, shared
<1>2. req[c] \in Req /\ req[c] # Null /\ HostOf[req[c].url] \in Host /\ o \in Origin
  BY <1>1, SelfFacts
<1>3. t \in Try /\ t.kind = "robots"
  BY <1>2, NewTryType
<1>4. t # Null /\ "slot" \in Pc
  BY <1>3 DEF Pc
<1>5. Moves(c, "slot", req[c], t)
  BY DEF FetchRobots, HttpInv, Types, CallerTypes, Moves
<1> HIDE DEF t
<1>6. /\ pc'[c] = "slot" /\ req'[c] = req[c] /\ try'[c] = t /\ OriginAt(c)' = o /\ Alone(c)
  BY <1>2, <1>3, <1>4, <1>5, MoveTypes DEF HttpInv, Types, OriginAt, Alone
<1>7. LimitTypes' /\ Minds(c) /\ Stretched' /\ robotsLock'[o] = c
  BY <1>1, <1>2 DEF HttpInv, Types, LimitTypes, Minds, Stretched
<1>8. CallerInv(c)' /\ Seen(c)'
  BY <1>1, <1>3, <1>6, <1>7 DEF CallerInv, Own, Holds, Allowed, Sleeping, Working, Seen
<1>9. \A h \in Host : Reserved(h)' \subseteq Reserved(h)
  BY <1>3, <1>6 DEF Reserved, Alone
<1>10. Counted'
  BY <1>1, <1>9, CountKept
<1> QED BY <1>1, <1>2, <1>3, <1>4, <1>5, <1>7, <1>8, <1>10, CallerStep

\* A robots.txt is read: its delay stretches the host's, its rules let the page
\* pass or not, and the lock of the origin goes.
LEMMA RobotsAnsweredInv == ASSUME HttpInv, NEW c \in Caller, RobotsAnswered(c) PROVE HttpInv'
<1> DEFINE o == OriginAt(c)
           h == HostOf[req[c].url]
<1>1. PICK rules \in Rules :
          /\ robots' = [robots EXCEPT ![o] = rules]
          /\ delay' = [delay EXCEPT ![h] = IF rules.delay > @ THEN rules.delay ELSE @]
          /\ Admit(c, rules.deny)
  BY DEF RobotsAnswered, OriginAt
<1>2. /\ pc[c] = "sent" /\ try[c].kind = "robots"
      /\ robotsLock' = [robotsLock EXCEPT ![o] = Null]
      /\ UNCHANGED <<page, cache, since, used, hostLock, pages>>
  BY DEF RobotsAnswered, OriginAt, shared
<1>3. /\ req[c] \in Req /\ req[c] # Null /\ h \in Host /\ o \in Origin
      /\ robotsLock[o] = c /\ robots[o] = Null
  BY <1>2, SelfFacts DEF CallerInv, Holds, Working
<1>4. rules.delay \in 0..Far /\ rules # Null
  BY <1>1
<1>5. LimitTypes'
  BY <1>1, <1>2, <1>3, <1>4 DEF HttpInv, Types, LimitTypes
<1>6. Minds(c)
  BY <1>1, <1>2, <1>3 DEF HttpInv, Types, LimitTypes, Minds
<1>7. /\ robots'[o] = rules /\ delay'[h] >= rules.delay
      /\ \A q \in Origin \ {o} : robots'[q] = robots[q]
      /\ \A g \in Host : delay'[g] >= delay[g] /\ delay'[g] \in 0..Far /\ delay[g] \in 0..Far
  BY <1>1, <1>3, <1>4 DEF HttpInv, Types, LimitTypes
<1>8. Stretched'
  <2> SUFFICES ASSUME NEW u \in Url, robots'[OriginOf[u]] # Null
               PROVE  delay'[HostOf[u]] >= robots'[OriginOf[u]].delay
    BY DEF Stretched
  <2>1. CASE OriginOf[u] = o
    <3>1. HostOf[u] = h
      BY <1>3, <2>1 DEF OriginAt, Req
    <3> QED BY <1>7, <2>1, <3>1
  <2>2. CASE OriginOf[u] # o
    <3>1. OriginOf[u] \in Origin /\ HostOf[u] \in Host
      OBVIOUS
    <3>2. robots'[OriginOf[u]] = robots[OriginOf[u]]
      BY <1>7, <2>2, <3>1
    <3>3. robots[OriginOf[u]] \in Rules /\ delay[HostOf[u]] >= robots[OriginOf[u]].delay
      BY <3>1, <3>2 DEF HttpInv, Types, LimitTypes, Stretched
    <3>4. robots[OriginOf[u]].delay \in 0..Far
      BY <3>3
    <3> QED BY <1>7, <3>1, <3>2, <3>3, <3>4
  <2> QED BY <2>1, <2>2
<1>9. ASSUME Alone(c), pc'[c] \notin {"slot", "sleep"} PROVE Counted'
  <2>1. \A g \in Host : Reserved(g)' \subseteq Reserved(g)
    BY <1>9 DEF Reserved, Alone
  <2> QED BY <1>2, <2>1, CountKept
<1>10. CASE req[c].url \in rules.deny
  <2>1. Moves(c, "idle", Null, Null) /\ "idle" \in Pc
    BY <1>1, <1>10 DEF Admit, Leave, Moves, Pc
  <2>2. pc'[c] = "idle" /\ Alone(c)
    BY <2>1, MoveTypes DEF HttpInv, Types, Alone
  <2>3. CallerInv(c)' /\ Seen(c)'
    BY <2>2 DEF CallerInv, Own, Holds, Allowed, Sleeping, Working, Seen
  <2>4. Counted'
    BY <1>9, <2>2
  <2> QED BY <1>2, <1>5, <1>6, <1>8, <2>1, <2>3, <2>4, CallerStep
<1>11. CASE req[c].url \notin rules.deny
  <2> DEFINE t == NewTry("page", h)
  <2>1. t \in Try /\ t.kind = "page" /\ t.host = h
    BY <1>3, NewTryType
  <2>2. t # Null /\ "budget" \in Pc
    BY <2>1 DEF Pc
  <2>3. Moves(c, "budget", req[c], t)
    BY <1>1, <1>11 DEF Admit, HttpInv, Types, CallerTypes, Moves
  <2> HIDE DEF t
  <2>4. /\ pc'[c] = "budget" /\ req'[c] = req[c] /\ try'[c] = t /\ OriginAt(c)' = o
        /\ Alone(c)
    BY <1>3, <2>1, <2>2, <2>3, MoveTypes DEF HttpInv, Types, OriginAt, Alone
  <2>5. CallerInv(c)' /\ Seen(c)'
    BY <1>4, <1>7, <1>11, <2>1, <2>4 DEF CallerInv, Own, Holds, Allowed, Sleeping, Working, Seen
  <2>6. Counted'
    BY <1>9, <2>4
  <2> QED BY <1>2, <1>3, <1>5, <1>6, <1>8, <2>1, <2>2, <2>3, <2>5, <2>6, CallerStep
<1> QED BY <1>10, <1>11

\* Budget is taken, or the request ends.
LEMMA TakeBudgetInv == ASSUME HttpInv, NEW c \in Caller, TakeBudget(c) PROVE HttpInv'
<1> DEFINE h == try[c].host
<1>1. /\ pc[c] = "budget"
      /\ UNCHANGED <<page, cache, robots, delay, since, hostLock, robotsLock, pages>>
  BY DEF TakeBudget, shared
<1>2. /\ req[c] \in Req /\ try[c] \in Try /\ req[c] # Null /\ try[c] # Null
      /\ h \in Host /\ try[c].kind = "page" /\ CallerInv(c)
  BY <1>1, SelfFacts DEF CallerInv, Own
<1>3. CASE used[h] >= Budget
  <2>1. Leave(c) /\ UNCHANGED used
    BY <1>2, <1>3 DEF TakeBudget, HttpInv, Types, LimitTypes
  <2> QED BY <1>1, <2>1, LeaveStep DEF limits, HttpInv, Types, CacheTypes
<1>4. CASE used[h] < Budget
  <2>1. /\ used' = [used EXCEPT ![h] = @ + 1] /\ pc' = [pc EXCEPT ![c] = "slot"]
        /\ UNCHANGED <<req, try>>
    BY <1>4 DEF TakeBudget
  <2>2. Moves(c, "slot", req[c], try[c]) /\ "slot" \in Pc
    BY <2>1 DEF HttpInv, Types, CallerTypes, Moves, Pc
  <2>3. pc'[c] = "slot" /\ \A d \in Caller \ {c} : pc'[d] = pc[d]
    BY <1>2, <2>2, MoveTypes DEF HttpInv, Types
  <2>4. LimitTypes' /\ Minds(c) /\ Stretched'
    BY <1>1, <1>2, <1>4, <2>1 DEF HttpInv, Types, LimitTypes, Minds, Stretched
  <2>5. CallerInv(c)' /\ Seen(c)'
    BY <1>1, <1>2, <2>1, <2>3
    DEF CallerInv, Own, Holds, Allowed, Sleeping, Working, Seen, OriginAt
  <2>6. Counted'
    <3> SUFFICES ASSUME NEW g \in Host
                 PROVE  pages'[g] + Cardinality(Reserved(g)') <= used'[g]
      BY DEF Counted
    <3>1. Reserved(g) \subseteq Caller /\ c \notin Reserved(g)
      BY <1>1 DEF Reserved
    <3>2. IsFiniteSet(Reserved(g)) /\ Cardinality(Reserved(g)) \in Nat
      BY <3>1, FS_Subset, FS_CardinalityType
    <3>3. /\ pages[g] + Cardinality(Reserved(g)) <= used[g]
          /\ pages[g] \in Nat /\ used[g] \in 0..Budget
      BY DEF HttpInv, Counted, Types, LimitTypes
    <3>4. CASE g = h
      <4>1. Reserved(g)' = Reserved(g) \cup {c}
        BY <1>1, <1>2, <2>1, <2>3, <3>4 DEF Reserved
      <4>2. Cardinality(Reserved(g)') = Cardinality(Reserved(g)) + 1
        BY <3>1, <3>2, <4>1, FS_AddElement
      <4>3. used'[g] = used[g] + 1 /\ pages'[g] = pages[g]
        BY <1>1, <1>2, <2>1, <3>4 DEF HttpInv, Types, LimitTypes
      <4> QED BY <3>2, <3>3, <4>2, <4>3
    <3>5. CASE g # h
      <4>1. Reserved(g)' = Reserved(g)
        BY <1>2, <2>1, <2>3, <3>5 DEF Reserved
      <4>2. used'[g] = used[g] /\ pages'[g] = pages[g]
        BY <1>1, <2>1, <3>5 DEF HttpInv, Types, LimitTypes
      <4> QED BY <3>3, <4>1, <4>2
    <3> QED BY <3>4, <3>5
  <2> QED BY <1>1, <1>2, <2>2, <2>4, <2>5, <2>6, CallerStep
<1>5. used[h] \in Int
  BY <1>2 DEF HttpInv, Types, LimitTypes
<1> QED BY <1>3, <1>4, <1>5

\* A request goes out: its slot is the host's last, its budget is spent.
LEMMA SendInv ==
    ASSUME HttpInv, NEW c \in Caller, pc[c] \in {"slot", "sleep"}, Send(c),
           UNCHANGED <<page, cache, robots, delay, used, robotsLock, req>>,
           hostLock[try[c].host] \in {Null, c},
           hostLock' = hostLock \/ hostLock' = [hostLock EXCEPT ![try[c].host] = Null]
    PROVE  HttpInv'
<1> DEFINE h == try[c].host
           entry == IF try[c].kind = "page" /\ req[c].method = "GET"
                    THEN FreshEntry(req[c].url) ELSE Null
           t == [try[c] EXCEPT !.entry = entry]
<1>1. /\ req[c] \in Req /\ try[c] \in Try /\ req[c] # Null /\ h \in Host
      /\ try[c].kind \in {"page", "robots"} /\ CallerInv(c)
  BY SelfFacts
<1>2. entry \in Entry \cup {Null}
  BY <1>1 DEF FreshEntry, Req, HttpInv, Types, CacheTypes
<1>3. /\ since' = [since EXCEPT ![h] = 0]
      /\ pages' = [pages EXCEPT ![h] = IF try[c].kind = "page" THEN @ + 1 ELSE @]
      /\ pc' = [pc EXCEPT ![c] = "sent"]
      /\ try' = [try EXCEPT ![c].entry = entry]
  BY DEF Send
<1> HIDE DEF entry
<1>4. t \in Try /\ t.kind = try[c].kind /\ t.host = h
  BY <1>1, <1>2 DEF Try
<1>5. t # Null /\ "sent" \in Pc
  BY <1>4 DEF Pc
<1>6. try' = [try EXCEPT ![c] = t]
  BY <1>3
<1>7. Moves(c, "sent", req[c], t)
  BY <1>3, <1>6 DEF HttpInv, Types, CallerTypes, Moves
<1> HIDE DEF t
<1>8. pc'[c] = "sent" /\ try'[c] = t /\ Alone(c)
  BY <1>1, <1>4, <1>5, <1>7, MoveTypes DEF HttpInv, Types, Alone
<1>9. LimitTypes'
  BY <1>1, <1>3 DEF HttpInv, Types, LimitTypes
<1>10. Minds(c) /\ Stretched'
  BY <1>1, <1>3 DEF HttpInv, Types, LimitTypes, Minds, Stretched
<1>11. CallerInv(c)' /\ Seen(c)'
  BY <1>1, <1>4, <1>8
  DEF CallerInv, Own, Holds, Allowed, Sleeping, Working, Seen, OriginAt
<1>12. Counted'
  <2> SUFFICES ASSUME NEW g \in Host
               PROVE  pages'[g] + Cardinality(Reserved(g)') <= used'[g]
    BY DEF Counted
  <2>1. Reserved(g) \subseteq Caller
    BY DEF Reserved
  <2>2. IsFiniteSet(Reserved(g)) /\ Cardinality(Reserved(g)) \in Nat
    BY <2>1, FS_Subset, FS_CardinalityType
  <2>3. /\ pages[g] + Cardinality(Reserved(g)) <= used[g]
        /\ pages[g] \in Nat /\ used[g] \in 0..Budget
    BY DEF HttpInv, Counted, Types, LimitTypes
  <2>4. CASE g = h /\ try[c].kind = "page"
    <3>1. c \in Reserved(g) /\ Reserved(g)' = Reserved(g) \ {c}
      BY <1>8, <2>4 DEF Reserved, Alone
    <3>2. Cardinality(Reserved(g)') = Cardinality(Reserved(g)) - 1
      BY <2>2, <3>1, FS_RemoveElement, ZenonT(30)
    <3>3. pages'[g] = pages[g] + 1
      BY <1>1, <1>3, <2>4 DEF HttpInv, Types, LimitTypes
    <3> QED BY <2>2, <2>3, <3>2, <3>3
  <2>5. CASE ~ (g = h /\ try[c].kind = "page")
    <3>1. Reserved(g)' = Reserved(g)
      BY <1>8, <2>5 DEF Reserved, Alone
    <3>2. pages'[g] = pages[g]
      BY <1>1, <1>3, <2>5 DEF HttpInv, Types, LimitTypes
    <3> QED BY <2>3, <3>1, <3>2
  <2> QED BY <2>4, <2>5
<1> QED BY <1>1, <1>4, <1>5, <1>7, <1>9, <1>10, <1>11, <1>12, CallerStep

\* The interval of a host is what it asks for, and what the configuration does.
LEMMA IntervalFacts ==
    ASSUME LimitTypes, NEW h \in Host
    PROVE  Interval(h) \in 0..Far /\ Interval(h) >= MinInterval /\ Interval(h) >= delay[h]
BY DEF LimitTypes, Interval

\* A page waits as long as its own origin asks.
LEMMA OwnDelay ==
    ASSUME HttpInv, NEW c \in Caller, RespectRobots, Working(c, "page"), pc[c] # "robots"
    PROVE  /\ robots[OriginAt(c)].delay \in 0..Far
           /\ Interval(try[c].host) >= robots[OriginAt(c)].delay
<1>1. /\ req[c].url \in Url /\ try[c].host = HostOf[req[c].url] /\ OriginAt(c) \in Origin
      /\ robots[OriginAt(c)] # Null /\ try[c].host \in Host
  BY SelfFacts DEF CallerInv, Own, Allowed, Working, Req
<1>2. robots[OriginAt(c)] \in Rules
  BY <1>1 DEF HttpInv, Types, LimitTypes
<1>3. robots[OriginAt(c)].delay \in 0..Far
  BY <1>2
<1>4. delay[try[c].host] >= robots[OriginAt(c)].delay /\ delay[try[c].host] \in 0..Far
  BY <1>1 DEF HttpInv, Stretched, OriginAt, Types, LimitTypes
<1>5. Interval(try[c].host) \in 0..Far /\ Interval(try[c].host) >= delay[try[c].host]
  BY <1>1, IntervalFacts DEF HttpInv, Types
<1> QED BY <1>3, <1>4, <1>5

\* The slot is taken at once, or the caller sleeps under the host's lock.
LEMMA SlotInv == ASSUME HttpInv, NEW c \in Caller, Slot(c) PROVE HttpInv'
<1> DEFINE h == try[c].host
           wait == Interval(h) - since[h]
           t == [try[c] EXCEPT !.wait = wait]
<1>1. /\ pc[c] = "slot" /\ hostLock[h] = Null
      /\ UNCHANGED <<page, cache, robots, delay, used, robotsLock, req>>
  BY DEF Slot, shared
<1>2. CASE Send(c) /\ UNCHANGED hostLock
  BY <1>1, <1>2, SendInv
<1>3. ASSUME TooSoon(h), hostLock' = [hostLock EXCEPT ![h] = c],
             try' = [try EXCEPT ![c].wait = wait], pc' = [pc EXCEPT ![c] = "sleep"],
             UNCHANGED <<since, pages>>
      PROVE  HttpInv'
  <2>1. /\ req[c] \in Req /\ try[c] \in Try /\ req[c] # Null /\ h \in Host
        /\ try[c].kind \in {"page", "robots"} /\ CallerInv(c)
    BY <1>1, SelfFacts
  <2>2. /\ since[h] # Null /\ since[h] \in 0..Far /\ since[h] < Interval(h)
        /\ Interval(h) \in 0..Far /\ Interval(h) >= MinInterval
    BY <1>3, <2>1, IntervalFacts DEF TooSoon, HttpInv, Types, LimitTypes
  <2>3. wait \in 0..Far /\ since[h] + wait = Interval(h)
    BY <2>2
  <2> HIDE DEF wait
  <2>4. t \in Try /\ t.kind = try[c].kind /\ t.host = h /\ t.wait = wait
    BY <2>1, <2>3 DEF Try
  <2>5. t # Null /\ "sleep" \in Pc
    BY <2>4 DEF Pc
  <2>6. try' = [try EXCEPT ![c] = t]
    BY <1>3
  <2>7. Moves(c, "sleep", req[c], t)
    BY <1>1, <1>3, <2>6 DEF HttpInv, Types, CallerTypes, Moves
  <2> HIDE DEF t
  <2>8. pc'[c] = "sleep" /\ try'[c] = t /\ Alone(c) /\ OriginAt(c)' = OriginAt(c)
    BY <1>1, <2>1, <2>4, <2>5, <2>7, MoveTypes DEF HttpInv, Types, Alone, OriginAt
  <2>9. LimitTypes' /\ Minds(c) /\ Stretched' /\ hostLock'[h] = c
    BY <1>1, <1>3, <2>1 DEF HttpInv, Types, LimitTypes, Minds, Stretched
  <2>10. (RespectRobots /\ try[c].kind = "page") => Interval(h) >= robots[OriginAt(c)].delay
    BY <1>1, OwnDelay DEF Working
  <2>11. Own(c)' /\ Holds(c)' /\ Allowed(c)' /\ Seen(c)'
    BY <1>1, <2>1, <2>4, <2>8 DEF CallerInv, Own, Holds, Allowed, Working, Seen
  <2>12. Sleeping(c)'
    BY <1>1, <1>3, <2>2, <2>3, <2>4, <2>8, <2>9, <2>10 DEF Sleeping, Working
  <2>13. \A g \in Host : Reserved(g)' \subseteq Reserved(g)
    BY <1>1, <2>4, <2>8 DEF Reserved, Alone
  <2>14. Counted' /\ UNCHANGED <<page, cache>>
    BY <1>1, <1>3, <2>13, CountKept
  <2> QED BY <2>1, <2>4, <2>5, <2>7, <2>9, <2>11, <2>12, <2>14, CallerStep DEF CallerInv
<1> QED BY <1>2, <1>3 DEF Slot

\* A sleeper wakes, sends and gives the lock back.
LEMMA WakeInv == ASSUME HttpInv, NEW c \in Caller, Wake(c) PROVE HttpInv'
<1>1. /\ pc[c] = "sleep" /\ Send(c)
      /\ UNCHANGED <<page, cache, robots, delay, used, robotsLock, req>>
      /\ hostLock' = [hostLock EXCEPT ![try[c].host] = Null]
  BY DEF Wake, shared
<1>2. hostLock[try[c].host] = c
  BY <1>1, SelfFacts DEF CallerInv, Sleeping
<1> QED BY <1>1, <1>2, SendInv

(***************************************************************************)
(* Time and the world                                                      *)
(***************************************************************************)

\* Time passes: what a sleeper has slept is added to the age of the last slot.
LEMMA TickInv == ASSUME HttpInv, Tick PROVE HttpInv'
<1>1. UNCHANGED <<page, robots, delay, used, hostLock, robotsLock, pc, req, pages>>
  BY DEF Tick
<1>2. CacheTypes'
  <2>1. \A u \in Url : cache'[u] \in Entry \cup {Null}
    <3> SUFFICES ASSUME NEW u \in Url PROVE cache'[u] \in Entry \cup {Null}
      OBVIOUS
    <3>1. CASE cache[u] = Null
      BY <3>1 DEF Tick
    <3>2. CASE cache[u] # Null
      <4>1. cache[u] \in Entry
        BY <3>2 DEF HttpInv, Types, CacheTypes
      <4>2. Older(cache[u].age, CacheTtl) \in 0..CacheTtl
        BY <4>1 DEF Entry, Older
      <4>3. cache'[u] = [cache[u] EXCEPT !.age = Older(cache[u].age, CacheTtl)]
        BY <3>2 DEF Tick
      <4> QED BY <4>1, <4>2, <4>3 DEF Entry
    <3> QED BY <3>1, <3>2
  <2>2. cache' \in [Url -> Entry \cup {Null}]
    BY <2>1 DEF Tick
  <2> QED BY <1>1, <2>2 DEF HttpInv, Types, CacheTypes
<1>3. \A h \in Host :
          /\ since[h] = Null => since'[h] = Null
          /\ since[h] # Null =>
                /\ since'[h] \in 0..Far /\ since[h] \in 0..Far
                /\ since'[h] = since[h] + 1 \/ (since'[h] = Far /\ since[h] = Far)
  <2> TAKE h \in Host
  <2>1. since[h] \in 0..Far \cup {Null}
    BY DEF HttpInv, Types, LimitTypes
  <2>2. since'[h] = IF since[h] = Null THEN Null ELSE Older(since[h], Far)
    BY DEF Tick
  <2>3. ASSUME since[h] # Null
        PROVE  /\ Older(since[h], Far) \in 0..Far
               /\ Older(since[h], Far) = since[h] + 1
                  \/ (Older(since[h], Far) = Far /\ since[h] = Far)
    BY <2>1, <2>3 DEF Older
  <2> QED BY <2>1, <2>2, <2>3
<1>4. LimitTypes'
  <2>1. since' \in [Host -> 0..Far \cup {Null}]
    BY <1>3 DEF Tick
  <2> QED BY <1>1, <2>1 DEF HttpInv, Types, LimitTypes
<1>5. \A c \in Caller :
          \/ try'[c] = try[c] /\ (try[c] = Null \/ try[c].wait = 0)
          \/ /\ try[c] \in Try /\ try'[c] \in Try /\ try[c].wait \in 0..Far
             /\ try'[c].kind = try[c].kind /\ try'[c].host = try[c].host
             /\ try'[c].seen = try[c].seen /\ try'[c].wait = try[c].wait - 1
  <2> SUFFICES ASSUME NEW c \in Caller, try[c] # Null, try[c].wait # 0
               PROVE  /\ try[c] \in Try /\ try'[c] \in Try /\ try[c].wait \in 0..Far
                      /\ try'[c].kind = try[c].kind /\ try'[c].host = try[c].host
                      /\ try'[c].seen = try[c].seen /\ try'[c].wait = try[c].wait - 1
    BY DEF Tick
  <2>1. try[c] \in Try
    BY DEF HttpInv, Types, CallerTypes
  <2>2. try[c].wait - 1 \in 0..Far /\ try[c].wait \in 0..Far
    BY <2>1 DEF Try
  <2>3. try'[c] = [try[c] EXCEPT !.wait = try[c].wait - 1]
    BY DEF Tick
  <2> QED BY <2>1, <2>2, <2>3 DEF Try
<1>6. CallerTypes'
  <2>1. \A c \in Caller : try'[c] \in Try \cup {Null} /\ (try'[c] = Null => try[c] = Null)
    BY <1>5 DEF HttpInv, Types, CallerTypes
  <2>2. try' \in [Caller -> Try \cup {Null}]
    BY <2>1 DEF Tick
  <2> QED BY <1>1, <2>1, <2>2 DEF HttpInv, Types, CallerTypes
<1>7. \A c \in Caller : pc[c] # "idle" =>
          /\ try'[c].kind = try[c].kind /\ try'[c].host = try[c].host
          /\ try'[c].seen = try[c].seen
  BY <1>5
<1>8. Stretched'
  BY <1>1 DEF HttpInv, Stretched
<1>9. \A h \in Host : Reserved(h)' \subseteq Reserved(h)
  BY <1>1, <1>7 DEF Reserved
<1>10. Counted'
  BY <1>1, <1>9, CountKept
<1>11. ASSUME NEW c \in Caller PROVE CallerInv(c)' /\ Seen(c)'
  <2>1. CallerInv(c) /\ Seen(c) /\ OriginAt(c)' = OriginAt(c)
    BY <1>1 DEF HttpInv, Types, OriginAt
  <2>2. Own(c)' /\ Holds(c)' /\ Allowed(c)' /\ Seen(c)'
    BY <1>1, <1>7, <2>1 DEF CallerInv, Own, Holds, Allowed, Working, Seen
  <2>3. Sleeping(c)'
    <3> SUFFICES ASSUME pc[c] = "sleep" PROVE Sleeping(c)'
      BY <1>1 DEF Sleeping
    <3> DEFINE h == try[c].host
    <3>1. /\ h \in Host /\ try'[c].host = h /\ try[c].wait \in 0..Far /\ try[c] # Null
          /\ try'[c].kind = try[c].kind
      BY <1>7, SelfFacts
    <3>2. /\ hostLock[h] = c /\ since[h] # Null /\ since[h] + try[c].wait >= MinInterval
          /\ (RespectRobots /\ try[c].kind = "page") =>
                since[h] + try[c].wait >= robots[OriginAt(c)].delay
      BY <2>1 DEF CallerInv, Sleeping, Working
    <3>3. (RespectRobots /\ try[c].kind = "page") => robots[OriginAt(c)].delay \in 0..Far
      BY OwnDelay DEF Working
    <3>4. /\ since'[h] \in 0..Far /\ since[h] \in 0..Far
          /\ since'[h] = since[h] + 1 \/ (since'[h] = Far /\ since[h] = Far)
      BY <1>3, <3>1, <3>2
    <3>5. \/ try'[c].wait = try[c].wait
          \/ try'[c].wait = try[c].wait - 1 /\ try[c].wait # 0
      BY <1>5, <3>1 DEF Tick
    <3>6. since'[h] + try'[c].wait >= since[h] + try[c].wait \/ since'[h] + try'[c].wait >= Far
      BY <3>1, <3>4, <3>5
    <3>7. since'[h] # Null /\ since'[h] + try'[c].wait >= MinInterval
      BY <3>1, <3>2, <3>4, <3>5
    <3>8. (RespectRobots /\ try[c].kind = "page") =>
              since'[h] + try'[c].wait >= robots[OriginAt(c)].delay
      BY <3>1, <3>2, <3>3, <3>4, <3>5
    <3> QED BY <1>1, <2>1, <3>1, <3>2, <3>7, <3>8 DEF Sleeping, Working
  <2> QED BY <2>2, <2>3 DEF CallerInv
<1> QED BY <1>2, <1>4, <1>6, <1>8, <1>10, <1>11 DEF HttpInv, Types

\* Servers and other processes do not touch the client.
LEMMA WorldInv ==
    ASSUME HttpInv, NEW u \in Url, Edit(u) \/ StoreByOther(u) PROVE HttpInv'
<1>1. UNCHANGED <<limits, pc, req, try, pages>>
  BY DEF Edit, StoreByOther
<1>2. ASSUME Edit(u) PROVE CacheTypes'
  <2>1. page[u] \in Version /\ page[u] < MaxVersion
    BY <1>2 DEF Edit, HttpInv, Types, CacheTypes
  <2>2. page[u] + 1 \in Version
    BY <2>1 DEF Version
  <2> QED BY <1>2, <2>2 DEF Edit, HttpInv, Types, CacheTypes
<1>3. ASSUME StoreByOther(u) PROVE CacheTypes'
  <2>1. PICK v \in 0..page[u] : cache' = [cache EXCEPT ![u] = [body |-> v, tag |-> v, age |-> 0]]
    BY <1>3 DEF StoreByOther
  <2>2. v \in Version
    BY <2>1 DEF HttpInv, Types, CacheTypes, Version
  <2>3. [body |-> v, tag |-> v, age |-> 0] \in Entry
    BY <2>2 DEF Entry
  <2> QED BY <1>3, <2>1, <2>3 DEF StoreByOther, HttpInv, Types, CacheTypes
<1>4. CacheTypes'
  BY <1>2, <1>3
<1> QED BY <1>1, <1>4
  DEF HttpInv, Types, CallerTypes, LimitTypes, limits, Stretched, Counted, Reserved,
      CallerInv, Own, Holds, Allowed, Sleeping, Working, Seen, OriginAt

(***************************************************************************)
(* The invariant holds                                                     *)
(***************************************************************************)

\* At the start nobody is at work and nothing is known.
LEMMA HttpInit == Init => HttpInv
<1> SUFFICES ASSUME Init PROVE HttpInv
  OBVIOUS
<1>1. CallerTypes
  BY DEF Init, CallerTypes, Pc
<1>2. LimitTypes /\ Stretched
  BY DEF Init, LimitTypes, Stretched
<1>3. CacheTypes
  BY DEF Init, CacheTypes, Version
<1>4. \A c \in Caller : CallerInv(c) /\ Seen(c)
  BY DEF Init, CallerInv, Own, Holds, Allowed, Sleeping, Working, Seen
<1>5. \A h \in Host : Reserved(h) = {}
  BY DEF Init, Reserved
<1>6. Counted
  <2>1. Cardinality({}) = 0
    BY FS_EmptySet
  <2>2. \A h \in Host : pages[h] = 0 /\ used[h] = 0
    BY DEF Init
  <2>3. \A h \in Host : Cardinality(Reserved(h)) = 0
    BY <1>5, <2>1
  <2> QED BY <2>2, <2>3 DEF Counted
<1> QED BY <1>1, <1>2, <1>3, <1>4, <1>6 DEF HttpInv, Types

\* Every step of the client, of time and of the world keeps the invariant.
LEMMA HttpStep == HttpInv /\ [Next]_vars => HttpInv'
<1> SUFFICES ASSUME HttpInv, [Next]_vars PROVE HttpInv'
  OBVIOUS
<1>1. CASE UNCHANGED vars
  BY <1>1
  DEF vars, shared, limits, HttpInv, Types, CallerTypes, LimitTypes, CacheTypes, Stretched,
      Counted, Reserved, CallerInv, Own, Holds, Allowed, Sleeping, Working, Seen, OriginAt
<1>2. CASE Tick
  BY <1>2, TickInv
<1>3. ASSUME NEW u \in Url, Edit(u) \/ StoreByOther(u) PROVE HttpInv'
  BY <1>3, WorldInv
<1>4. ASSUME NEW c \in Caller, Request(c) \/ Serve(c) PROVE HttpInv'
  BY <1>4, RequestInv, ServeInv
<1>5. ASSUME NEW c \in Caller, Step(c) PROVE HttpInv'
  BY <1>5, RobotsKnownInv, FetchRobotsInv, RobotsAnsweredInv, RobotsRedirectedInv,
     TakeBudgetInv, SlotInv, WakeInv, EndInv, RedirectedInv, RetryInv, RetryNowInv
  DEF Step
<1> QED BY <1>1, <1>2, <1>3, <1>4, <1>5 DEF Next

\* The invariant, of every behaviour.
LEMMA HttpInvHolds == Spec => []HttpInv
<1> QED BY HttpInit, HttpStep, PTL DEF Spec

\* No host is sent more pages than its budget (_take_budget before _wait_for_slot),
\* for any number of overlapping callers, retries and redirect hops.
THEOREM BudgetIsKept == Spec => []BudgetKept
<1> QED BY HttpInvHolds, InvImpliesBudget, PTL

\* Every variable keeps its type.
THEOREM HttpTypeCorrect == Spec => []TypeOK
<1>1. HttpInv => TypeOK
  BY TypesAreTypeOK DEF HttpInv
<1> QED BY <1>1, HttpInvHolds, PTL

(***************************************************************************)
(* Spacing and robots.txt                                                  *)
(***************************************************************************)

\* Only a slot, or the end of a sleep, sends.
LEMMA WhoSends ==
    ASSUME HttpInv, [Next]_vars, NEW c \in Caller, Sends(c)
    PROVE  pc[c] \in {"slot", "sleep"} /\ ((Slot(c) /\ ~ TooSoon(try[c].host)) \/ Wake(c))
<1>1. pc[c] # "sent" /\ pc'[c] = "sent" /\ CallerTypes
  BY DEF Sends, HttpInv, Types
<1>2. ~ UNCHANGED vars
  BY <1>1 DEF vars
<1>3. ~ Tick /\ \A u \in Url : ~ Edit(u) /\ ~ StoreByOther(u)
  BY <1>1 DEF Tick, Edit, StoreByOther
<1>4. PICK d \in Caller : Request(d) \/ Serve(d) \/ Step(d)
  BY <1>2, <1>3 DEF Next
<1>5. ~ (Request(d) \/ Serve(d))
  BY <1>1 DEF Request, Serve, HopStart, CallerTypes
<1>6. ~ (RobotsKnown(d) \/ RobotsAnswered(d))
  BY <1>1 DEF RobotsKnown, RobotsAnswered, Admit, Leave, CallerTypes
<1>7. ~ (FetchRobots(d) \/ RobotsRedirected(d) \/ TakeBudget(d))
  BY <1>1 DEF FetchRobots, RobotsRedirected, TakeBudget, Leave, CallerTypes
<1>8. ~ (Answered(d) \/ NotModified(d) \/ GiveUp(d))
  BY <1>1 DEF Answered, NotModified, GiveUp, Leave, CallerTypes
<1>9. ~ (Redirected(d) \/ Retry(d) \/ RetryNow(d))
  BY <1>1 DEF Redirected, Retry, RetryNow, HopStart, CallerTypes
<1>10. Slot(d) \/ Wake(d)
  BY <1>4, <1>5, <1>6, <1>7, <1>8, <1>9 DEF Step
<1>11. d = c /\ (Slot(d) => ~ TooSoon(try[d].host))
  BY <1>1, <1>10 DEF Slot, Wake, Send, CallerTypes
<1> QED BY <1>10, <1>11 DEF Slot, Wake

\* Requests to a host are apart (_wait_for_slot sleeps with the host's lock held), and
\* pages keep the Crawl-delay of their own origin.
THEOREM RequestsAreSpaced == Spec => Spacing
<1>1. HttpInv /\ [Next]_vars => [\A c \in Caller : Sends(c) => Spaced(c)]_vars
  <2> SUFFICES ASSUME HttpInv, [Next]_vars, NEW c \in Caller, Sends(c),
                      since[try[c].host] # Null
               PROVE  Spaced(c)
    BY DEF Spaced
  <2> DEFINE h == try[c].host
  <2>1. pc[c] \in {"slot", "sleep"} /\ (~ TooSoon(h) \/ Wake(c))
    BY WhoSends
  <2>2. h \in Host /\ try[c].wait \in 0..Far /\ CallerInv(c)
    BY <2>1, SelfFacts
  <2>3. since[h] \in 0..Far
    BY <2>2 DEF HttpInv, Types, LimitTypes
  <2>4. Interval(h) \in 0..Far /\ Interval(h) >= MinInterval
    BY <2>2, IntervalFacts DEF HttpInv, Types
  <2>5. (RespectRobots /\ try[c].kind = "page") =>
            /\ robots[OriginAt(c)].delay \in 0..Far
            /\ Interval(h) >= robots[OriginAt(c)].delay
    BY <2>1, OwnDelay DEF Working
  <2>6. CASE ~ TooSoon(h)
    <3>1. since[h] >= Interval(h)
      BY <2>3, <2>4, <2>6 DEF TooSoon
    <3> QED BY <2>3, <2>4, <2>5, <3>1 DEF Spaced, OriginAt
  <2>7. CASE Wake(c)
    <3>1. pc[c] = "sleep" /\ try[c].wait = 0
      BY <2>7 DEF Wake
    <3>2. /\ since[h] + 0 >= MinInterval
          /\ (RespectRobots /\ try[c].kind = "page") =>
                since[h] + 0 >= robots[OriginAt(c)].delay
      BY <2>2, <3>1 DEF CallerInv, Sleeping, Working
    <3> QED BY <2>3, <3>2 DEF Spaced, OriginAt
  <2> QED BY <2>1, <2>6, <2>7
<1> QED BY <1>1, HttpInvHolds, PTL DEF Spec, Spacing

\* Every page request, of any hop or attempt, is allowed by the robots.txt of its own
\* origin (_check_robots, once per hop).
THEOREM RobotsAreObeyed == Spec => RobotsObeyed
<1> DEFINE Obeyed(c) ==
        (RespectRobots /\ Sends(c) /\ try[c].kind = "page") =>
            LET rules == robots[OriginOf[req[c].url]] IN
            rules # Null /\ req[c].url \notin rules.deny
<1>1. HttpInv /\ [Next]_vars => [\A c \in Caller : Obeyed(c)]_vars
  <2> SUFFICES ASSUME HttpInv, [Next]_vars, NEW c \in Caller, RespectRobots, Sends(c),
                      try[c].kind = "page"
               PROVE  /\ robots[OriginOf[req[c].url]] # Null
                      /\ req[c].url \notin robots[OriginOf[req[c].url]].deny
    OBVIOUS
  <2>1. pc[c] \in {"slot", "sleep"}
    BY WhoSends
  <2> QED BY <2>1, SelfFacts DEF CallerInv, Allowed, Working, OriginAt
<1> QED BY <1>1, HttpInvHolds, PTL DEF Spec, RobotsObeyed

(***************************************************************************)
(* Answers                                                                 *)
(***************************************************************************)

\* What is stored goes with its validator.
Matching(e) == e # Null => e.body = e.tag

\* An entry that a request was sent with, which only a GET is.
Conditional(c) ==
    pc[c] # "idle" => Matching(try[c].entry) /\ (try[c].entry # Null => req[c].method = "GET")

\* Answers that are current.
Given == {[body |-> b, truth |-> b] : b \in Version \cup {Null}}

AnswerInv ==
    /\ \A u \in Url : Matching(cache[u])
    /\ \A c \in Caller : Conditional(c)
    /\ answer \in [Caller -> Given \cup {Null}]

\* A caller that moves on with an entry that matches, and gets no answer or a current
\* one, keeps the invariant of the answers.
LEMMA AnswerMove ==
    ASSUME Types, AnswerInv, NEW c \in Caller, NEW p \in Pc, NEW r \in Req \cup {Null},
           NEW t \in Try \cup {Null}, Moves(c, p, r, t),
           p # "idle" => r # Null /\ t # Null,
           p # "idle" => Matching(t.entry) /\ (t.entry # Null => r.method = "GET"),
           \A u \in Url : Matching(cache'[u]),
           \/ UNCHANGED answer
           \/ \E a \in Given \cup {Null} : answer' = [answer EXCEPT ![c] = a]
    PROVE  AnswerInv'
<1>1. /\ pc'[c] = p /\ req'[c] = r /\ try'[c] = t
      /\ \A d \in Caller \ {c} : pc'[d] = pc[d] /\ req'[d] = req[d] /\ try'[d] = try[d]
  BY MoveTypes DEF Types
<1>2. \A d \in Caller : Conditional(d)'
  BY <1>1 DEF AnswerInv, Conditional, Matching
<1>3. answer' \in [Caller -> Given \cup {Null}]
  BY DEF AnswerInv
<1> QED BY <1>2, <1>3 DEF AnswerInv

\* A request that ends keeps it, if its answer is current and what it stores matches.
LEMMA AnswerLeave ==
    ASSUME Types, AnswerInv, NEW c \in Caller, Leave(c), \A u \in Url : Matching(cache'[u]),
           \/ UNCHANGED answer
           \/ \E a \in Given \cup {Null} : answer' = [answer EXCEPT ![c] = a]
    PROVE  AnswerInv'
<1>1. Moves(c, "idle", Null, Null) /\ "idle" \in Pc
  BY DEF Leave, Moves, Pc
<1> QED BY <1>1, AnswerMove

\* So does a step to an attempt that is not conditional.
LEMMA AnswerFresh ==
    ASSUME Types, AnswerInv, NEW c \in Caller, NEW p \in Pc, NEW r \in Req,
           NEW t \in Try, t.entry = Null, Moves(c, p, r, t), UNCHANGED <<cache, answer>>
    PROVE  AnswerInv'
<1>1. r # Null /\ t # Null /\ \A u \in Url : Matching(cache'[u])
  BY DEF AnswerInv
<1> QED BY <1>1, AnswerMove DEF Matching

\* And a step that keeps the attempt's entry.
LEMMA AnswerSame ==
    ASSUME Types, AnswerInv, NEW c \in Caller, pc[c] # "idle", NEW p \in Pc, NEW t \in Try,
           t.entry = try[c].entry,
           pc' = [pc EXCEPT ![c] = p], try' = [try EXCEPT ![c] = t],
           UNCHANGED <<req, cache, answer>>
    PROVE  AnswerInv'
<1>1. req[c] \in Req /\ req[c] # Null /\ t # Null
  BY AtWork DEF Types
<1>2. Moves(c, p, req[c], t)
  BY DEF Types, CallerTypes, Moves
<1>3. /\ Matching(t.entry) /\ (t.entry # Null => req[c].method = "GET")
      /\ \A u \in Url : Matching(cache'[u])
  BY DEF AnswerInv, Conditional
<1> QED BY <1>1, <1>2, <1>3, AnswerMove

\* Sending makes a GET conditional on what the cache has.
LEMMA AnswerSend ==
    ASSUME HttpInv, AnswerInv, NEW c \in Caller, pc[c] \in {"slot", "sleep"}, Send(c),
           UNCHANGED <<req, cache, answer>>
    PROVE  AnswerInv'
<1> DEFINE entry == IF try[c].kind = "page" /\ req[c].method = "GET"
                    THEN FreshEntry(req[c].url) ELSE Null
           t == [try[c] EXCEPT !.entry = entry]
<1>1. req[c] \in Req /\ try[c] \in Try /\ req[c] # Null
  BY SelfFacts
<1>2. /\ entry \in Entry \cup {Null} /\ Matching(entry)
      /\ entry # Null => req[c].method = "GET"
  BY <1>1 DEF FreshEntry, Req, HttpInv, Types, CacheTypes, AnswerInv, Matching
<1>3. try' = [try EXCEPT ![c].entry = entry] /\ pc' = [pc EXCEPT ![c] = "sent"]
  BY DEF Send
<1> HIDE DEF entry
<1>4. t \in Try /\ t.entry = entry
  BY <1>1, <1>2 DEF Try
<1>5. t # Null /\ "sent" \in Pc
  BY <1>4 DEF Pc
<1>6. Moves(c, "sent", req[c], t)
  BY <1>3 DEF HttpInv, Types, CallerTypes, Moves
<1>7. \A u \in Url : Matching(cache'[u])
  BY DEF AnswerInv
<1> HIDE DEF t
<1> QED BY <1>1, <1>2, <1>4, <1>5, <1>6, <1>7, AnswerMove DEF HttpInv

\* The page is tried or denied.
LEMMA AnswerAdmit ==
    ASSUME HttpInv, AnswerInv, NEW c \in Caller, pc[c] # "idle", NEW deny, Admit(c, deny),
           UNCHANGED <<cache, answer>>
    PROVE  AnswerInv'
<1> DEFINE t == NewTry("page", HostOf[req[c].url])
<1>1. \A u \in Url : Matching(cache'[u])
  BY DEF AnswerInv
<1>2. CASE req[c].url \in deny
  BY <1>1, <1>2, AnswerLeave DEF Admit, HttpInv
<1>3. CASE req[c].url \notin deny
  <2>1. req[c] \in Req /\ t \in Try /\ t.entry = Null
    BY SelfFacts, NewTryType
  <2>2. Moves(c, "budget", req[c], t) /\ "budget" \in Pc
    BY <1>3 DEF Admit, HttpInv, Types, CallerTypes, Moves, Pc
  <2> HIDE DEF t
  <2> QED BY <2>1, <2>2, AnswerFresh DEF HttpInv
<1> QED BY <1>2, <1>3

\* Steps that start an attempt.
LEMMA AnswerStarts ==
    ASSUME HttpInv, AnswerInv, NEW c \in Caller,
           Request(c) \/ Redirected(c) \/ FetchRobots(c) \/ RobotsRedirected(c) \/ Retry(c)
    PROVE  AnswerInv'
<1>1. CASE Request(c)
  <2>1. PICK a \in Asked :
            /\ req' = [req EXCEPT ![c] = [url |-> a.url, method |-> a.method, hop |-> 0]]
            /\ try' = [try EXCEPT ![c] = NewTry("page", HostOf[a.url])]
    BY <1>1 DEF Request
  <2> DEFINE r == [url |-> a.url, method |-> a.method, hop |-> 0]
             t == NewTry("page", HostOf[a.url])
  <2>2. r \in Req /\ HostOf[a.url] \in Host
    BY DEF Req
  <2>3. t \in Try /\ t.entry = Null /\ HopStart \in Pc
    BY <2>2, NewTryType DEF HopStart, Pc
  <2>4. Moves(c, HopStart, r, t) /\ answer' = [answer EXCEPT ![c] = Null] /\ UNCHANGED cache
    BY <1>1, <2>1 DEF Request, Moves, shared
  <2>5. r # Null /\ t # Null /\ \A u \in Url : Matching(cache'[u])
    BY <2>2, <2>3, <2>4 DEF AnswerInv
  <2> HIDE DEF r, t
  <2> QED BY <2>2, <2>3, <2>4, <2>5, AnswerMove DEF Matching, HttpInv
<1>2. CASE Redirected(c)
  <2>1. PICK u \in Url :
            /\ req' = [req EXCEPT ![c] = [url |-> u, method |-> req[c].method, hop |-> req[c].hop + 1]]
            /\ try' = [try EXCEPT ![c] = NewTry("page", HostOf[u])]
    BY <1>2 DEF Redirected
  <2> DEFINE r == [url |-> u, method |-> req[c].method, hop |-> req[c].hop + 1]
             t == NewTry("page", HostOf[u])
  <2>2. req[c] \in Req /\ req[c].hop < MaxRedirects /\ HostOf[u] \in Host
    BY <1>2, SelfFacts DEF Redirected
  <2>3. r \in Req
    BY <2>2 DEF Req
  <2>4. t \in Try /\ t.entry = Null /\ HopStart \in Pc
    BY <2>2, NewTryType DEF HopStart, Pc
  <2>5. Moves(c, HopStart, r, t) /\ UNCHANGED <<cache, answer>>
    BY <1>2, <2>1 DEF Redirected, Moves, shared
  <2> HIDE DEF r, t
  <2> QED BY <2>3, <2>4, <2>5, AnswerFresh DEF HttpInv
<1>3. ASSUME pc[c] # "idle", UNCHANGED <<req, cache, answer>>, NEW p \in Pc, NEW t \in Try,
             t.entry = Null, pc' = [pc EXCEPT ![c] = p], try' = [try EXCEPT ![c] = t]
      PROVE  AnswerInv'
  <2>1. req[c] \in Req
    BY <1>3, SelfFacts
  <2>2. Moves(c, p, req[c], t)
    BY <1>3 DEF HttpInv, Types, CallerTypes, Moves
  <2> QED BY <1>3, <2>1, <2>2, AnswerFresh DEF HttpInv
<1>4. CASE FetchRobots(c)
  <2> DEFINE t == NewTry("robots", HostOf[req[c].url])
  <2>1. /\ pc[c] # "idle" /\ pc' = [pc EXCEPT ![c] = "slot"] /\ try' = [try EXCEPT ![c] = t]
        /\ UNCHANGED <<req, cache, answer>>
    BY <1>4 DEF FetchRobots, shared
  <2>2. t \in Try /\ t.entry = Null /\ "slot" \in Pc
    BY <2>1, SelfFacts, NewTryType DEF Pc
  <2> HIDE DEF t
  <2> QED BY <1>3, <2>1, <2>2
<1>5. CASE RobotsRedirected(c)
  <2>1. PICK h \in Host :
            try' = [try EXCEPT ![c] = [NewTry("robots", h) EXCEPT !.hop = try[c].hop + 1]]
    BY <1>5 DEF RobotsRedirected
  <2> DEFINE t == [NewTry("robots", h) EXCEPT !.hop = try[c].hop + 1]
  <2>2. /\ pc[c] # "idle" /\ try[c].hop < MaxRedirects /\ pc' = [pc EXCEPT ![c] = "slot"]
        /\ UNCHANGED <<req, cache, answer>>
    BY <1>5 DEF RobotsRedirected, shared
  <2>3. t \in Try /\ t.entry = Null
    BY <2>2, SelfFacts DEF NewTry, Try
  <2>4. "slot" \in Pc
    BY DEF Pc
  <2> HIDE DEF t
  <2> QED BY <1>3, <2>1, <2>2, <2>3, <2>4 DEF t
<1>6. CASE Retry(c)
  <2>1. PICK w \in Backoff :
            try' = [try EXCEPT ![c] = [NewTry(try[c].kind, try[c].host) EXCEPT
                       !.hop = try[c].hop, !.attempt = try[c].attempt + 1, !.wait = w]]
    BY <1>6 DEF Retry
  <2> DEFINE t == [NewTry(try[c].kind, try[c].host) EXCEPT
                       !.hop = try[c].hop, !.attempt = try[c].attempt + 1, !.wait = w]
  <2>2. /\ pc[c] # "idle" /\ try[c].attempt < MaxAttempts /\ pc' = [pc EXCEPT ![c] = "backoff"]
        /\ UNCHANGED <<req, cache, answer>>
    BY <1>6 DEF Retry, shared
  <2>3. /\ try[c].kind \in {"page", "robots"} /\ try[c].host \in Host
        /\ try[c].hop \in 0..MaxRedirects /\ try[c].attempt + 1 \in 1..MaxAttempts
        /\ w \in 0..Far
    <3>1. try[c] \in Try /\ w \in 0..Far
      BY <2>2, SelfFacts
    <3> QED BY <2>2, <3>1 DEF Try
  <2>4. t \in Try /\ t.entry = Null
    BY <2>3 DEF NewTry, Try
  <2>5. "backoff" \in Pc
    BY DEF Pc
  <2> HIDE DEF t
  <2> QED BY <1>3, <2>1, <2>2, <2>4, <2>5 DEF t
<1> QED BY <1>1, <1>2, <1>4, <1>5, <1>6

\* Steps that go on with the attempt.
LEMMA AnswerGoesOn ==
    ASSUME HttpInv, AnswerInv, NEW c \in Caller,
           TakeBudget(c) \/ Slot(c) \/ Wake(c) \/ Serve(c) \/ RetryNow(c)
    PROVE  AnswerInv'
<1>1. /\ pc[c] # "idle" /\ UNCHANGED <<cache, answer>>
      /\ try[c] \in Try /\ \A u \in Url : Matching(cache'[u])
  BY SelfFacts DEF TakeBudget, Slot, Wake, Serve, RetryNow, shared, AnswerInv
<1>2. CASE TakeBudget(c)
  <2>1. \/ Leave(c)
        \/ pc' = [pc EXCEPT ![c] = "slot"] /\ try' = [try EXCEPT ![c] = try[c]] /\ UNCHANGED req
    BY <1>2 DEF TakeBudget, HttpInv, Types, CallerTypes
  <2>2. "slot" \in Pc
    BY DEF Pc
  <2> QED BY <1>1, <2>1, <2>2, AnswerLeave, AnswerSame DEF HttpInv
<1>3. CASE Slot(c)
  <2>1. CASE Send(c)
    BY <1>1, <1>3, <2>1, AnswerSend DEF Slot
  <2>2. ASSUME TooSoon(try[c].host),
               try' = [try EXCEPT ![c].wait = Interval(try[c].host) - since[try[c].host]],
               pc' = [pc EXCEPT ![c] = "sleep"], UNCHANGED req
        PROVE  AnswerInv'
    <3> DEFINE t == [try[c] EXCEPT !.wait = Interval(try[c].host) - since[try[c].host]]
    <3>1. try[c].host \in Host
      BY <1>1, SelfFacts
    <3>2. Interval(try[c].host) - since[try[c].host] \in 0..Far
      BY <2>2, <3>1, IntervalFacts DEF TooSoon, HttpInv, Types, LimitTypes
    <3>3. t \in Try /\ t.entry = try[c].entry
      BY <1>1, <3>2 DEF Try
    <3>4. try' = [try EXCEPT ![c] = t] /\ "sleep" \in Pc
      BY <2>2 DEF Pc
    <3> HIDE DEF t
    <3> QED BY <1>1, <2>2, <3>3, <3>4, AnswerSame DEF HttpInv
  <2> QED BY <1>3, <2>1, <2>2 DEF Slot
<1>4. CASE Wake(c)
  BY <1>1, <1>4, AnswerSend DEF Wake
<1>5. CASE Serve(c)
  <2> DEFINE t == [try[c] EXCEPT !.seen = page[req[c].url]]
  <2>1. page[req[c].url] \in Version
    BY <1>1, SelfFacts DEF Req, HttpInv, Types, CacheTypes
  <2>2. t \in Try /\ t.entry = try[c].entry
    BY <1>1, <2>1 DEF Try
  <2>3. /\ try' = [try EXCEPT ![c] = t] /\ pc' = [pc EXCEPT ![c] = "served"] /\ UNCHANGED req
        /\ "served" \in Pc
    BY <1>5 DEF Serve, Pc
  <2> HIDE DEF t
  <2> QED BY <1>1, <2>2, <2>3, AnswerSame DEF HttpInv
<1>6. CASE RetryNow(c)
  <2> DEFINE p == IF try[c].kind = "page" THEN "budget" ELSE "slot"
  <2>1. pc' = [pc EXCEPT ![c] = p] /\ try' = [try EXCEPT ![c] = try[c]] /\ UNCHANGED req
    BY <1>6 DEF RetryNow, HttpInv, Types, CallerTypes
  <2>2. p \in Pc
    BY DEF Pc
  <2> QED BY <1>1, <2>1, <2>2, AnswerSame DEF HttpInv
<1> QED BY <1>2, <1>3, <1>4, <1>5, <1>6

\* Steps that end a request.
LEMMA AnswerEnds ==
    ASSUME HttpInv, AnswerInv, NEW c \in Caller, Answered(c) \/ NotModified(c) \/ GiveUp(c)
    PROVE  AnswerInv'
<1>1. /\ Leave(c) /\ pc[c] # "idle"
      /\ req[c] \in Req /\ try[c] \in Try /\ Conditional(c) /\ \A u \in Url : Matching(cache[u])
  BY SelfFacts DEF Answered, NotModified, GiveUp, AnswerInv
<1>2. CASE GiveUp(c)
  BY <1>1, <1>2, AnswerLeave DEF GiveUp, shared, HttpInv
<1>3. CASE Answered(c)
  <2>1. pc[c] = "served" /\ try[c].seen \in Version /\ Body(c) \in Version \cup {Null}
    BY <1>3, SelfFacts DEF Answered, Seen, Body
  <2> DEFINE e == [body |-> Body(c), tag |-> try[c].seen, age |-> 0]
             a == [body |-> Body(c), truth |-> Body(c)]
  <2>2. a \in Given /\ answer' = [answer EXCEPT ![c] = a]
    BY <1>3, <2>1 DEF Answered, Answer, Given
  <2>3. \/ Storable(c) /\ cache' = [cache EXCEPT ![req[c].url] = e]
        \/ UNCHANGED cache
    BY <1>3 DEF Answered
  <2>4. Storable(c) => Matching(e)
    BY DEF Storable, Body, Matching
  <2> HIDE DEF e, a
  <2>5. \A u \in Url : Matching(cache'[u])
    BY <1>1, <2>3, <2>4 DEF HttpInv, Types, CacheTypes
  <2> QED BY <1>1, <2>2, <2>5, AnswerLeave DEF HttpInv
<1>4. CASE NotModified(c)
  <2> DEFINE e == [try[c].entry EXCEPT !.age = 0]
             a == [body |-> try[c].entry.body, truth |-> Body(c)]
  <2>1. /\ pc[c] = "served" /\ try[c].entry # Null /\ try[c].entry.tag = try[c].seen
        /\ answer' = [answer EXCEPT ![c] = a]
        /\ cache' = [cache EXCEPT ![req[c].url] = e] \/ UNCHANGED cache
    BY <1>4 DEF NotModified, Answer
  <2>2. try[c].entry \in Entry /\ try[c].seen \in Version
    BY <1>1, <2>1, SelfFacts DEF Try, Seen
  <2>3. try[c].entry.body = try[c].seen /\ Body(c) = try[c].seen
    BY <1>1, <2>1 DEF Conditional, Matching, Body
  <2>4. a \in Given
    BY <2>2, <2>3 DEF Given
  <2>5. Matching(e)
    BY <2>1, <2>2, <2>3 DEF Matching, Entry
  <2> HIDE DEF e, a
  <2>6. \A u \in Url : Matching(cache'[u])
    BY <1>1, <2>1, <2>5 DEF HttpInv, Types, CacheTypes
  <2> QED BY <1>1, <2>1, <2>4, <2>6, AnswerLeave DEF HttpInv
<1> QED BY <1>2, <1>3, <1>4

\* What the client answers goes on matching what the servers said.
LEMMA AnswerStep == HttpInv /\ AnswerInv /\ [Next]_vars => AnswerInv'
<1> SUFFICES ASSUME HttpInv, AnswerInv, [Next]_vars PROVE AnswerInv'
  OBVIOUS
<1>1. CASE UNCHANGED vars
  BY <1>1 DEF vars, shared, AnswerInv, Conditional, Matching
<1>2. CASE Tick
  <2>1. UNCHANGED <<pc, req, answer>>
    BY <1>2 DEF Tick
  <2>2. ASSUME NEW u \in Url PROVE Matching(cache'[u])
    <3>1. cache[u] # Null => cache[u] \in Entry /\ cache[u].body = cache[u].tag
      BY DEF HttpInv, Types, CacheTypes, AnswerInv, Matching
    <3>2. \/ cache'[u] = Null
          \/ cache[u] # Null /\ cache'[u] = [cache[u] EXCEPT !.age = Older(@, CacheTtl)]
      BY <1>2 DEF Tick
    <3> QED BY <3>1, <3>2 DEF Matching, Entry
  <2>3. ASSUME NEW c \in Caller, pc[c] # "idle" PROVE try'[c].entry = try[c].entry
    <3>1. try[c] \in Try
      BY <2>3, SelfFacts
    <3>2. try'[c] = try[c] \/ try'[c] = [try[c] EXCEPT !.wait = @ - 1]
      BY <1>2 DEF Tick
    <3> QED BY <3>1, <3>2 DEF Try
  <2> QED BY <2>1, <2>2, <2>3 DEF AnswerInv, Conditional, Matching
<1>3. ASSUME NEW u \in Url, Edit(u) \/ StoreByOther(u) PROVE AnswerInv'
  <2>1. UNCHANGED <<pc, req, try, answer>>
    BY <1>3 DEF Edit, StoreByOther
  <2>2. \A v \in Url : Matching(cache'[v])
    <3>1. CASE Edit(u)
      BY <3>1 DEF Edit, AnswerInv
    <3>2. CASE StoreByOther(u)
      <4>1. PICK v \in 0..page[u] : cache' = [cache EXCEPT ![u] = [body |-> v, tag |-> v, age |-> 0]]
        BY <3>2 DEF StoreByOther
      <4> QED BY <4>1 DEF Matching, AnswerInv, HttpInv, Types, CacheTypes
    <3> QED BY <1>3, <3>1, <3>2
  <2> QED BY <2>1, <2>2 DEF AnswerInv, Conditional, Matching
<1>4. ASSUME NEW c \in Caller, Request(c) \/ Serve(c) \/ Step(c) PROVE AnswerInv'
  <2>1. CASE RobotsKnown(c) \/ RobotsAnswered(c)
    <3>1. pc[c] # "idle" /\ UNCHANGED <<cache, answer>> /\ \E deny : Admit(c, deny)
      BY <2>1 DEF RobotsKnown, RobotsAnswered, shared
    <3> QED BY <3>1, AnswerAdmit
  <2> QED BY <1>4, <2>1, AnswerStarts, AnswerGoesOn, AnswerEnds DEF Step
<1> QED BY <1>1, <1>2, <1>3, <1>4 DEF Next

\* A caller is given what the server had when it answered, also when a 304 answers an
\* entry that other callers or processes replaced meanwhile.
THEOREM AnswersStayCurrent == Spec => []AnswersAreCurrent
<1>1. Init => AnswerInv
  BY DEF Init, AnswerInv, Conditional, Matching
<1>2. AnswerInv => AnswersAreCurrent
  BY DEF AnswerInv, AnswersAreCurrent, Given
<1> QED BY <1>1, <1>2, AnswerStep, HttpInvHolds, PTL DEF Spec
=============================================================================
