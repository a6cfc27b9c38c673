------------------------------- MODULE Review -------------------------------
(***************************************************************************)
(* merge-review (cli.py merge_review_once) and what its merges              *)
(* (db/queries.py merge_companies) do with the user's own writing, which    *)
(* the web application saves meanwhile: the note on a company               *)
(* (web/routes/companies.py save_note), the star on a role                  *)
(* (web/routes/roles.py toggle_bookmark).                                   *)
(*                                                                         *)
(* A merge is one transaction of many statements, and so is a request.      *)
(* What a merge has written is in its sitting until it commits; a statement *)
(* that PostgreSQL would block is a disabled action.  Connector runs, which *)
(* lock a company before they write its jobs, are in Resolution and Boards; *)
(* notes and bookmarks are written without that lock.                       *)
(***************************************************************************)
EXTENDS Naturals, FiniteSets

CONSTANTS
    Company,   \* ids of companies, compared to order a pair
    Job,       \* ids of jobs
    Lister,    \* Lister[j]: the company of job j when nothing is merged
    Posting,   \* Posting[j]: its external id
    PairId,    \* ids of merge candidates
    Suspected, \* Suspected[i]: the companies of candidate i, if it was raised
    Rank,      \* Rank[i]: its place in the queue (similarity DESC, id)
    Sitting,   \* merge-review processes, each run once
    Request,   \* concurrent requests of the web application
    Text,      \* texts of notes, each saved once
    MaxPosts,  \* bound: requests posted
    Null,      \* no row, no text
    Blank      \* a note with no content: what Save leaves of an untouched form

ASSUME ReviewAssumption ==
    /\ Company \subseteq Nat
    /\ Job \cap Company = {}
    /\ Lister \in [Job -> Company]
    /\ \A i, j \in Job : Lister[i] = Lister[j] /\ Posting[i] = Posting[j] => i = j
    /\ Suspected \in [PairId -> Company \X Company]
    /\ \A i \in PairId : Suspected[i][1] < Suspected[i][2]
    /\ \A i, j \in PairId : Suspected[i] = Suspected[j] => i = j
    /\ Rank \in [PairId -> Nat]
    /\ \A i, j \in PairId : Rank[i] = Rank[j] => i = j
    /\ MaxPosts \in Nat
    /\ Null \notin Text \cup {Blank} \cup Job /\ Null \notin Company /\ Null \notin BOOLEAN
    /\ Blank \notin Text

Note == Text \cup {Blank}

\* A line of the queue as a sitting read it: two companies, and of the summary
\* shown of each the jobs it counts.
Line == [id: PairId, a: Company, b: Company, aJobs: SUBSET Job, bJobs: SUBSET Job]

VARIABLES
    live,    \* the companies
    pair,    \* merge_candidates
    jobOf,   \* jobOf[j]: the company of job j
    mark,    \* mark[j]: job_bookmarks.starred
    note,    \* note[c]: the user_notes row of c
    sit,     \* sit[s]: a sitting and its merge
    req,     \* req[w]: a request
    posts,   \* requests posted
    unused   \* texts not saved yet

stored == <<live, pair, jobOf, mark, note>>
vars == <<live, pair, jobOf, mark, note, sit, req, posts, unused>>

NoLine == [id |-> Null, a |-> Null, b |-> Null, aJobs |-> {}, bJobs |-> {}]

Away == [pc |-> "away", page |-> {}, line |-> NoLine, stale |-> {}, keep |-> Null,
         drop |-> Null, rescued |-> {}, moved |-> {}, told |-> Null, wiped |-> FALSE,
         carried |-> FALSE, late |-> {}]

Gone == [Away EXCEPT !.pc = "gone"]

NoRequest == [pc |-> "idle", on |-> Null, text |-> Null]

JobsOf(c) == {j \in Job : jobOf[j] = c}

\* Some history of upserts, saves and toggles, and no merge yet.
Init ==
    /\ live = Company
    /\ \E raised \in SUBSET PairId :
        pair = [i \in PairId |-> IF i \in raised
                                 THEN [a |-> Suspected[i][1], b |-> Suspected[i][2], open |-> TRUE]
                                 ELSE Null]
    /\ jobOf = Lister
    /\ mark \in [Job -> {Null, TRUE, FALSE}]
    /\ note \in [Company -> {Null} \cup Note]
    /\ \A c, d \in Company : note[c] = note[d] /\ note[c] \in Text => c = d
    /\ sit = [s \in Sitting |-> Away]
    /\ req = [w \in Request |-> NoRequest]
    /\ posts = 0
    /\ unused = Text \ {note[c] : c \in Company}

-----------------------------------------------------------------------------
(***************************************************************************)
(* Locks                                                                   *)
(***************************************************************************)

Merging == {"rescue", "move", "readdrop", "readkeep", "wipe", "carry", "delete"}

\* s holds the row of company c FOR UPDATE.
Holds(s, c) == sit[s].pc \in Merging /\ c \in {sit[s].keep, sit[s].drop}

\* A row of user_notes (of company x) or job_bookmarks (of job x) that a request
\* has inserted or updated and not committed.
InFlight(x) == \E w \in Request : req[w].on = x /\ req[w].pc \in {"inserted", "written"}

Row(x) == IF x \in Company THEN note[x] ELSE mark[x]

\* A request that inserts a row holds its company, or job, FOR KEY SHARE.
KeyShared(x) == Row(x) = Null /\ \E w \in Request : req[w].on = x /\ req[w].pc = "written"

Twins(j, c) == {i \in JobsOf(c) : Posting[i] = Posting[j]}

\* The row of x is one a merge has moved away or deleted.
Locked(x) ==
    \E s \in Sitting :
        \/ x = sit[s].keep /\ sit[s].wiped
        \/ x = sit[s].drop /\ sit[s].carried
        \/ x \in sit[s].rescued

\* A merge has put a row of its own at x.
Taken(x) ==
    \E s \in Sitting :
        \/ x = sit[s].keep /\ sit[s].carried
        \/ \E j \in sit[s].rescued : x \in Twins(j, sit[s].keep)

-----------------------------------------------------------------------------
(***************************************************************************)
(* Requests                                                                *)
(***************************************************************************)

NextText == IF unused = {} THEN {} ELSE {CHOOSE t \in unused : TRUE}

\* save_note and toggle_bookmark find the company, or the job, they are about.
Post(w) ==
    /\ req[w].pc = "idle"
    /\ posts < MaxPosts
    /\ posts' = posts + 1
    /\ \/ \E c \in live, t \in NextText \cup {Blank} :
            /\ req' = [req EXCEPT ![w] = [pc |-> "found", on |-> c, text |-> t]]
            /\ unused' = unused \ {t}
       \/ \E j \in Job :
            /\ jobOf[j] # Null
            /\ req' = [req EXCEPT ![w] = [pc |-> "found", on |-> j, text |-> Null]]
            /\ UNCHANGED unused
    /\ UNCHANGED <<stored, sit>>

\* INSERT ... ON CONFLICT DO UPDATE: a stored row is updated.  A new one is in
\* the index, and then waits for the foreign key.
Write(w) ==
    LET x == req[w].on IN
    /\ req[w].pc = "found"
    /\ ~ InFlight(x) /\ ~ Locked(x) /\ ~ Taken(x)
    /\ req' = [req EXCEPT ![w].pc = IF Row(x) = Null THEN "inserted" ELSE "written"]
    /\ UNCHANGED <<stored, sit, posts, unused>>

Present(x) == IF x \in Company THEN x \in live ELSE jobOf[x] # Null

\* The foreign key check: merges hold the companies they merge and the jobs
\* they have moved.
Refer(w) ==
    LET x == req[w].on IN
    /\ req[w].pc = "inserted"
    /\ Present(x)
    /\ \A s \in Sitting : ~ Holds(s, x) /\ x \notin sit[s].moved
    /\ req' = [req EXCEPT ![w].pc = "written"]
    /\ UNCHANGED <<stored, sit, posts, unused>>

\* IntegrityError: the company or the job was merged away.
ReferFails(w) ==
    /\ req[w].pc = "inserted"
    /\ ~ Present(req[w].on)
    /\ req' = [req EXCEPT ![w] = NoRequest]
    /\ UNCHANGED <<stored, sit, posts, unused>>

\* What the merge of s has read of x it will not read again: the bookmarks
\* before the notes.
HasRead(s, x) ==
    IF x \in Job THEN sit[s].pc \in Merging \ {"rescue"}
    ELSE sit[s].pc \in {"readkeep", "wipe", "carry", "delete"}

\* The request commits and is answered.
Answer(w) ==
    LET x == req[w].on IN
    /\ req[w].pc = "written"
    /\ IF x \in Company
       THEN note' = [note EXCEPT ![x] = req[w].text] /\ UNCHANGED mark
       ELSE /\ mark' = [mark EXCEPT ![x] = IF @ = Null THEN TRUE ELSE ~ @]
            /\ UNCHANGED note
    /\ sit' = [s \in Sitting |-> IF HasRead(s, x) THEN [sit[s] EXCEPT !.late = @ \cup {x}]
                               ELSE sit[s]]
    /\ req' = [req EXCEPT ![w] = NoRequest]
    /\ UNCHANGED <<live, pair, jobOf, posts, unused>>

Serve(w) == Write(w) \/ Refer(w) \/ ReferFails(w) \/ Answer(w)

-----------------------------------------------------------------------------
(***************************************************************************)
(* A sitting: the queue                                                    *)
(***************************************************************************)

Elsewhere == UNCHANGED <<stored, req, posts, unused>>

LineOf(i) ==
    [id |-> i, a |-> pair[i].a, b |-> pair[i].b,
     aJobs |-> JobsOf(pair[i].a), bJobs |-> JobsOf(pair[i].b)]

\* merge_candidate_rows, once, before the first decision.
Open(s) ==
    /\ sit[s].pc = "away"
    /\ sit' = [sit EXCEPT ![s].pc = "page",
                          ![s].page = {LineOf(i) : i \in {k \in PairId :
                                                           pair[k] # Null /\ pair[k].open}}]
    /\ Elsewhere

\* The sitting is at its next line: what the last one was about is forgotten.
AtQueue(s) ==
    [Away EXCEPT !.pc = "page", !.page = sit[s].page, !.stale = sit[s].stale]

\* Mutant of CandidateIsOpen: the ids are not compared with the ones in hand.
CandidateExists(r) == pair[r.id] # Null /\ pair[r.id].open

\* _candidate_is_open
CandidateIsOpen(r) ==
    /\ pair[r.id] # Null /\ pair[r.id].open
    /\ pair[r.id].a = r.a /\ pair[r.id].b = r.b

\* The next line: left for the next sitting, or shown.
Offer(s) ==
    /\ sit[s].pc = "page"
    /\ \E r \in sit[s].page :
        /\ \A q \in sit[s].page : Rank[r.id] <= Rank[q.id]
        /\ LET current == CandidateIsOpen(r) /\ {r.a, r.b} \cap sit[s].stale = {} IN
           sit' = [sit EXCEPT ![s].page = @ \ {r},
                              ![s].line = IF current THEN r ELSE @,
                              ![s].pc = IF current THEN "shown" ELSE @]
    /\ Elsewhere

\* The end of the page, or of the reviewer's patience.
Leave(s) ==
    /\ \/ sit[s].pc = "page" /\ sit[s].page = {}
       \/ sit[s].pc = "shown"
    /\ sit' = [sit EXCEPT ![s] = Gone]
    /\ Elsewhere

Skip(s) ==
    /\ sit[s].pc = "shown"
    /\ sit' = [sit EXCEPT ![s] = AtQueue(s)]
    /\ Elsewhere

\* "n": the candidate is stamped, whatever it is about by now.
NotDuplicate(s) ==
    /\ sit[s].pc = "shown"
    /\ LET i == sit[s].line.id IN
       pair' = IF pair[i] = Null THEN pair ELSE [pair EXCEPT ![i].open = FALSE]
    /\ sit' = [sit EXCEPT ![s] = AtQueue(s)]
    /\ UNCHANGED <<live, jobOf, mark, note, req, posts, unused>>

\* "1" or "2"
Duplicate(s) ==
    /\ sit[s].pc = "shown"
    /\ LET r == sit[s].line IN
       \E keep \in {r.a, r.b} :
        sit' = [sit EXCEPT ![s] = [AtQueue(s) EXCEPT !.pc = "lock", !.keep = keep,
                                        !.drop = IF keep = r.a THEN r.b ELSE r.a]]
    /\ Elsewhere

-----------------------------------------------------------------------------
(***************************************************************************)
(* A merge                                                                 *)
(***************************************************************************)

\* Mutant of Lock: the rows that come back are not counted.
LockUnchecked(s) ==
    LET both == {sit[s].keep, sit[s].drop} IN
    /\ sit[s].pc = "lock"
    /\ \A c \in both : ~ KeyShared(c) /\ \A o \in Sitting : ~ Holds(o, c)
    /\ sit' = [sit EXCEPT ![s].pc = "rescue"]
    /\ Elsewhere

\* Both rows FOR UPDATE, in the order of their ids: no two merges wait for each
\* other, and both are taken here at once.
Lock(s) ==
    LET both == {sit[s].keep, sit[s].drop} IN
    /\ sit[s].pc = "lock"
    /\ both \subseteq live
    /\ \A c \in both : ~ KeyShared(c) /\ \A o \in Sitting : ~ Holds(o, c)
    /\ sit' = [sit EXCEPT ![s].pc = "rescue"]
    /\ Elsewhere

\* Mutant of NoSuchCompany: only the survivor is looked for.
NoSuchSurvivor(s) ==
    /\ sit[s].pc = "lock"
    /\ sit[s].keep \notin live
    /\ sit' = [sit EXCEPT ![s] = AtQueue(s)]
    /\ Elsewhere

\* ValueError: no such company.
NoSuchCompany(s) ==
    /\ sit[s].pc = "lock"
    /\ ~ {sit[s].keep, sit[s].drop} \subseteq live
    /\ sit' = [sit EXCEPT ![s] = AtQueue(s)]
    /\ Elsewhere

\* Mutant of Rescuable: the twin is looked up at the discarded company.
RescuableAtDrop(s) ==
    {j \in JobsOf(sit[s].drop) :
        mark[j] # Null /\ \E i \in Twins(j, sit[s].drop) : mark[i] = Null}

\* Bookmarks of the discarded company's duplicate jobs, where the survivor's
\* job has none.
Rescuable(s) ==
    {j \in JobsOf(sit[s].drop) :
        mark[j] # Null /\ \E i \in Twins(j, sit[s].keep) : mark[i] = Null}

RescueBlocked(s) ==
    \E j \in Rescuable(s) : InFlight(j) \/ \E i \in Twins(j, sit[s].keep) : InFlight(i)

\* _rescue_bookmarks
Rescue(s) ==
    /\ sit[s].pc = "rescue"
    /\ ~ RescueBlocked(s)
    /\ sit' = [sit EXCEPT ![s].pc = "move", ![s].rescued = Rescuable(s)]
    /\ Elsewhere

\* A request bookmarks the survivor's job first: the UPDATE collides with its row.
RescueCollides(s) ==
    /\ sit[s].pc = "rescue"
    /\ \E j \in Rescuable(s), w \in Request :
        /\ req[w].pc = "written"
        /\ req[w].on \in Twins(j, sit[s].keep)
    /\ sit' = [sit EXCEPT ![s] = AtQueue(s)]
    /\ Elsewhere

\* _move_guarded: the jobs the survivor does not have.
MoveJobs(s) ==
    LET free == {j \in JobsOf(sit[s].drop) : Twins(j, sit[s].keep) = {}} IN
    /\ sit[s].pc = "move"
    /\ \A j \in free : ~ KeyShared(j)
    /\ sit' = [sit EXCEPT ![s].pc = "readdrop", ![s].moved = free]
    /\ Elsewhere

\* _merge_user_notes, its first SELECT
ReadDropNote(s) ==
    /\ sit[s].pc = "readdrop"
    /\ LET n == note[sit[s].drop] IN
       sit' = [sit EXCEPT ![s].pc = IF n = Null THEN "delete" ELSE "readkeep", ![s].told = n]
    /\ Elsewhere

\* Mutant of ReadKeepNote: whatever the survivor has makes way.
ReadNoKeepNote(s) ==
    /\ sit[s].pc = "readkeep"
    /\ sit' = [sit EXCEPT ![s].pc = "wipe"]
    /\ Elsewhere

\* its second SELECT: a survivor's note with content stays
ReadKeepNote(s) ==
    /\ sit[s].pc = "readkeep"
    /\ sit' = [sit EXCEPT ![s].pc = IF note[sit[s].keep] \in Text THEN "delete" ELSE "wipe"]
    /\ Elsewhere

\* its DELETE of the survivor's blank note
WipeNote(s) ==
    /\ sit[s].pc = "wipe"
    /\ note[sit[s].keep] # Null => ~ InFlight(sit[s].keep)
    /\ sit' = [sit EXCEPT ![s].pc = "carry", ![s].wiped = note[sit[s].keep] # Null]
    /\ Elsewhere

\* its UPDATE of the discarded company's note
CarryNote(s) ==
    /\ sit[s].pc = "carry"
    /\ ~ InFlight(sit[s].drop) /\ ~ InFlight(sit[s].keep)
    /\ sit' = [sit EXCEPT ![s].pc = "delete", ![s].carried = TRUE]
    /\ Elsewhere

\* A request has put its note in the index and waits for the survivor's row;
\* the UPDATE waits for the request.  PostgreSQL ends one of the two.
Deadlocked(s, w) ==
    /\ sit[s].pc = "carry"
    /\ req[w].pc = "inserted" /\ req[w].on = sit[s].keep

MergeIsVictim(s) ==
    /\ \E w \in Request : Deadlocked(s, w)
    /\ sit' = [sit EXCEPT ![s] = AtQueue(s)]
    /\ Elsewhere

RequestIsVictim(w) ==
    /\ \E s \in Sitting : Deadlocked(s, w)
    /\ req' = [req EXCEPT ![w] = NoRequest]
    /\ UNCHANGED <<stored, sit, posts, unused>>

\* Mutant of Repointed: without NOT EXISTS.
RepointedTwice(keep, drop) ==
    LET other(p) == IF p.a = drop THEN p.b ELSE p.a
        onto(p) == IF keep < other(p) THEN [p EXCEPT !.a = keep, !.b = other(p)]
                   ELSE [p EXCEPT !.a = other(p), !.b = keep]
    IN  [i \in PairId |->
            IF pair[i] = Null \/ drop \notin {pair[i].a, pair[i].b} THEN pair[i]
            ELSE IF keep \in {pair[i].a, pair[i].b} \/ ~ pair[i].open THEN Null
                 ELSE onto(pair[i])]

\* _repoint_merge_candidates, and the cascade that takes what is left of drop.
Repointed(keep, drop) ==
    LET other(p) == IF p.a = drop THEN p.b ELSE p.a
        onto(p) == IF keep < other(p) THEN [p EXCEPT !.a = keep, !.b = other(p)]
                   ELSE [p EXCEPT !.a = other(p), !.b = keep]
        known(p) == \E i \in PairId : pair[i] # Null /\ pair[i].a = p.a /\ pair[i].b = p.b
    IN  [i \in PairId |->
            IF pair[i] = Null \/ drop \notin {pair[i].a, pair[i].b} THEN pair[i]
            ELSE IF keep \in {pair[i].a, pair[i].b} \/ ~ pair[i].open \/ known(onto(pair[i]))
                 THEN Null
                 ELSE onto(pair[i])]

\* DELETE, the rest of merge_companies, COMMIT.  The DELETE waits for the rows
\* its cascade takes.
Delete(s) ==
    LET keep == sit[s].keep
        drop == sit[s].drop
        left == JobsOf(drop) \ sit[s].moved
    IN  /\ sit[s].pc = "delete"
        /\ note[drop] # Null => ~ InFlight(drop)
        /\ \A j \in left : ~ KeyShared(j) /\ (mark[j] # Null => ~ InFlight(j))
        /\ live' = live \ {drop}
        /\ pair' = Repointed(keep, drop)
        /\ jobOf' = [j \in Job |-> IF j \in sit[s].moved THEN keep
                                   ELSE IF j \in left THEN Null ELSE jobOf[j]]
        /\ mark' = [j \in Job |->
                IF j \in left THEN Null
                ELSE IF \E i \in sit[s].rescued : j \in Twins(i, keep)
                     THEN mark[CHOOSE i \in sit[s].rescued : j \in Twins(i, keep)]
                     ELSE mark[j]]
        /\ note' = [note EXCEPT ![keep] = IF sit[s].carried THEN note[drop] ELSE @,
                                ![drop] = Null]
        /\ sit' = [sit EXCEPT ![s] =
                [AtQueue(s) EXCEPT !.pc = "report",
                                      !.told = IF sit[s].carried THEN Null ELSE sit[s].told,
                                      !.stale = IF sit[s].moved # {} THEN @ \cup {keep} ELSE @]]
        /\ UNCHANGED <<req, posts, unused>>

\* format_merge_result: the text of a note that could not be kept is printed.
Report(s) ==
    /\ sit[s].pc = "report"
    /\ sit' = [sit EXCEPT ![s] = AtQueue(s)]
    /\ Elsewhere

\* The process is killed: an open transaction is rolled back.
Kill(s) ==
    /\ sit[s].pc \notin {"away", "gone"}
    /\ sit' = [sit EXCEPT ![s] = Gone]
    /\ Elsewhere

Merge(s) ==
    \/ Lock(s) \/ NoSuchCompany(s) \/ Rescue(s) \/ RescueCollides(s) \/ MoveJobs(s)
    \/ ReadDropNote(s) \/ ReadKeepNote(s) \/ WipeNote(s) \/ CarryNote(s) \/ MergeIsVictim(s)
    \/ Delete(s) \/ Report(s)

Review(s) == Open(s) \/ Offer(s) \/ Leave(s) \/ Skip(s) \/ NotDuplicate(s) \/ Duplicate(s)

Next ==
    \/ \E w \in Request : Post(w) \/ Serve(w) \/ RequestIsVictim(w)
    \/ \E s \in Sitting : Review(s) \/ Merge(s) \/ Kill(s)

Spec == Init /\ [][Next]_vars

-----------------------------------------------------------------------------
(***************************************************************************)
(* Properties                                                              *)
(***************************************************************************)

Steps == {"away", "gone", "page", "shown", "lock", "report"} \cup Merging

SitType ==
    [pc: Steps, page: SUBSET Line, line: Line \cup {NoLine}, stale: SUBSET Company,
     keep: Company \cup {Null}, drop: Company \cup {Null}, rescued: SUBSET Job,
     moved: SUBSET Job, told: Note \cup {Null}, wiped: BOOLEAN, carried: BOOLEAN,
     late: SUBSET (Company \cup Job)]

ReqType ==
    [pc: {"idle", "found", "inserted", "written"}, on: Company \cup Job \cup {Null},
     text: Note \cup {Null}]

\* The types of the variables; a stored job belongs to a company that exists.
TypeOK ==
    /\ live \subseteq Company
    /\ pair \in [PairId -> {Null} \cup [a: Company, b: Company, open: BOOLEAN]]
    /\ jobOf \in [Job -> {Null} \cup Company]
    /\ \A j \in Job : jobOf[j] \in live \cup {Null}
    /\ mark \in [Job -> {Null, TRUE, FALSE}]
    /\ note \in [Company -> {Null} \cup Note]
    /\ sit \in [Sitting -> SitType]
    /\ req \in [Request -> ReqType]
    /\ posts \in 0 .. MaxPosts
    /\ unused \subseteq Text

\* uq_merge_candidates, its check a < b and its foreign keys hold whatever is
\* merged: candidates name two companies that exist, in order, and no two the
\* same (_repoint_merge_candidates).
PairsWellFormed ==
    \A i \in PairId : pair[i] # Null =>
        /\ pair[i].a < pair[i].b
        /\ {pair[i].a, pair[i].b} \subseteq live
        /\ \A k \in PairId : pair[k] # Null /\ pair[k].a = pair[i].a /\ pair[k].b = pair[i].b
                => k = i

Commits(s) == sit[s].pc = "delete" /\ sit'[s].pc = "report"

\* A merge destroys no text: what the notes of its two companies said is on the
\* survivor or handed to the reviewer, unless a request saved one of them after
\* the merge had read it (_merge_user_notes).
NotesSurvive ==
    [][\A s \in Sitting :
        LET keep == sit[s].keep
            drop == sit[s].drop
        IN  Commits(s) /\ {keep, drop} \cap sit[s].late = {}
            => {note[keep], note[drop]} \cap Text \subseteq {note'[keep], sit'[s].told}]_vars

Starred(j) == mark[j] = TRUE

\* The star of job j is on the survivor of s, or was toggled under the merge.
StarStays(s, j) ==
    \/ \E i \in Job : Posting[i] = Posting[j] /\ jobOf'[i] = sit[s].keep /\ Starred(i)'
    \/ ({j} \cup Twins(j, sit[s].keep)) \cap sit[s].late # {}

\* A merge destroys no star: a posting of either company that was starred is
\* starred on the survivor, unless a request toggled a bookmark of it after the
\* rescue, or the survivor's own copy has the row of a star taken back.
StarsSurvive ==
    [][\A s \in Sitting : Commits(s) =>
        \A j \in JobsOf(sit[s].keep) \cup JobsOf(sit[s].drop) :
            Starred(j) => StarStays(s, j) \/ \E i \in Twins(j, sit[s].keep) : mark[i] = FALSE]_vars

\* No decision rests on a summary an earlier decision of the sitting has made
\* untrue (_candidate_is_open, _survivor_summary_changed): as long as no other
\* has begun, the pair shown is the stored one, with the jobs its companies have.
ShownIsCurrent ==
    \A s \in Sitting :
        sit[s].pc = "shown" /\ (\A o \in Sitting \ {s} : sit[o].pc = "away") =>
        LET r == sit[s].line IN
        /\ pair[r.id] = [a |-> r.a, b |-> r.b, open |-> TRUE]
        /\ r.aJobs = JobsOf(r.a) /\ r.bJobs = JobsOf(r.b)

InTransaction ==
    \/ \E s \in Sitting : sit[s].pc \in {"lock"} \cup Merging
    \/ \E w \in Request : req[w].pc # "idle"

\* Merges and requests never all wait: while one is in a transaction, one of
\* them goes on (PostgreSQL ends one of two that wait for each other).
NobodyStuck ==
    InTransaction =>
        \/ \E s \in Sitting : ENABLED Merge(s)
        \/ \E w \in Request : ENABLED (Serve(w) \/ RequestIsVictim(w))
=============================================================================
