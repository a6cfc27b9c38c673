------------------------------- MODULE Boards -------------------------------
(***************************************************************************)
(* Job boards: how the ATS connectors (ingest/connectors/ats.py) find the  *)
(* board of a company and keep to it, how its postings become jobs that    *)
(* open and close (ingest/pipeline.py _upsert_jobs, db/queries.py          *)
(* close_missing_jobs), and the columns of the company that count them     *)
(* (refresh_company_denormalized_columns, at the end of a run).            *)
(*                                                                         *)
(* Runs overlap: the scheduler runs one at a time, a command takes no lock *)
(* of it.  A record is upserted in one transaction, under the row lock of  *)
(* its company; the refresh is one statement, which reads the jobs in the  *)
(* snapshot taken when it starts.                                          *)
(***************************************************************************)
EXTENDS FieldMerge, FiniteSets

CONSTANTS
    Company,
    Ats,          \* the ATS connectors, each also the provider it serves
    Token,        \* board tokens
    IssuedBy,     \* IssuedBy[b]: the provider of board b
    Posting,      \* what a board lists
    Shells,       \* providers that answer 200 for accounts they do not have
    Process,      \* what executes runs
    MayRun,       \* MayRun[p]: the connectors process p runs
    Cron,         \* the process that is the scheduler
    MaxDiscovery, \* max_discovery_per_run
    MaxChanges,   \* bound: changes of the companies' pages and boards
    MaxCommands,  \* bound: runs of the other processes
    MaxFaults,    \* bound: failed requests and transactions, killed runs
    Gone,         \* a board that answers 404
    Shell         \* a board that answers 200 with nothing in it

AtsFields == {"ats_provider", "ats_token"}

ASSUME BoardAssumption ==
    /\ Ats \subseteq Connector \cap Value
    /\ Token \subseteq Value
    /\ IssuedBy \in [Token -> Ats]
    /\ Shells \subseteq Ats
    /\ AtsFields \subseteq Field
    /\ Cron \in Process
    /\ MayRun \in [Process -> SUBSET Ats]
    /\ MaxDiscovery \in Nat /\ MaxChanges \in Nat
    /\ MaxCommands \in Nat /\ MaxFaults \in Nat
    /\ Gone # Shell
    /\ \A s \in SUBSET Posting : s \notin {Null, Gone, Shell}

\* A job is known by its external_id, which tells its provider.
Job == Ats \X Posting
Listing == SUBSET Posting
Target == [company: Company, provider: Ats \cup {Null}, token: Token \cup {Null}]

\* AtsResult; rediscovery is the argument _discover was called with.
AtsResult == [company: Company, provider: Ats \cup {Null}, token: Token \cup {Null},
              payload: {Null} \cup Listing, discovered: BOOLEAN, rediscovery: BOOLEAN]

VARIABLES
    page,    \* page[c]: the board the pages of c name
    board,   \* board[b]: what its provider answers
    row,     \* the companies, their two ATS columns
    job,     \* job[c]: the jobs of c
    counted, \* the open jobs open_job_count and latest_job_posted_at are of
    run,     \* run[p]: the run of process p
    changes,
    commands,
    faults

world == <<page, board, changes>>
stored == <<row, job, counted>>
vars == <<page, board, row, job, counted, run, changes, commands, faults>>

NoRun == [conn |-> Null, stage |-> "idle", todo |-> {}, left |-> 0, result |-> Null,
          touched |-> {}, snap |-> [c \in Company |-> {}]]

\* Nothing is known of any board yet.
Init ==
    /\ page \in [Company -> Token \cup {Null}]
    /\ board \in [Token -> {Gone} \cup Listing]
    /\ \A b \in Token : board[b] # Gone <=> \E c \in Company : page[c] = b
    /\ row = [c \in Company |-> EmptyRow]
    /\ job = [c \in Company |-> [j \in Job |-> "absent"]]
    /\ counted = [c \in Company |-> {}]
    /\ run = [p \in Process |-> NoRun]
    /\ changes = 0
    /\ commands = 0
    /\ faults = 0

-----------------------------------------------------------------------------
(***************************************************************************)
(* The companies and their boards                                          *)
(***************************************************************************)

Change ==
    /\ changes < MaxChanges
    /\ changes' = changes + 1
    /\ UNCHANGED <<row, job, counted, run, commands, faults>>

\* A company opens board b and names it on its pages.
Moves(c, b) ==
    /\ Change
    /\ \E s \in Listing : board' = [board EXCEPT ![b] = s]
    /\ page' = [page EXCEPT ![c] = b]

\* A board is given up; the pages may still name it.
Retires(b) ==
    /\ Change
    /\ \E a \in {Gone} \cup (IF IssuedBy[b] \in Shells THEN {Shell} ELSE {}) :
        board' = [board EXCEPT ![b] = a]
    /\ UNCHANGED page

Relists(b) ==
    /\ Change
    /\ board[b] \notin {Gone, Shell}
    /\ \E s \in Listing : board' = [board EXCEPT ![b] = s]
    /\ UNCHANGED page

-----------------------------------------------------------------------------
(***************************************************************************)
(* A run: the work list, the fetch of each target                          *)
(***************************************************************************)

\* run_connector loads the work list (its order is left open).
Start(p, k) ==
    /\ run[p].stage = "idle"
    /\ k \in MayRun[p]
    /\ p = Cron \/ commands < MaxCommands
    /\ run' = [run EXCEPT ![p] =
          [NoRun EXCEPT !.conn = k, !.stage = "fetching", !.left = MaxDiscovery,
                        !.todo = {[company |-> c, provider |-> row[c].val["ats_provider"],
                                   token |-> row[c].val["ats_token"]] : c \in Company}]]
    /\ commands' = IF p = Cron THEN commands ELSE commands + 1
    /\ UNCHANGED <<world, stored, faults>>

\* The next target of the fetch: the record of the one before is upserted.
Next1(p, g) ==
    /\ run[p].stage = "fetching"
    /\ run[p].result = Null
    /\ g \in run[p].todo

\* Nothing to report of g.
Drop(p, g) == run' = [run EXCEPT ![p].todo = @ \ {g}]

\* Mutant of Yield: the probe and the record it leads to are both charged.
YieldChargedTwice(p, g, r) ==
    run' = [run EXCEPT ![p].todo = @ \ {g}, ![p].result = r,
                       ![p].left = IF r.discovered THEN @ - 2 ELSE @]

\* The record of g; a probe is charged to the budget of the run.
Yield(p, g, r) ==
    run' = [run EXCEPT ![p].todo = @ \ {g}, ![p].result = r,
                       ![p].left = IF r.discovered THEN @ - 1 ELSE @]

\* What _get_board makes of the answer for a token.
Payload(k, b) ==
    IF IssuedBy[b] = k /\ board[b] \notin {Gone, Shell} THEN board[b] ELSE Null

Is404(k, b) == IssuedBy[b] # k \/ board[b] = Gone

\* Mutant of Discovered: the board found is taken for one of the prober's own.
DiscoveredAsOwn(k, g, found, again) ==
    [company |-> g.company, provider |-> IF found = Null THEN Null ELSE k, token |-> found,
     payload |-> IF found = Null THEN Null ELSE Payload(k, found),
     discovered |-> TRUE, rediscovery |-> again]

\* _discover, when the pages of the target name board found (Null: none do).
Discovered(k, g, found, again) ==
    [company |-> g.company, provider |-> IF found = Null THEN Null ELSE IssuedBy[found],
     token |-> found, payload |-> IF found = Null THEN Null ELSE Payload(k, found),
     discovered |-> TRUE, rediscovery |-> again]

\* A target of another provider, or of none once the budget is spent.
Skip(p) ==
    /\ \E g \in run[p].todo :
        /\ Next1(p, g)
        /\ \/ g.provider \notin {Null, run[p].conn}
           \/ g.provider = run[p].conn /\ g.token = Null
           \/ g.provider = Null /\ run[p].left = 0
        /\ Drop(p, g)
    /\ UNCHANGED <<world, stored, commands, faults>>

\* Mutant of KnownBoard: a board that answers 404 is left as it is.
KnownBoardNoRediscovery(p) ==
    /\ \E g \in run[p].todo :
        /\ Next1(p, g)
        /\ g.provider = run[p].conn /\ g.token # Null
        /\ IF Payload(run[p].conn, g.token) # Null
           THEN Yield(p, g, [company |-> g.company, provider |-> g.provider, token |-> g.token,
                             payload |-> Payload(run[p].conn, g.token),
                             discovered |-> FALSE, rediscovery |-> FALSE])
           ELSE Drop(p, g)
    /\ UNCHANGED <<world, stored, commands, faults>>

\* _fetch_known_board: the listing of the stored board; if it is gone, the
\* board the pages name now, while the run may probe another company.
KnownBoard(p) ==
    /\ \E g \in run[p].todo :
        /\ Next1(p, g)
        /\ g.provider = run[p].conn /\ g.token # Null
        /\ \/ /\ Payload(run[p].conn, g.token) # Null
              /\ Yield(p, g, [company |-> g.company, provider |-> g.provider, token |-> g.token,
                              payload |-> Payload(run[p].conn, g.token),
                              discovered |-> FALSE, rediscovery |-> FALSE])
           \/ /\ Is404(run[p].conn, g.token)
              /\ run[p].left > 0
              /\ Yield(p, g, Discovered(run[p].conn, g, page[g.company], TRUE))
           \/ /\ Payload(run[p].conn, g.token) = Null
              /\ ~ Is404(run[p].conn, g.token) \/ run[p].left = 0
              /\ Drop(p, g)
    /\ UNCHANGED <<world, stored, commands, faults>>

\* A company whose board nobody knows is probed.
Probe(p) ==
    /\ \E g \in run[p].todo :
        /\ Next1(p, g)
        /\ g.provider = Null /\ run[p].left > 0
        /\ Yield(p, g, Discovered(run[p].conn, g, page[g.company], FALSE))
    /\ UNCHANGED <<world, stored, commands, faults>>

-----------------------------------------------------------------------------
(***************************************************************************)
(* A run: the record of a target, the end of the run                       *)
(***************************************************************************)

\* What to_records reports of a company beside its jobs.
Incoming(r) ==
    [f \in Field |-> CASE f = "ats_provider" -> r.provider
                       [] f = "ats_token" -> r.token
                       [] OTHER -> Null]

\* Mutant of Relisted: an empty listing is taken for no listing.
RelistedUnlessEmpty(jobs, k, payload) ==
    [j \in Job |-> IF j[1] # k \/ payload = {} THEN jobs[j]
                   ELSE IF j[2] \in payload THEN "open"
                   ELSE IF jobs[j] = "open" THEN "closed"
                   ELSE jobs[j]]

\* _upsert_jobs with a complete listing: what it has is open, what else this
\* connector reported and is open closes.
Relisted(jobs, k, payload) ==
    [j \in Job |-> IF j[1] # k THEN jobs[j]
                   ELSE IF j[2] \in payload THEN "open"
                   ELSE IF jobs[j] = "open" THEN "closed"
                   ELSE jobs[j]]

\* upsert_company_record, for the record of an ATS connector: the company is
\* the target's, jobs_complete is set if its board was fetched.
Upsert(p) ==
    /\ run[p].result # Null
    /\ LET r == run[p].result
           c == r.company
       IN  /\ row' = [row EXCEPT ![c] = MergeCompanyFields(@, Incoming(r), run[p].conn)]
           /\ job' = IF r.payload = Null THEN job
                     ELSE [job EXCEPT ![c] = Relisted(@, run[p].conn, r.payload)]
           /\ run' = [run EXCEPT ![p].result = Null, ![p].touched = @ \cup {c}]
    /\ UNCHANGED <<world, counted, commands, faults>>

OpenJobs(c) == {j \in Job : job[c][j] = "open"}

\* Mutant of BeginRefresh: only the jobs of the run's own connector are counted.
BeginRefreshOwnJobs(p) ==
    /\ run[p].stage = "fetching" /\ run[p].todo = {} /\ run[p].result = Null
    /\ run[p].touched # {}
    /\ run' = [run EXCEPT ![p].stage = "refreshing",
                          ![p].snap = [c \in Company |->
                              IF c \in run[p].touched
                              THEN {j \in OpenJobs(c) : j[1] = run[p].conn} ELSE {}]]
    /\ UNCHANGED <<world, stored, commands, faults>>

\* The refresh starts: its snapshot is what it will count.
BeginRefresh(p) ==
    /\ run[p].stage = "fetching" /\ run[p].todo = {} /\ run[p].result = Null
    /\ run[p].touched # {}
    /\ run' = [run EXCEPT ![p].stage = "refreshing",
                          ![p].snap = [c \in Company |-> IF c \in run[p].touched
                                                         THEN OpenJobs(c) ELSE {}]]
    /\ UNCHANGED <<world, stored, commands, faults>>

\* A run that has touched no company refreshes nothing.
EndUntouched(p) ==
    /\ run[p].stage = "fetching" /\ run[p].todo = {} /\ run[p].result = Null
    /\ run[p].touched = {}
    /\ run' = [run EXCEPT ![p] = NoRun]
    /\ UNCHANGED <<world, stored, commands, faults>>

\* It commits, and the run is over.
EndRefresh(p) ==
    /\ run[p].stage = "refreshing"
    /\ counted' = [c \in Company |-> IF c \in run[p].touched THEN run[p].snap[c]
                                     ELSE counted[c]]
    /\ run' = [run EXCEPT ![p] = NoRun]
    /\ UNCHANGED <<world, row, job, commands, faults>>

-----------------------------------------------------------------------------
(***************************************************************************)
(* What goes wrong                                                         *)
(***************************************************************************)

Fault ==
    /\ faults < MaxFaults
    /\ faults' = faults + 1
    /\ UNCHANGED <<world, stored, commands>>

\* The board of a target answers with an error that is no 404.
BoardFails(p) ==
    /\ Fault
    /\ \E g \in run[p].todo :
        /\ Next1(p, g)
        /\ g.provider = run[p].conn /\ g.token # Null
        /\ Drop(p, g)

\* The pages of a probed company do not answer, and no board is found; or the
\* board found does not, and is reported without its listing.
DiscoveryFails(p) ==
    /\ Fault
    /\ \E g \in run[p].todo, found \in Token \cup {Null} :
        /\ Next1(p, g)
        /\ run[p].left > 0
        /\ \/ g.provider = Null
           \/ g.provider = run[p].conn /\ g.token # Null /\ Is404(run[p].conn, g.token)
        /\ found \in {Null, page[g.company]}
        /\ Yield(p, g, [Discovered(run[p].conn, g, found, g.provider # Null)
                        EXCEPT !.payload = Null])

\* The transaction of a record fails: the record is skipped.
UpsertFails(p) ==
    /\ Fault
    /\ run[p].result # Null
    /\ run' = [run EXCEPT ![p].result = Null]

\* fetch raises, or the work list could not be loaded: the rest is not visited.
FetchFails(p) ==
    /\ Fault
    /\ run[p].stage = "fetching" /\ run[p].result = Null
    /\ run' = [run EXCEPT ![p].todo = {}]

\* The refresh fails, or the process is killed.
Abandoned(p) ==
    /\ Fault
    /\ run[p].stage # "idle"
    /\ run' = [run EXCEPT ![p] = NoRun]

-----------------------------------------------------------------------------
World ==
    \/ \E c \in Company, b \in Token : Moves(c, b)
    \/ \E b \in Token : Retires(b) \/ Relists(b)

Work(p) ==
    \/ Skip(p) \/ KnownBoard(p) \/ Probe(p)
    \/ Upsert(p) \/ BeginRefresh(p) \/ EndRefresh(p) \/ EndUntouched(p)

Fails(p) == BoardFails(p) \/ DiscoveryFails(p) \/ UpsertFails(p) \/ FetchFails(p) \/ Abandoned(p)

Next ==
    \/ World
    \/ \E p \in Process : Work(p) \/ Fails(p)
    \/ \E p \in Process, k \in Ats : Start(p, k)

Spec == Init /\ [][Next]_vars

\* A run that has started goes on; the scheduler has a job for each connector,
\* and fires it again and again.
Fairness ==
    /\ \A p \in Process : WF_vars(Work(p))
    /\ \A k \in MayRun[Cron] : SF_vars(Start(Cron, k))

FairSpec == Spec /\ Fairness

-----------------------------------------------------------------------------
TypeOK ==
    /\ page \in [Company -> Token \cup {Null}]
    /\ board \in [Token -> {Gone, Shell} \cup Listing]
    /\ row \in [Company -> Row]
    /\ job \in [Company -> [Job -> {"absent", "open", "closed"}]]
    /\ counted \in [Company -> SUBSET Job]
    /\ run \in [Process -> [conn: Ats \cup {Null}, stage: {"idle", "fetching", "refreshing"},
                            todo: SUBSET Target, left: 0..MaxDiscovery,
                            result: {Null} \cup AtsResult, touched: SUBSET Company,
                            snap: [Company -> SUBSET Job]]]
    /\ changes \in 0..MaxChanges
    /\ commands \in 0..MaxCommands
    /\ faults \in 0..MaxFaults

\* The two ATS columns of a company are one fact, though the merge decides each
\* by itself: they are NULL together, were last written by the same connector,
\* and name a provider and a board of that provider.  Whatever connectors
\* discover and overwrite, in whatever order, no company is left with the token
\* of one provider under the name of another (ats.py to_records,
\* pipeline.py merge_company_fields).
PairIntact ==
    \A c \in Company :
        /\ row[c].prov["ats_provider"] = row[c].prov["ats_token"]
        /\ \/ row[c].val["ats_provider"] = Null /\ row[c].val["ats_token"] = Null
           \/ /\ row[c].val["ats_token"] \in Token
              /\ row[c].val["ats_provider"] = IssuedBy[row[c].val["ats_token"]]

\* Once companies leave their boards alone, the open jobs a company has from the
\* provider of its stored board come to be what that board lists, and stay so:
\* gone postings close, and what an older listing of an overlapping run closed
\* opens again (SPEC section 5, closed_at).
BoardsMirrored ==
    <>[](\A c \in Company :
            LET k == row[c].val["ats_provider"]
                b == row[c].val["ats_token"]
            IN  b # Null /\ board[b] \notin {Gone, Shell}
                    => \A x \in Posting : job[c][<<k, x>>] = "open" <=> x \in board[b])

\* The counters of a company come to agree with its jobs, whatever refreshes of
\* overlapping runs wrote over each other and whichever runs were killed before
\* theirs, unless its board has become a shell, which is not a visit.
CountsSettle ==
    <>[](\A c \in Company :
            \/ counted[c] = OpenJobs(c)
            \/ row[c].val["ats_token"] # Null /\ board[row[c].val["ats_token"]] = Shell)

\* No company stays for ever on a board that answers 404 while its pages name
\* another, if the connector of the stored provider may overwrite the token.
MovesFollowed ==
    <>[](\A c \in Company :
            LET b == row[c].val["ats_token"]
            IN  b # Null /\ board[b] = Gone /\ page[c] # Null
                  /\ MayOverwrite(b, row[c].prov["ats_token"], IssuedBy[b])
                    => page[c] = b)
=============================================================================
