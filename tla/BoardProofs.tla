---------------------------- MODULE BoardProofs ----------------------------
(***************************************************************************)
(* Proofs about the boards, for any connectors, companies and boards, and  *)
(* any number of runs at once.  Of Boards: its type invariant, and that    *)
(* the two ATS columns of a company stay one fact.  Of Visits, which has   *)
(* the queues in which the same companies come to the same connectors:     *)
(* that no connector knows two of them by one external_id.                 *)
(***************************************************************************)
EXTENDS Boards, FiniteSetTheorems, TLAPS

\* A provider and a token that may be written together.
Paired(provider, token) ==
    \/ provider = Null /\ token = Null
    \/ token \in Token /\ provider = IssuedBy[token]

\* What a run reports is paired, like the columns are.
ResultsPaired ==
    \A p \in Process :
        run[p].result # Null => Paired(run[p].result.provider, run[p].result.token)

\* And so is what it has loaded of a company.
TargetsPaired ==
    \A p \in Process : \A g \in run[p].todo : Paired(g.provider, g.token)

BoardInv == TypeOK /\ PairIntact /\ ResultsPaired /\ TargetsPaired

RunType ==
    [conn: Ats \cup {Null}, stage: {"idle", "fetching", "refreshing"},
     todo: SUBSET Target, left: 0..MaxDiscovery, result: {Null} \cup AtsResult,
     touched: SUBSET Company, snap: [Company -> SUBSET Job]]

\* The model values stand for nothing else.
LEMMA Values ==
    /\ Null \notin Listing /\ Gone \notin Listing /\ Shell \notin Listing
    /\ Null \notin Value /\ Null \notin Token /\ Null \notin Ats
    /\ Ats \subseteq Connector
  BY BoardAssumption, FieldMergeAssumption DEF Listing

\* A step that moves no company and no run but p's, whose new run is x.
RunStep(p, x) ==
    /\ UNCHANGED <<page, board, row, job, counted, changes>>
    /\ run' = [run EXCEPT ![p] = x]

LEMMA RunStepKeeps ==
    ASSUME BoardInv, NEW p \in Process, NEW x \in RunType, RunStep(p, x),
           commands' \in 0..MaxCommands, faults' \in 0..MaxFaults,
           x.result # Null => Paired(x.result.provider, x.result.token),
           \A g \in x.todo : Paired(g.provider, g.token)
    PROVE  BoardInv'
<1>1. run' \in [Process -> RunType]
  BY DEF BoardInv, TypeOK, RunStep, RunType
<1>2. TypeOK'
  BY <1>1 DEF BoardInv, TypeOK, RunStep, RunType
<1>3. PairIntact'
  BY DEF BoardInv, PairIntact, RunStep
<1>4. ASSUME NEW q \in Process
      PROVE  run'[q] = IF q = p THEN x ELSE run[q]
  BY DEF BoardInv, TypeOK, RunStep
<1>5. ResultsPaired'
  BY <1>4 DEF BoardInv, ResultsPaired, Paired
<1>6. TargetsPaired'
  BY <1>4 DEF BoardInv, TargetsPaired, Paired
<1> QED BY <1>2, <1>3, <1>5, <1>6 DEF BoardInv

LEMMA InitHolds == Init => BoardInv
<1> SUFFICES ASSUME Init PROVE BoardInv
  OBVIOUS
<1>1. NoRun \in RunType
  BY BoardAssumption DEF NoRun, RunType
<1>2. EmptyRow \in Row
  BY DEF EmptyRow, Row, OptValue
<1>3. TypeOK
  BY <1>1, <1>2, BoardAssumption DEF Init, TypeOK, RunType
<1>4. EmptyRow.val["ats_provider"] = Null /\ EmptyRow.val["ats_token"] = Null
      /\ EmptyRow.prov["ats_provider"] = EmptyRow.prov["ats_token"]
  BY BoardAssumption DEF EmptyRow, AtsFields
<1>5. PairIntact
  BY <1>4 DEF Init, PairIntact
<1>6. ResultsPaired /\ TargetsPaired
  BY DEF Init, NoRun, ResultsPaired, TargetsPaired
<1> QED BY <1>3, <1>5, <1>6 DEF BoardInv

(***************************************************************************)
(* The merge                                                               *)
(***************************************************************************)

\* A report whose two ATS values are paired leaves a row whose are; by any
\* connector, over what any other wrote.
LEMMA MergeKeepsPair ==
    ASSUME NEW x \in Row, NEW y \in [Field -> OptValue], NEW k \in Connector \cup {Null},
           Paired(x.val["ats_provider"], x.val["ats_token"]),
           x.prov["ats_provider"] = x.prov["ats_token"],
           Paired(y["ats_provider"], y["ats_token"])
    PROVE  /\ MergeCompanyFields(x, y, k) \in Row
           /\ Paired(MergeCompanyFields(x, y, k).val["ats_provider"],
                     MergeCompanyFields(x, y, k).val["ats_token"])
           /\ MergeCompanyFields(x, y, k).prov["ats_provider"]
                = MergeCompanyFields(x, y, k).prov["ats_token"]
<1> DEFINE m == MergeCompanyFields(x, y, k)
           W == Writable(x, y, k)
<1>1. "ats_provider" \in Field /\ "ats_token" \in Field
      /\ "ats_provider" # "domain" /\ "ats_token" # "domain"
  BY BoardAssumption DEF AtsFields
<1>2. m = [val  |-> [f \in Field |-> IF f \in W THEN y[f] ELSE x.val[f]],
           prov |-> [f \in Field |-> IF f \in W THEN k ELSE x.prov[f]]]
  BY DEF MergeCompanyFields
<1>3. m \in Row
  <2>1. [f \in Field |-> IF f \in W THEN y[f] ELSE x.val[f]] \in [Field -> OptValue]
    BY DEF Row
  <2>2. [f \in Field |-> IF f \in W THEN k ELSE x.prov[f]] \in [Field -> Connector \cup {Null}]
    BY DEF Row
  <2> QED BY <1>2, <2>1, <2>2 DEF Row
<1>4. "ats_provider" \in W <=> "ats_token" \in W
  <2>1. \A f \in {"ats_provider", "ats_token"} :
            f \in W <=> y[f] # Null /\ MayOverwrite(x.val[f], x.prov[f], k)
    BY <1>1 DEF Writable
  <2>2. y["ats_provider"] # Null <=> y["ats_token"] # Null
    BY Values, BoardAssumption DEF Paired
  <2>3. x.val["ats_provider"] = Null <=> x.val["ats_token"] = Null
    BY Values, BoardAssumption DEF Paired
  <2>4. MayOverwrite(x.val["ats_provider"], x.prov["ats_provider"], k)
          <=> MayOverwrite(x.val["ats_token"], x.prov["ats_token"], k)
    BY <2>3 DEF MayOverwrite
  <2> QED BY <2>1, <2>2, <2>4
<1>5. \A f \in {"ats_provider", "ats_token"} :
          /\ m.val[f] = IF f \in W THEN y[f] ELSE x.val[f]
          /\ m.prov[f] = IF f \in W THEN k ELSE x.prov[f]
  BY <1>1, <1>2
<1> HIDE DEF m, W
<1>6. Paired(m.val["ats_provider"], m.val["ats_token"])
  BY <1>4, <1>5 DEF Paired
<1>7. m.prov["ats_provider"] = m.prov["ats_token"]
  BY <1>4, <1>5
<1> QED BY <1>3, <1>6, <1>7 DEF m

(***************************************************************************)
(* The steps                                                               *)
(***************************************************************************)

LEMMA WorldKeeps == BoardInv /\ World => BoardInv'
<1> SUFFICES ASSUME BoardInv, World PROVE BoardInv'
  OBVIOUS
<1>1. UNCHANGED <<row, job, counted, run, commands, faults>> /\ changes' = changes + 1
      /\ changes < MaxChanges
  BY DEF World, Moves, Retires, Relists, Change
<1>2. page' \in [Company -> Token \cup {Null}]
  BY DEF World, Moves, Retires, Relists, BoardInv, TypeOK
<1>3. board' \in [Token -> {Gone, Shell} \cup Listing]
  BY DEF World, Moves, Retires, Relists, BoardInv, TypeOK
<1>4. TypeOK'
  BY <1>1, <1>2, <1>3, BoardAssumption DEF BoardInv, TypeOK
<1>5. PairIntact' /\ ResultsPaired' /\ TargetsPaired'
  BY <1>1 DEF BoardInv, PairIntact, ResultsPaired, TargetsPaired, Paired
<1> QED BY <1>4, <1>5 DEF BoardInv

\* What a run has loaded of a company when it starts.
LEMMA StartKeeps ==
    ASSUME BoardInv, NEW p \in Process, NEW k \in Ats, Start(p, k)
    PROVE  BoardInv'
<1> DEFINE loaded == {[company |-> c, provider |-> row[c].val["ats_provider"],
                       token |-> row[c].val["ats_token"]] : c \in Company}
           x == [NoRun EXCEPT !.conn = k, !.stage = "fetching", !.left = MaxDiscovery,
                              !.todo = loaded]
<1>1. \A g \in loaded : g \in Target /\ Paired(g.provider, g.token)
  BY BoardAssumption DEF BoardInv, PairIntact, Paired, Target
<1>2. x \in RunType
  <2>1. loaded \in SUBSET Target
    BY <1>1
  <2>2. NoRun \in RunType
    BY BoardAssumption DEF NoRun, RunType
  <2>3. MaxDiscovery \in 0..MaxDiscovery
    BY BoardAssumption
  <2> HIDE DEF loaded
  <2> QED BY <2>1, <2>2, <2>3 DEF RunType
<1>3. run' = [run EXCEPT ![p] = x]
  BY DEF Start
<1>4. x.result = Null /\ x.todo = loaded
  BY DEF NoRun
<1>5. commands' \in 0..MaxCommands
  BY BoardAssumption DEF Start, BoardInv, TypeOK
<1>6. RunStep(p, x) /\ faults' \in 0..MaxFaults
  BY <1>3 DEF Start, RunStep, world, stored, BoardInv, TypeOK
<1> HIDE DEF x, loaded
<1> QED BY <1>1, <1>2, <1>4, <1>5, <1>6, RunStepKeeps

\* A fault at most is counted, and nothing but runs moves.
Quiet ==
    /\ UNCHANGED <<page, board, row, job, counted, changes, commands>>
    /\ faults' \in 0..MaxFaults

LEMMA DropKeeps ==
    ASSUME BoardInv, Quiet, NEW p \in Process, NEW g, Drop(p, g)
    PROVE  BoardInv'
<1> DEFINE x == [run[p] EXCEPT !.todo = @ \ {g}]
<1>1. run[p] \in RunType
  BY DEF BoardInv, TypeOK, RunType
<1>2. x \in RunType /\ x.result = run[p].result /\ x.todo = run[p].todo \ {g}
  BY <1>1 DEF RunType
<1>3. RunStep(p, x)
  BY DEF Drop, Quiet, RunStep
<1>4. commands' \in 0..MaxCommands
  BY DEF Quiet, BoardInv, TypeOK
<1> HIDE DEF x
<1> QED BY <1>2, <1>3, <1>4, RunStepKeeps DEF Quiet, BoardInv, ResultsPaired, TargetsPaired

LEMMA YieldKeeps ==
    ASSUME BoardInv, Quiet, NEW p \in Process, NEW g, NEW r \in AtsResult,
           Yield(p, g, r), r.discovered => run[p].left > 0, Paired(r.provider, r.token)
    PROVE  BoardInv'
<1> DEFINE n == IF r.discovered THEN run[p].left - 1 ELSE run[p].left
           x == [run[p] EXCEPT !.todo = @ \ {g}, !.result = r, !.left = n]
<1>1. run[p] \in RunType
  BY DEF BoardInv, TypeOK, RunType
<1>2. n \in 0..MaxDiscovery
  BY <1>1, BoardAssumption DEF RunType
<1>3. run' = [run EXCEPT ![p] = x]
  BY DEF Yield
<1> HIDE DEF n
<1>4. x \in RunType /\ x.result = r /\ x.todo = run[p].todo \ {g}
  BY <1>1, <1>2 DEF RunType
<1>5. RunStep(p, x)
  BY <1>3 DEF Quiet, RunStep
<1>6. commands' \in 0..MaxCommands
  BY DEF Quiet, BoardInv, TypeOK
<1> HIDE DEF x
<1> QED BY <1>4, <1>5, <1>6, RunStepKeeps DEF Quiet, BoardInv, TargetsPaired

\* What a discovery reports.
LEMMA DiscoveredType ==
    ASSUME BoardInv, NEW p \in Process, NEW g \in Target, NEW found \in Token \cup {Null},
           NEW again \in BOOLEAN, NEW k
    PROVE  LET r == Discovered(k, g, found, again) IN
           /\ r \in AtsResult /\ r.discovered /\ Paired(r.provider, r.token)
           /\ [r EXCEPT !.payload = Null] \in AtsResult
           /\ [r EXCEPT !.payload = Null].discovered
           /\ Paired([r EXCEPT !.payload = Null].provider, [r EXCEPT !.payload = Null].token)
<1> DEFINE r == Discovered(k, g, found, again)
           pay == IF found = Null THEN Null ELSE Payload(k, found)
           prv == IF found = Null THEN Null ELSE IssuedBy[found]
<1>1. pay \in {Null} \cup Listing
  BY DEF Payload, BoardInv, TypeOK
<1>2. prv \in Ats \cup {Null} /\ Paired(prv, found)
  BY BoardAssumption DEF Paired
<1>3. r = [company |-> g.company, provider |-> prv, token |-> found, payload |-> pay,
           discovered |-> TRUE, rediscovery |-> again]
  BY DEF Discovered
<1>4. g.company \in Company
  BY DEF Target
<1> DEFINE q == [r EXCEPT !.payload = Null]
<1> HIDE DEF pay, prv, r
<1>5. r \in AtsResult /\ r.discovered /\ Paired(r.provider, r.token)
  BY <1>1, <1>2, <1>3, <1>4 DEF AtsResult
<1>6. /\ q \in AtsResult /\ q.discovered = r.discovered
      /\ q.provider = r.provider /\ q.token = r.token
  BY <1>5 DEF AtsResult
<1>7. q \in AtsResult /\ q.discovered /\ Paired(q.provider, q.token)
  BY <1>5, <1>6
<1> QED BY <1>5, <1>7 DEF q, r

LEMMA KnownBoardKeeps ==
    ASSUME BoardInv, NEW p \in Process, KnownBoard(p)
    PROVE  BoardInv'
<1>1. Quiet
  BY DEF KnownBoard, Quiet, world, stored, BoardInv, TypeOK
<1>2. PICK g \in run[p].todo :
        /\ g.provider = run[p].conn /\ g.token # Null
        /\ \/ /\ Payload(run[p].conn, g.token) # Null
              /\ Yield(p, g, [company |-> g.company, provider |-> g.provider, token |-> g.token,
                              payload |-> Payload(run[p].conn, g.token),
                              discovered |-> FALSE, rediscovery |-> FALSE])
           \/ /\ run[p].left > 0
              /\ Yield(p, g, Discovered(run[p].conn, g, page[g.company], TRUE))
           \/ Drop(p, g)
  BY DEF KnownBoard
<1>3. g \in Target /\ Paired(g.provider, g.token) /\ g.token \in Token
  BY <1>2 DEF BoardInv, TargetsPaired, TypeOK, Target, Paired
<1>4. CASE Drop(p, g)
  BY <1>1, <1>4, DropKeeps
<1>5. CASE run[p].left > 0 /\ Yield(p, g, Discovered(run[p].conn, g, page[g.company], TRUE))
  <2> DEFINE r == Discovered(run[p].conn, g, page[g.company], TRUE)
  <2>1. page[g.company] \in Token \cup {Null}
    BY <1>3 DEF BoardInv, TypeOK, Target
  <2>2. r \in AtsResult /\ Paired(r.provider, r.token)
    BY <1>3, <2>1, DiscoveredType
  <2> HIDE DEF r
  <2> QED BY <1>1, <1>5, <2>2, YieldKeeps DEF r
<1>6. CASE /\ Payload(run[p].conn, g.token) # Null
           /\ Yield(p, g, [company |-> g.company, provider |-> g.provider, token |-> g.token,
                           payload |-> Payload(run[p].conn, g.token),
                           discovered |-> FALSE, rediscovery |-> FALSE])
  <2> DEFINE r == [company |-> g.company, provider |-> g.provider, token |-> g.token,
                   payload |-> Payload(run[p].conn, g.token),
                   discovered |-> FALSE, rediscovery |-> FALSE]
  <2>1. Payload(run[p].conn, g.token) \in {Null} \cup Listing
    BY <1>3 DEF Payload, BoardInv, TypeOK
  <2>2. r \in AtsResult /\ ~ r.discovered /\ r.provider = g.provider /\ r.token = g.token
    BY <1>3, <2>1 DEF AtsResult, Target
  <2>3. Yield(p, g, r)
    BY <1>6
  <2> HIDE DEF r
  <2> QED BY <1>1, <1>3, <2>2, <2>3, YieldKeeps
<1> QED BY <1>2, <1>4, <1>5, <1>6

LEMMA ProbeKeeps ==
    ASSUME BoardInv, NEW p \in Process, Probe(p)
    PROVE  BoardInv'
<1>1. Quiet
  BY DEF Probe, Quiet, world, stored, BoardInv, TypeOK
<1>2. PICK g \in run[p].todo :
        run[p].left > 0 /\ Yield(p, g, Discovered(run[p].conn, g, page[g.company], FALSE))
  BY DEF Probe
<1> DEFINE r == Discovered(run[p].conn, g, page[g.company], FALSE)
<1>3. g \in Target
  BY DEF BoardInv, TypeOK
<1>4. page[g.company] \in Token \cup {Null}
  BY <1>3 DEF BoardInv, TypeOK, Target
<1>5. r \in AtsResult /\ Paired(r.provider, r.token)
  BY <1>3, <1>4, DiscoveredType
<1> HIDE DEF r
<1> QED BY <1>1, <1>2, <1>5, YieldKeeps DEF r

LEMMA DiscoveryFailsKeeps ==
    ASSUME BoardInv, NEW p \in Process, DiscoveryFails(p)
    PROVE  BoardInv'
<1>1. Quiet
  BY BoardAssumption DEF DiscoveryFails, Fault, Quiet, world, stored, BoardInv, TypeOK
<1>2. PICK g \in run[p].todo, found \in Token \cup {Null} :
        /\ run[p].left > 0
        /\ Yield(p, g, [Discovered(run[p].conn, g, found, g.provider # Null)
                        EXCEPT !.payload = Null])
  BY DEF DiscoveryFails
<1> DEFINE again == g.provider # Null
           r == [Discovered(run[p].conn, g, found, again) EXCEPT !.payload = Null]
<1>3. g \in Target
  BY DEF BoardInv, TypeOK
<1>4. again \in BOOLEAN
  OBVIOUS
<1>5. Yield(p, g, r)
  BY <1>2
<1> HIDE DEF again
<1>6. r \in AtsResult /\ Paired(r.provider, r.token)
  BY <1>3, <1>4, DiscoveredType
<1> HIDE DEF r
<1> QED BY <1>1, <1>2, <1>5, <1>6, YieldKeeps

LEMMA UpsertKeeps ==
    ASSUME BoardInv, NEW p \in Process, Upsert(p)
    PROVE  BoardInv'
<1> DEFINE r == run[p].result
           c == r.company
           m == MergeCompanyFields(row[c], Incoming(r), run[p].conn)
           x == [run[p] EXCEPT !.result = Null, !.touched = @ \cup {c}]
<1>1. run[p] \in RunType /\ r # Null /\ r \in AtsResult /\ Paired(r.provider, r.token)
  BY DEF BoardInv, TypeOK, RunType, ResultsPaired, Upsert
<1>2. c \in Company /\ run[p].conn \in Connector \cup {Null}
  BY <1>1, Values DEF AtsResult, RunType
<1>3. Incoming(r) \in [Field -> OptValue] /\ Incoming(r)["ats_provider"] = r.provider
      /\ Incoming(r)["ats_token"] = r.token
  BY <1>1, BoardAssumption DEF Incoming, OptValue, AtsResult, AtsFields
<1>4. row[c] \in Row /\ Paired(row[c].val["ats_provider"], row[c].val["ats_token"])
      /\ row[c].prov["ats_provider"] = row[c].prov["ats_token"]
  BY <1>2 DEF BoardInv, TypeOK, PairIntact, Paired
<1>5. m \in Row /\ Paired(m.val["ats_provider"], m.val["ats_token"])
      /\ m.prov["ats_provider"] = m.prov["ats_token"]
  <2> HIDE DEF c, r
  <2> QED BY <1>1, <1>2, <1>3, <1>4, MergeKeepsPair
<1>6. row' = [row EXCEPT ![c] = m] /\ run' = [run EXCEPT ![p] = x]
  BY DEF Upsert
<1> HIDE DEF m
<1>7. x \in RunType /\ x.result = Null /\ x.todo = run[p].todo
  BY <1>1, <1>2 DEF RunType
<1>8. job' \in [Company -> [Job -> {"absent", "open", "closed"}]]
  <2>1. \A f \in [Job -> {"absent", "open", "closed"}] : \A k, s :
            Relisted(f, k, s) \in [Job -> {"absent", "open", "closed"}]
    BY DEF Relisted
  <2> QED BY <1>2, <2>1 DEF Upsert, BoardInv, TypeOK
<1> HIDE DEF x, c, r
<1>9. row' \in [Company -> Row] /\ run' \in [Process -> RunType]
  BY <1>2, <1>5, <1>6, <1>7 DEF BoardInv, TypeOK, RunType
<1>10. UNCHANGED <<page, board, counted, changes, commands, faults>>
  BY DEF Upsert, world
<1>11. TypeOK'
  BY <1>8, <1>9, <1>10 DEF BoardInv, TypeOK, RunType
<1>12. PairIntact'
  BY <1>2, <1>5, <1>6 DEF BoardInv, TypeOK, PairIntact, Paired
<1>13. ResultsPaired' /\ TargetsPaired'
  BY <1>6, <1>7 DEF BoardInv, TypeOK, ResultsPaired, TargetsPaired, Paired
<1> QED BY <1>11, <1>12, <1>13 DEF BoardInv

LEMMA EndRefreshKeeps ==
    ASSUME BoardInv, NEW p \in Process, EndRefresh(p)
    PROVE  BoardInv'
<1>1. NoRun \in RunType /\ NoRun.result = Null /\ NoRun.todo = {}
  BY BoardAssumption DEF NoRun, RunType
<1>2. run' \in [Process -> RunType]
  BY <1>1 DEF EndRefresh, BoardInv, TypeOK, RunType
<1>3. run[p].snap \in [Company -> SUBSET Job]
  BY DEF BoardInv, TypeOK
<1>4. counted' \in [Company -> SUBSET Job]
  BY <1>3 DEF EndRefresh, BoardInv, TypeOK
<1>5. UNCHANGED <<page, board, row, job, changes, commands, faults>>
  BY DEF EndRefresh, world
<1>6. TypeOK'
  BY <1>2, <1>4, <1>5 DEF BoardInv, TypeOK, RunType
<1>7. PairIntact'
  BY <1>5 DEF BoardInv, PairIntact
<1>8. ResultsPaired' /\ TargetsPaired'
  BY <1>1 DEF EndRefresh, BoardInv, TypeOK, ResultsPaired, TargetsPaired, Paired
<1> QED BY <1>6, <1>7, <1>8 DEF BoardInv

\* The steps that only bring a run to its end, or a stage of it.
LEMMA RestKeeps ==
    ASSUME BoardInv, NEW p \in Process,
           BeginRefresh(p) \/ EndUntouched(p) \/ UpsertFails(p) \/ FetchFails(p) \/ Abandoned(p)
    PROVE  BoardInv'
<1>1. Quiet
  BY BoardAssumption DEF BeginRefresh, EndUntouched, UpsertFails, FetchFails, Abandoned,
                         Fault, Quiet, world, stored, BoardInv, TypeOK
<1>2. run[p] \in RunType /\ commands' \in 0..MaxCommands /\ faults' \in 0..MaxFaults
  BY <1>1 DEF BoardInv, TypeOK, RunType, Quiet
<1> DEFINE s == [c \in Company |-> IF c \in run[p].touched THEN OpenJobs(c) ELSE {}]
           a == [run[p] EXCEPT !.stage = "refreshing", !.snap = s]
           b == [run[p] EXCEPT !.result = Null]
           d == [run[p] EXCEPT !.todo = {}]
<1>3. NoRun \in RunType /\ NoRun.result = Null /\ NoRun.todo = {}
  BY BoardAssumption DEF NoRun, RunType
<1>4. b \in RunType /\ b.result = Null /\ b.todo = run[p].todo
  BY <1>2 DEF RunType
<1>5. d \in RunType /\ d.result = run[p].result /\ d.todo = {}
  BY <1>2 DEF RunType
<1>6. s \in [Company -> SUBSET Job]
  BY DEF OpenJobs
<1>7. a \in RunType /\ a.result = run[p].result /\ a.todo = run[p].todo
  <2> HIDE DEF s
  <2> QED BY <1>2, <1>6 DEF RunType
<1>8. \E x \in {a, b, d, NoRun} : run' = [run EXCEPT ![p] = x]
  BY DEF BeginRefresh, EndUntouched, UpsertFails, FetchFails, Abandoned
<1> HIDE DEF a, b, d, s
<1>9. PICK x \in {a, b, d, NoRun} : run' = [run EXCEPT ![p] = x]
  BY <1>8
<1>10. x \in RunType /\ RunStep(p, x)
  BY <1>1, <1>3, <1>4, <1>5, <1>7, <1>9 DEF RunStep, Quiet
<1>11. x.result # Null => Paired(x.result.provider, x.result.token)
  BY <1>3, <1>4, <1>5, <1>7, <1>9 DEF BoardInv, ResultsPaired
<1>12. \A g \in x.todo : Paired(g.provider, g.token)
  BY <1>3, <1>4, <1>5, <1>7, <1>9 DEF BoardInv, TargetsPaired
<1> QED BY <1>2, <1>10, <1>11, <1>12, RunStepKeeps

LEMMA SkipKeeps ==
    ASSUME BoardInv, NEW p \in Process, Skip(p) \/ BoardFails(p)
    PROVE  BoardInv'
<1>1. Quiet
  BY BoardAssumption DEF Skip, BoardFails, Fault, Quiet, world, stored, BoardInv, TypeOK
<1>2. \E g \in run[p].todo : Drop(p, g)
  BY DEF Skip, BoardFails
<1> QED BY <1>1, <1>2, DropKeeps

(***************************************************************************)
(* The theorems                                                            *)
(***************************************************************************)

LEMMA StepHolds == BoardInv /\ [Next]_vars => BoardInv'
<1> SUFFICES ASSUME BoardInv, [Next]_vars PROVE BoardInv'
  OBVIOUS
<1>1. CASE World
  BY <1>1, WorldKeeps
<1>2. CASE \E p \in Process, k \in Ats : Start(p, k)
  BY <1>2, StartKeeps
<1>3. ASSUME NEW p \in Process, Work(p) PROVE BoardInv'
  BY <1>3, SkipKeeps, KnownBoardKeeps, ProbeKeeps, UpsertKeeps, RestKeeps, EndRefreshKeeps
     DEF Work
<1>4. ASSUME NEW p \in Process, Fails(p) PROVE BoardInv'
  BY <1>4, SkipKeeps, DiscoveryFailsKeeps, RestKeeps DEF Fails
<1>5. CASE UNCHANGED vars
  BY <1>5 DEF vars, BoardInv, TypeOK, PairIntact, ResultsPaired, TargetsPaired, Paired
<1> QED BY <1>1, <1>2, <1>3, <1>4, <1>5 DEF Next

LEMMA Invariance == Spec => []BoardInv
  BY InitHolds, StepHolds, PTL DEF Spec

\* The types, for every value of the constants: among them, that no run probes
\* more companies than its discovery budget (left never falls below zero).
THEOREM BoardsTypeCorrect == Spec => []TypeOK
<1>1. BoardInv => TypeOK
  BY DEF BoardInv
<1> QED BY <1>1, Invariance, PTL

\* Whatever connectors discover, re-discover and overwrite, at once and in any
\* order, the provider and the token of a company are one fact (to_records of
\* ats.py, merge_company_fields of pipeline.py).
THEOREM PairStaysIntact == Spec => []PairIntact
<1>1. BoardInv => PairIntact
  BY DEF BoardInv
<1> QED BY <1>1, Invariance, PTL

(***************************************************************************)
(* The queues                                                              *)
(***************************************************************************)

CONSTANTS
    Active, Site, Dead, DomainOf, Website, Local, Up, PageOf, Configured,
    MaxVisits, Command          \* as in Visits

VARIABLES
    enabled, seen, ext, aged,   \* as in Visits
    column,                     \* its row
    round,                      \* its run
    overlaps, failures          \* its commands and faults

\* The companies, connectors and boards are those of Boards; the runs are others.
Queues == INSTANCE Visits WITH
    row <- column, run <- round, commands <- overlaps, faults <- failures

IdentifiersTyped == ext = [k \in Queues!Visitor |-> [c \in Company |-> ext[k][c]]]
QueueInv == IdentifiersTyped /\ Queues!IdentifiersDistinct

\* A record takes its external_id to the company that has it, if one has: the
\* first thing resolve_company asks, and the domain and the name come after.
LEMMA UpsertKeepsIdentifiers ==
    ASSUME QueueInv, NEW k \in Queues!Visitor, Queues!Upsert(k)
    PROVE  QueueInv'
<1> DEFINE r == round[k].record
           id == r.external_id
           known == {d \in Company : id # Null /\ ext[k][d] = id}
           c == Queues!Resolve(k, r)
<1>1. CASE ext' = ext
  BY <1>1 DEF QueueInv, IdentifiersTyped, Queues!IdentifiersDistinct, Queues!Visitor
<1>2. CASE ext' # ext
  <2>1. ext' = [ext EXCEPT ![k][c] = IF id = Null THEN @ ELSE id]
    BY <1>2 DEF Queues!Upsert, Queues!stored
  <2>2. ASSUME id # Null, NEW d \in Company, ext[k][d] = id PROVE d = c
    <3>1. known = {d}
      BY <2>2 DEF QueueInv, Queues!IdentifiersDistinct
    <3>2. Cardinality(known) = 1 /\ Queues!TheOne(known) = d
      <4>1. Cardinality({d}) = 1
        BY FS_Singleton
      <4>2. Queues!TheOne({d}) = d
        BY DEF Queues!TheOne
      <4> QED BY <3>1, <4>1, <4>2
    <3>3. Queues!Cardinality(known) = 1 => c = Queues!TheOne(known)
      BY DEF Queues!Resolve
    <3>4. Queues!Cardinality(known) = Cardinality(known)
      BY DEF Queues!Cardinality, Cardinality
    <3> HIDE DEF known, c
    <3> QED BY <3>2, <3>3, <3>4
  <2> HIDE DEF c, r
  <2>3. IdentifiersTyped'
    BY <2>1 DEF QueueInv, IdentifiersTyped, Queues!Visitor
  <2>4. \A j \in Queues!Visitor, d \in Company :
            ext'[j][d] = IF j = k /\ d = c /\ id # Null THEN id ELSE ext[j][d]
    BY <2>1 DEF QueueInv, IdentifiersTyped
  <2>5. Queues!IdentifiersDistinct'
    BY <2>2, <2>4 DEF QueueInv, Queues!IdentifiersDistinct, Queues!Visitor
  <2> QED BY <2>3, <2>5 DEF QueueInv
<1> QED BY <1>1, <1>2

\* Nothing else writes an external_id.
LEMMA QueueStep == QueueInv /\ [Queues!Next]_Queues!vars => QueueInv'
<1> SUFFICES ASSUME QueueInv, [Queues!Next]_Queues!vars PROVE QueueInv'
  OBVIOUS
<1>1. ASSUME NEW k \in Queues!Visitor, Queues!Upsert(k) PROVE QueueInv'
  BY <1>1, UpsertKeepsIdentifiers
<1>2. CASE ext' = ext
  BY <1>2 DEF QueueInv, IdentifiersTyped, Queues!IdentifiersDistinct, Queues!Visitor
<1>3. ASSUME NEW k \in Queues!Visitor,
             \/ Queues!Start(k) \/ Queues!Visit(k) \/ Queues!End(k)
             \/ Queues!UpsertFails(k) \/ Queues!Killed(k)
      PROVE  ext' = ext
  BY <1>3 DEF Queues!Start, Queues!Visit, Queues!End, Queues!UpsertFails, Queues!Killed,
              Queues!stored, Queues!SiteDone, Queues!VisitSite, Queues!NoVisit,
              Queues!SkipTarget, Queues!Probe, Queues!KnownBoard
<1>4. Queues!DaysPass \/ UNCHANGED Queues!vars => ext' = ext
  BY DEF Queues!DaysPass, Queues!stored, Queues!vars
<1> QED BY <1>1, <1>2, <1>3, <1>4 DEF Queues!Next, Queues!Work

\* Visits.IdentifiersDistinct: no two companies are known to a connector by one
\* external_id, however many boards they share and whatever runs overlap
\* (resolve_company, upsert_company_record).
THEOREM IdentifiersStayDistinct == Queues!Spec => []Queues!IdentifiersDistinct
<1>1. Queues!Init => QueueInv
  <2> SUFFICES ASSUME Queues!Init PROVE QueueInv
    OBVIOUS
  <2>1. ext = [k \in Queues!Visitor |-> [c \in Company |-> Null]]
    BY DEF Queues!Init
  <2> QED BY <2>1 DEF QueueInv, IdentifiersTyped, Queues!IdentifiersDistinct
<1>2. QueueInv => Queues!IdentifiersDistinct
  BY DEF QueueInv
<1> QED BY <1>1, <1>2, QueueStep, PTL DEF Queues!Spec
=============================================================================
