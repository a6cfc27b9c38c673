---------------------------- MODULE MCResolution ----------------------------
(***************************************************************************)
(* A small instance of Resolution: EDGAR filings, which carry a CIK and no *)
(* domain until a later filing reports one, a YC directory run that knows  *)
(* domains, and a news run that may only enrich.                           *)
(***************************************************************************)
EXTENDS Resolution, TLC

CONSTANTS edgar, yc, rss, acme, acmes, acmess, acmeio, acmecom, blank, sf, cik, slug

Conf(name, domain) ==
    [f \in Field |-> IF f = "name" THEN name ELSE domain]

\* The connector each run executes is the run itself: a run is named for it.
MCConnectorOf == [r \in Run |-> r]
MCPriority == <<edgar, yc, rss>>
MCSimilar == {<<acme, acmess>>, <<acmess, acme>>, <<acmes, acmess>>, <<acmess, acmes>>}

Rec(name, domain, ext, metros, metro, enrich) ==
    [val |-> Conf(name, domain), ext |-> ext, metros |-> metros, metro |-> metro,
     enrich |-> enrich]

\* EDGAR's filing of acme has no domain, its amendment (same CIK) reports one; YC
\* knows another company under that domain, and a third whose name is similar to
\* both; the news run may only enrich acme, wherever it is.
MCFeed ==
    [r \in Run |->
        IF r = edgar THEN {Rec(acme, Null, cik, {sf}, sf, FALSE),
                           Rec(acme, acmeio, cik, {sf}, sf, FALSE)}
        ELSE IF r = yc THEN {Rec(acmes, acmeio, slug, {sf}, sf, FALSE),
                             Rec(acmess, acmecom, Null, {sf}, sf, FALSE)}
        ELSE {Rec(acme, acmecom, Null, {}, Null, TRUE)}]

\* One company, which EDGAR reports without a domain and YC with one.
TwinFeed ==
    [r \in Run |->
        IF r = edgar THEN {Rec(acme, Null, cik, {sf}, sf, FALSE)}
        ELSE IF r = yc THEN {Rec(acme, acmeio, slug, {sf}, sf, FALSE)}
        ELSE {}]
=============================================================================
