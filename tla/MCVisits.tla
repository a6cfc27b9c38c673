------------------------------ MODULE MCVisits ------------------------------
(***************************************************************************)
(* Five companies: the first has a website but neither a domain nor an     *)
(* office in a configured metro; the second and the third share a board;   *)
(* the fourth has none; the fifth has one of the other provider.           *)
(***************************************************************************)
EXTENDS Visits, TLC

CONSTANTS site, greenhouse, lever, seed, g0, g1, l1, d2, d3, d4, d5, alpha, beta

MCPriority == <<seed, greenhouse, lever, site>>
MCConnector == {seed, greenhouse, lever, site}
MCField == {"name", "domain", "ats_provider", "ats_token"}
MCValue == {greenhouse, lever, g0, g1, l1, d2, d3, d4, d5, alpha, beta}
MCIssuedBy == (g0 :> greenhouse) @@ (g1 :> greenhouse) @@ (l1 :> lever)
MCDomainOf == <<Null, d2, d3, d4, d5>>
MCPageOf == <<Null, g1, g1, Null, l1>>

\* The fifth company is stored with a board that is gone.
MCRow(c) ==
    {[val |-> [f \in MCField |-> IF f = "name" THEN IF c = 1 THEN alpha ELSE beta
                                 ELSE IF f = "domain" THEN DomainOf[c] ELSE AtsRow(b)[f]],
      prov |-> [f \in MCField |-> IF f = "name" \/ (f = "domain" /\ c # 1) THEN seed
                                  ELSE IF f = "domain" \/ b = Null THEN Null
                                  ELSE IssuedBy[b]]] :
        b \in IF c = 5 THEN {g0} ELSE {Null}}

MCConfigured == {{site}, {greenhouse, lever}}

MCInit ==
    /\ enabled \in Configured
    /\ row \in {r \in [Company -> UNION {MCRow(c) : c \in Company}] :
                    \A c \in Company : r[c] \in MCRow(c)}
    /\ seen = [k \in Visitor |-> [c \in Company |-> 0]]
    /\ ext = [k \in Visitor |-> [c \in Company |-> Null]]
    /\ aged = {} /\ run = [k \in Visitor |-> Null] /\ commands = 0 /\ faults = 0

MCSpec == MCInit /\ [][Next]_vars /\ Fairness
=============================================================================
