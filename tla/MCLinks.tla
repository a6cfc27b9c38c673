------------------------------ MODULE MCLinks -------------------------------
(***************************************************************************)
(* Two companies of an earlier phase and a third that is inserted; two     *)
(* domains that give one LinkedIn page, and an account that is neither's.  *)
(***************************************************************************)
EXTENDS Links, TLC

CONSTANTS com, io, acme, numeric, old, alpha, beta, findalpha, findbeta, findblank,
          site, edgar, e1, e2, ann, ceo

MCLinkOf == (com :> acme) @@ (io :> acme)
MCSearchOf == (alpha :> findalpha) @@ (beta :> findbeta) @@ (Blank :> findblank)

MCRecord ==
    {[connector |-> site, external_id |-> Null, name |-> alpha, domain |-> com,
      published |-> {<<"linkedin_company", a>>}, people |-> {<<ann, ceo>>}] : a \in {acme, numeric}}
    \cup {[connector |-> edgar, external_id |-> i, name |-> beta, domain |-> d,
           published |-> {}, people |-> {<<ann, Null>>}] : i \in {e1, e2}, d \in {Null, io}}

MCDrift == {[k \in Key |-> IF k \in {<<"linkedin_company", old>>, <<"linkedin_people", findbeta>>}
                           THEN "constructed" ELSE "none"]}

MCInit ==
    /\ Init
    /\ company[1] = [name |-> alpha, domain |-> Null]
    /\ company[2] \in {[name |-> n, domain |-> com] : n \in {beta, Blank}}
    /\ company[3] = Null
    /\ contact[1] # NoContact
MCSpec == MCInit /\ [][Next]_vars
=============================================================================
