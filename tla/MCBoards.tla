------------------------------ MODULE MCBoards ------------------------------
(***************************************************************************)
(* Two providers, one of which outranks the other; one company that moves  *)
(* between three boards.                                                   *)
(***************************************************************************)
EXTENDS Boards, TLC

CONSTANTS greenhouse, workable, g1, w1, w2, serve

MCPriority == <<greenhouse, workable>>
MCValue == {greenhouse, workable, g1, w1, w2}
MCField == {"name", "domain", "ats_provider", "ats_token"}
MCIssuedBy == (g1 :> greenhouse) @@ (w1 :> workable) @@ (w2 :> workable)
MCMayRun == [p \in Process |-> IF p = serve THEN Ats ELSE {workable}]
\* The company has a board of the provider that ranks lower, with a posting.
MCInit == Init /\ \A c \in Company : page[c] = w1 /\ board[w1] # {}
MCSpec == MCInit /\ [][Next]_vars /\ Fairness
=============================================================================
