---------------------------- MODULE MCHttpClient ----------------------------
(***************************************************************************)
(* Two overlapping callers of one site: the bare domain and its www. host  *)
(* are two origins with a robots.txt each, in one bucket.  A behaviour is  *)
(* about the limits, or, once pages change or are cached, about the cache  *)
(* of the bare domain's page, whose robots.txt then denies nothing: the    *)
(* states are the sum of the two, and not their product.                   *)
(***************************************************************************)
EXTENDS HttpClient

CONSTANTS bare, www, acme, first, second

MCHostOf == [u \in Url |-> acme]
MCOriginOf == [u \in Url |-> u]
Plain == [deny |-> {}, delay |-> 0]
MCRules == {Plain, [deny |-> Url \ {bare}, delay |-> Far], [deny |-> Url, delay |-> 0]}
MCAsked == {[url |-> bare, method |-> "HEAD"], [url |-> www, method |-> "POST"],
            [url |-> bare, method |-> "GET"]}

Caching ==
    \/ \E u \in Url : cache[u] # Null \/ page[u] # 0
    \/ \E c \in Caller : req[c] # Null /\ req[c].method = "GET"

\* What the environment is held to: which requests are made, what servers change
\* and answer. Every await of a caller may still return.
MCFocus ==
    Caching =>
        /\ \A o \in Origin : robots[o] \in {Null, Plain}
        /\ \A u \in Url \ {bare} : cache[u] = Null /\ page[u] = 0
        /\ \A c \in Caller : req[c] # Null => req[c].url = bare

MCSpec == Init /\ [][Next /\ MCFocus']_vars /\ Fairness
=============================================================================
