----------------------------- MODULE MCListing ------------------------------
(***************************************************************************)
(* Three companies, two with the same name; three jobs, one without a      *)
(* posting date; one office each but for the first company, which has two. *)
(***************************************************************************)
EXTENDS Listing

CONSTANTS bay, hudson, code, sell, noted

MCNameOf == <<2, 1, 2>>
MCOfficeOf == <<{"sf", "nyc"}, {"sf"}, {"nyc"}>>
MCCityOf == [sf |-> "sf", nyc |-> "nyc"]
MCMetroOf == [sf |-> bay, nyc |-> hudson]
MCAmountOf == <<Null, 3, 5>>
MCOwnerOf == <<1, 1, 2>>
MCPostedOf == <<Null, 2, 2>>
MCSeenOf == <<1, 1, 1>>
MCFamilyOf == <<code, sell, code>>
MCFlexibleOf == <<TRUE, FALSE, FALSE>>

Everything(view) ==
    [view |-> view, cities |-> {}, metros |-> {}, families |-> {}, tracking |-> {},
     amount_min |-> Blank, flexible |-> FALSE, open_roles |-> FALSE, closed |-> FALSE,
     sort |-> Blank, cursor |-> Null]

MCFormUrl ==
    {[Everything("companies") EXCEPT !.sort = s] : s \in CompanySort \union {"posted"}}
    \union {[Everything("roles") EXCEPT !.sort = s, !.closed = c] :
                s \in JobSort, c \in BOOLEAN}
    \union {[Everything("companies") EXCEPT !.tracking = {Untouched, Blank}],
            [Everything("companies") EXCEPT !.metros = {bay}, !.cities = {"nyc", Blank}],
            [Everything("companies") EXCEPT !.open_roles = TRUE],
            [Everything("companies") EXCEPT !.amount_min = 4],
            [Everything("companies") EXCEPT !.families = {code}],
            [Everything("roles") EXCEPT !.families = {sell}, !.flexible = TRUE],
            [Everything("roles") EXCEPT !.families = {"nosuch"}]}
=============================================================================
