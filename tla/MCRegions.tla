------------------------------ MODULE MCRegions ------------------------------
(***************************************************************************)
(* Two metros and four spellings, one the capitals of another; files that  *)
(* move a city, learn an alias, switch a region off or do not load.  One   *)
(* record creates a company that resembles another, and one updates the    *)
(* latter and reports a domain that is a third one's; a third lists its    *)
(* investors the other way round.                                          *)
(***************************************************************************)
EXTENDS Regions

CONSTANTS bay, east, own, sf, SF, frisco, oak, one, two, ai, fund

Entry(n, A) == [name |-> n, aliases |-> A]
Block(m, on, C) == [metro |-> m, enabled |-> on, cities |-> C]

MCFile == {
    {Block(bay, TRUE, {Entry(sf, {}), Entry(oak, {})})},
    {Block(bay, TRUE, {Entry(sf, {frisco})}), Block(east, TRUE, {Entry(oak, {})})},
    {Block(bay, FALSE, {Entry(sf, {frisco})}), Block(east, TRUE, {Entry(oak, {})})},
    {Block(bay, TRUE, {Entry(sf, {oak})}), Block(east, TRUE, {Entry(oak, {})})} }

MCFolded == [s \in Spelling |-> IF s = SF THEN sf ELSE s]
MCRank == [s \in Spelling |-> CASE s = SF -> 1 [] s = frisco -> 2 [] s = oak -> 3 [] s = sf -> 4]

At(s, m) == [city |-> s, metro |-> m]
MCRecord ==
    {[company |-> Null, candidates |-> <<two>>, locations |-> <<At(oak, Null), At(SF, Null)>>,
      sectors |-> <<ai>>, investors |-> <<fund>>],
     [company |-> two, candidates |-> <<one>>,
      locations |-> <<At(sf, Null), At(oak, own), At(sf, own)>>,
      sectors |-> <<>>, investors |-> <<fund>>],
     [company |-> one, candidates |-> <<>>, locations |-> <<>>,
      sectors |-> <<>>, investors |-> <<fund, ai>>]}

MCStored == [s \in Spelling |-> IF s \in {frisco, oak} THEN own ELSE Null]
=============================================================================
