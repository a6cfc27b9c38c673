\* Two processes and a sweep; one edit.
CONSTANTS
    bay = bay
    east = east
    own = own
    sf = sf
    SF = SF
    frisco = frisco
    oak = oak
    one = one
    two = two
    ai = ai
    fund = fund
    Null = Null
    Process = {scheduler, refresh}
    Metro = {bay, east, own}
    Spelling = {sf, SF, frisco, oak}
    Folded <- MCFolded
    Rank <- MCRank
    Company = {one, two}
    Shared = {ai, fund}
    File <- MCFile
    Record <- MCRecord
    Stored <- MCStored
    Batch = 1
    MaxEdits = 1
    MaxRecords = 2
    MaxSweeps = 1
SPECIFICATION Spec
INVARIANT CitiesAloneNeverDeadlock
PROPERTIES LabelsSettle RecipeReachesAll
\* With a file that does not load and bounds used up, everything stops.
CHECK_DEADLOCK FALSE
