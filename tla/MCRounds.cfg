CONSTANTS
    t1 = t1
    t2 = t2
    edgar = edgar
    original = original
    amended = amended
    fileNumber = fileNumber
    Null = Null
    Task = {t1, t2}
    Connector = {edgar}
    Filing = {original, amended}
    Offering = {fileNumber}
    Amendment = {amended}
    SearchDays = 2
    MaxTime = 1
    OverlapDays = 1
    BackfillDays = 1
    HitCap = 1
    MaxRows = 2
    Date <- MCDate
    MayRun <- MCMayRun
    SinceOf <- MCSinceOf
    SourceOf <- MCSourceOf
    OfferingOf <- MCOfferingOf
    Column <- MCColumn
    States <- MCStates
    Accession <- MCAccession
SYMMETRY MCSymmetry
SPECIFICATION RoundsSpec
INVARIANT ColumnsAreNewest
PROPERTY FetchIsScan
CHECK_DEADLOCK FALSE
