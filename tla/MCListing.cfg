\* Two lists, one reader, two changes of the rows while pages are loaded.
CONSTANTS
    bay = bay
    hudson = hudson
    code = code
    sell = sell
    noted = noted
    Untouched = Untouched
    Null = Null
    Blank = Blank
    CompanyId = {1, 2, 3}
    JobId = {1, 2, 3}
    NameOf <- MCNameOf
    OfficeOf <- MCOfficeOf
    CityOf <- MCCityOf
    MetroOf <- MCMetroOf
    AmountOf <- MCAmountOf
    OwnerOf <- MCOwnerOf
    PostedOf <- MCPostedOf
    SeenOf <- MCSeenOf
    Family = {code, sell}
    FamilyOf <- MCFamilyOf
    FlexibleOf <- MCFlexibleOf
    Status = {Untouched, noted}
    FormUrl <- MCFormUrl
    Limit = 1
    MaxChanges = 2
SPECIFICATION PatientSpec
INVARIANTS SteadyRowsShownOnce RolesAgree
PROPERTIES BrowseEnds PanelKeepsState
CHECK_DEADLOCK FALSE
