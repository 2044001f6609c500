SPECIFICATION Spec
CONSTANTS
    LastName = 3
    Roles <- MCRoles
    Values <- MCValues
    Blank = "blank"
    Contents <- MCContents
    NoList = NoList
    Filters <- MCFilters
    NamesInOrder = TRUE
    RolesAtFirst = TRUE
    RoleBeforeRows = TRUE
    RoleBeforeCallback = TRUE
    ClearedWhenLeft = TRUE
INVARIANTS
    ViewMatches
    RolesShown
    RowsAreCurrent
    FilterRight
