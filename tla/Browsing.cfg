\* At most four links, two to a page, any of them found by the filter; typed
\* addresses ask for the page 0 or 1 and a size of 0 or the default.
SPECIFICATION BrowsingSpec
CONSTANTS
    MaxId = 4
    PageSize = 2
    MaxSize = 0
    MaxPage = 1
    NoRequest = NoRequest
INVARIANTS
    WalkSeesEachOnce
    AnchorsLeadToLinks
