\* Two modals and two panels at the side, three items, four panels, tabs, cards.
SPECIFICATION PageSpec
CONSTANTS
    Modals = {m1, m2}
    Offcanvases = {o1, o2}
    Fading = {m1}
    Dimming = {m1, m2, o1}
    Scrolling = {o2}
    NoDialog = NoDialog
    MaxQueue = 2
    ItemCount = 3
    MaxDeferred = 3
    PanelCount = 4
    PanelTriggers = {1, 2, 3, 4, 5}
    Targets <- MCTargets
    TabCount = 4
    FadingPanels = {1, 2, 3}
    DisabledTabs = {3}
    MaxPending = 3
    MaxShows = 3
    Images = {i1, i2}
    Videos = {v1, v2}
    Blank = {i2}
    MaxCalls = 2
    CardCount = 4
INVARIANTS
    BodyRestored
    ShownSettles
    ActiveAgrees
    PanelsAgree
    PanelsSettle
    OneVideoEach
    CardsShowTheirOwn
PROPERTIES
    TransitionsEnd
    JumpsServed
    ToastLeaves
\* A page whose scripts have run and whose images are loaded may be at rest.
CHECK_DEADLOCK FALSE
