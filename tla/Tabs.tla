-------------------------------- MODULE Tabs --------------------------------
(***************************************************************************)
(* The tabs of one list and their panels, of the Bootstrap sources shipped *)
(* with the older admin site.  A tab is switched at once; a panel that     *)
(* fades gets or loses the class show when its transition ends, and by     *)
(* then the user may have switched again: what waits at the panel is done  *)
(* in one go.                                                              *)
(*                                                                         *)
(* Roles and labels, dropdowns among the tabs and listeners that prevent a *)
(* show or a hide are left out.                                            *)
(***************************************************************************)
EXTENDS Naturals, Sequences

CONSTANTS
    TabCount,
    FadingPanels,   \* the tabs whose panels have the class fade
    DisabledTabs,
    MaxPending      \* bound: the callbacks that wait at one panel

TabSet == 1 .. TabCount

ASSUME TabsAssumption ==
    /\ TabCount \in Nat \ {0}
    /\ FadingPanels \subseteq TabSet
    /\ DisabledTabs \subseteq TabSet /\ DisabledTabs # TabSet

VARIABLES
    activeTabs,     \* the tabs with the class active, and so are their panels
    selected,       \* the tabs with aria-selected
    focusable,      \* the tabs without tabindex -1
    shownPanels,    \* the panels with the class show
    pending         \* what waits at a panel: TRUE adds the class, FALSE
                    \* takes it

tabsVars == <<activeTabs, selected, focusable, shownPanels, pending>>

\* _setInitialAttributes, with one tab active in the markup
TabsInit ==
    /\ \E tab \in TabSet \ DisabledTabs : activeTabs = {tab}
    /\ selected = activeTabs
    /\ focusable = activeTabs
    /\ shownPanels = activeTabs
    /\ pending = [tab \in TabSet |-> <<>>]

\* _getActiveElem: the first one in the list.
ActiveTab ==
    CHOOSE tab \in activeTabs : \A other \in activeTabs \ {tab} : tab < other

\* _queueCallback for the panels that a switch hides and shows: at a panel
\* that does not fade the callback runs at once.
Queued(hides, shows) ==
    [tab \in TabSet |->
        IF tab \notin FadingPanels THEN pending[tab]
        ELSE IF tab = hides THEN Append(pending[tab], FALSE)
        ELSE IF tab = shows THEN Append(pending[tab], TRUE)
        ELSE pending[tab]]

\* show of a tab that is not active: _deactivate, _activate.
Switch(tab) ==
    /\ activeTabs' = (activeTabs \ {ActiveTab}) \union {tab}
    /\ selected' = (selected \ {ActiveTab}) \union {tab}
    /\ focusable' = (focusable \ {ActiveTab}) \union {tab}
    /\ shownPanels' = (shownPanels \ ({ActiveTab} \ FadingPanels))
                          \union ({tab} \ FadingPanels)
    /\ pending' = Queued(ActiveTab, tab)

ShowTab(tab) ==
    /\ tab \notin activeTabs
    /\ Switch(tab)
    /\ Len(pending'[ActiveTab]) <= MaxPending
    /\ Len(pending'[tab]) <= MaxPending

-----------------------------------------------------------------------------

\* The data API; scripts may show a disabled tab too.
ClickTab == \E tab \in TabSet \ DisabledTabs : ShowTab(tab)

CallShowTab == \E tab \in TabSet : ShowTab(tab)

\* getNextActiveElement among the tabs that are not disabled: the nearest one
\* ahead.  At the end of the list, and from a disabled tab, it goes on from the
\* other end.
NextEnabled(tab, isNext) ==
    LET enabled == TabSet \ DisabledTabs
        ahead == {t \in enabled : IF isNext THEN t > tab ELSE t < tab}
        among == IF tab \notin enabled \/ ahead = {} THEN enabled ELSE ahead
    IN  {t \in among : \A u \in among : IF isNext THEN t <= u ELSE t >= u}

\* The arrows at any tab that has the focus; Home and End count from none, 0.
KeyAtTab ==
    \E tab \in {0} \union TabSet, isNext \in BOOLEAN :
        \E next \in NextEnabled(tab, isNext) : ShowTab(next)

\* Mutant: the callbacks run the other way round, so the first one counts.
CompletedFirst(tab) == Head(pending[tab])

\* The callbacks of the panel run in their order, so the last one counts.
CompletedLast(tab) == pending[tab][Len(pending[tab])]

PanelFaded(tab) ==
    /\ pending[tab] # <<>>
    /\ shownPanels' = IF CompletedLast(tab) THEN shownPanels \union {tab}
                                            ELSE shownPanels \ {tab}
    /\ pending' = [pending EXCEPT ![tab] = <<>>]
    /\ UNCHANGED <<activeTabs, selected, focusable>>

TabsNext ==
    \/ ClickTab \/ CallShowTab \/ KeyAtTab
    \/ \E tab \in TabSet : PanelFaded(tab)

TabsSpec == TabsInit /\ [][TabsNext]_tabsVars

-----------------------------------------------------------------------------

\* However fast the user switches among tabs: one tab is active, it alone is
\* selected and can get the focus, and a panel with no transition under way
\* has the class show exactly if its tab is the active one.
PanelsSettle ==
    /\ \E tab \in TabSet :
          /\ activeTabs = {tab}
          /\ selected = {tab} /\ focusable = {tab}
    /\ \A tab \in TabSet :
          pending[tab] = <<>> => (tab \in shownPanels <=> tab \in activeTabs)
=============================================================================
