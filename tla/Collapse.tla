------------------------------ MODULE Collapse ------------------------------
(***************************************************************************)
(* The collapsible panels of the Bootstrap sources shipped with the older  *)
(* admin site, and their triggers, with or without a parent that makes an  *)
(* accordion of them.  A panel opens and closes over a transition; while   *)
(* it does, calls to it return at once and its siblings do not find it,    *)
(* since it has the class collapsing in the place of collapse.  An         *)
(* instance is made when a panel is first used, by a click or because a    *)
(* sibling opens, and sets the triggers as it is made.                     *)
(*                                                                         *)
(* Panels lie in the parent directly.  Dimensions and listeners that       *)
(* prevent a show or a hide are left out.                                  *)
(***************************************************************************)
EXTENDS Naturals, Sequences, SequencesExt

CONSTANTS
    PanelCount,
    PanelTriggers,  \* the elements with data-bs-toggle="collapse"
    Targets         \* the panels of a trigger, in the document's order

Panels == 1 .. PanelCount

ASSUME CollapseAssumption ==
    /\ PanelCount \in Nat
    /\ Targets \in [PanelTriggers -> Seq(Panels) \ {<<>>}]

VARIABLES
    accordion,  \* the panels have a parent; chosen at the start
    folds,      \* the state of the panels
    together    \* history: the open panels each open panel opened at once with

collapseVars == <<accordion, folds, together>>

\* What the classes and _isTransitioning say: "shown" is collapse with show,
\* "hidden" collapse alone, and the transitions have collapsing alone.
Phases == {"shown", "hidden", "opening", "closing"}

IsShown(s, panel) == s.phase[panel] = "shown"

IsTransitioning(s, panel) == s.phase[panel] \in {"opening", "closing"}

\* The markup is consistent, and opens one panel of an accordion at most.
CollapseInit ==
    /\ accordion \in BOOLEAN
    /\ \E open \in SUBSET Panels :
          /\ accordion => \A p, q \in open : p = q
          /\ folds =
               [phase |-> [panel \in Panels |->
                              IF panel \in open THEN "shown" ELSE "hidden"],
                expanded |-> {t \in PanelTriggers : Targets[t][1] \in open},
                made |-> {}]    \* the panels with an instance
    /\ together = [panel \in Panels |-> {}]

TriggersOf(panel) == {t \in PanelTriggers : panel \in Range(Targets[t])}

\* _initializeChildren: every trigger in the parent is set by its first panel.
ChildrenInitialized(s) ==
    [s EXCEPT !.expanded =
        {t \in PanelTriggers : IsShown(s, Targets[t][1])}]

\* The constructor
Made(s, panel) ==
    LET made == [s EXCEPT !.made = @ \union {panel}]
    IN  IF panel \in s.made THEN s
        ELSE IF accordion THEN ChildrenInitialized(made)
        ELSE [made EXCEPT
                !.expanded = IF IsShown(s, panel)
                             THEN @ \union TriggersOf(panel)
                             ELSE @ \ TriggersOf(panel)]

\* A trigger with another first panel stays expanded if that one is shown.
HidePanel(s, panel) ==
    IF IsTransitioning(s, panel) \/ ~IsShown(s, panel) THEN s
    ELSE LET t == [s EXCEPT !.phase[panel] = "closing"]
         IN  [t EXCEPT !.expanded =
                 @ \ {trigger \in TriggersOf(panel) :
                          ~IsShown(t, Targets[trigger][1])}]

\* The panels of a set, in the document's order.
InOrder(panels) ==
    FoldLeft(LAMBDA q, p : IF p \in panels THEN Append(q, p) ELSE q,
             <<>>, [p \in Panels |-> p])

\* Mutant: only the first of the shown siblings is found.
FirstActiveChild(s, panel) ==
    LET shown == {p \in Panels : p # panel /\ IsShown(s, p)}
    IN  InOrder({p \in shown : \A q \in shown : p <= q})

\* _getFirstLevelChildren(SELECTOR_ACTIVES) without the panel itself.  The
\* second selector, .collapse.collapsing, matches no panel: show and hide take
\* the class collapse away while they give collapsing.
ActiveChildren(s, panel) ==
    InOrder({p \in Panels : p # panel /\ IsShown(s, p)})

\* The first of the active siblings is asked whether it is in transition; none
\* of those found ever is.
ShowPanel(s, panel) ==
    LET actives == IF accordion THEN ActiveChildren(s, panel) ELSE <<>>
        made == FoldLeft(Made, s, actives)
        hidden == FoldLeft(HidePanel, made, actives)
    IN  IF IsTransitioning(s, panel) \/ IsShown(s, panel) THEN s
        ELSE IF actives # <<>> /\ IsTransitioning(made, Head(actives))
        THEN made
        ELSE [hidden EXCEPT
                !.phase[panel] = "opening",
                !.expanded = @ \union TriggersOf(panel)]

TogglePanel(s, panel) ==
    LET made == Made(s, panel)
    IN  IF IsShown(made, panel) THEN HidePanel(made, panel)
                                ELSE ShowPanel(made, panel)

-----------------------------------------------------------------------------

\* Two panels opened at once when both were in that transition.
RecordTogether ==
    LET Opening(p) == folds'.phase[p] = "opening"
        Open(p) == folds'.phase[p] \in {"shown", "opening"}
    IN  together' = [p \in Panels |->
                        {q \in Panels : \/ Opening(p) /\ Opening(q)
                                        \/ /\ q \in together[p]
                                           /\ Open(p) /\ Open(q)}]

\* The data API: every panel of the trigger is toggled, in one go.
ClickTrigger ==
    /\ \E t \in PanelTriggers : folds' = FoldLeft(TogglePanel, folds, Targets[t])
    /\ RecordTogether /\ UNCHANGED accordion

CallPanel ==
    /\ \E panel \in Panels :
          \/ folds' = ShowPanel(Made(folds, panel), panel)
          \/ folds' = HidePanel(Made(folds, panel), panel)
    /\ RecordTogether /\ UNCHANGED accordion

\* complete
PanelTransitionEnd(panel) ==
    /\ IsTransitioning(folds, panel)
    /\ folds' = [folds EXCEPT !.phase[panel] =
                    IF @ = "opening" THEN "shown" ELSE "hidden"]
    /\ RecordTogether /\ UNCHANGED accordion

CollapseNext ==
    \/ ClickTrigger \/ CallPanel
    \/ \E panel \in Panels : PanelTransitionEnd(panel)

CollapseSpec == CollapseInit /\ [][CollapseNext]_collapseVars

-----------------------------------------------------------------------------

\* Two panels of an accordion are open together only when they opened at once,
\* the one clicked within the opening transition of the other, where neither
\* finds the other; and they stay so only until a third is shown, which closes
\* both.  Without a parent, a trigger of one panel is expanded exactly when its
\* panel is open or opening.  (In an accordion it may stay collapsed: a
\* sibling's instance, made while the panel opens, takes it for closed.)
PanelsAgree ==
    LET open == {p \in Panels : folds.phase[p] \in {"shown", "opening"}}
    IN  IF accordion
        THEN \A p, q \in open : p # q => q \in together[p]
        ELSE \A t \in PanelTriggers : Len(Targets[t]) = 1 =>
                 (t \in folds.expanded <=> Targets[t][1] \in open)
=============================================================================
