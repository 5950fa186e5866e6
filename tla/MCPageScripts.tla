--------------------------- MODULE MCPageScripts ---------------------------
(* The scripts of pages, one kind of part at a time: the part in use is    *)
(* chosen at the start and moves, the others stand still in one of their   *)
(* initial states.  Their modules share no element of a page.              *)
EXTENDS Dialogs, Carousel, Collapse, Tabs, Toast, LazyLoading, CardImages

VARIABLE part

pageVars == <<screen, carouselVars, collapseVars, tabsVars, toastVars,
              lazyVars, cardVars, part>>

Parts == {"dialogs", "carousel", "collapse", "tabs", "toast", "lazy", "cards"}

\* The panels of the triggers; the last one has two.
MCTargets == [trigger \in PanelTriggers |->
                 IF trigger > PanelCount THEN <<1, 2>> ELSE <<trigger>>]

PageInit ==
    /\ part \in Parts
    /\ CarouselInit
    /\ part # "carousel" =>
          /\ indicator = 0
          /\ config = [wrap |-> TRUE, ride |-> "false", hover |-> TRUE]
    /\ CollapseInit
    /\ part # "collapse" => accordion /\ \A p \in Panels : ~IsShown(folds, p)
    /\ TabsInit
    /\ part # "tabs" => activeTabs = {1}
    /\ ToastInit
    /\ part # "toast" => ~toastConfig.animation /\ ~toastConfig.autohide
    /\ CardsInit
    /\ part # "cards" => /\ page = "home"
                         /\ \A card \in Cards : original[card] = Nowhere
    /\ DialogsInit
    /\ LazyInit

PageNext ==
    /\ UNCHANGED part
    /\ \/ /\ part = "dialogs" /\ DialogsNext
          /\ UNCHANGED <<carouselVars, collapseVars, tabsVars, toastVars,
                         lazyVars, cardVars>>
       \/ /\ part = "carousel" /\ CarouselNext
          /\ UNCHANGED <<screen, collapseVars, tabsVars, toastVars, lazyVars,
                         cardVars>>
       \/ /\ part = "collapse" /\ CollapseNext
          /\ UNCHANGED <<screen, carouselVars, tabsVars, toastVars, lazyVars,
                         cardVars>>
       \/ /\ part = "tabs" /\ TabsNext
          /\ UNCHANGED <<screen, carouselVars, collapseVars, toastVars,
                         lazyVars, cardVars>>
       \/ /\ part = "toast" /\ ToastNext
          /\ UNCHANGED <<screen, carouselVars, collapseVars, tabsVars,
                         lazyVars, cardVars>>
       \/ /\ part = "lazy" /\ LazyNext
          /\ UNCHANGED <<screen, carouselVars, collapseVars, tabsVars,
                         toastVars, cardVars>>
       \/ /\ part = "cards" /\ CardsNext
          /\ UNCHANGED <<screen, carouselVars, collapseVars, tabsVars,
                         toastVars, lazyVars>>

\* The end of a transition and a timer come; what was asked for need not.
PageSpec ==
    /\ PageInit /\ [][PageNext]_pageVars
    /\ DialogsFairness
    /\ WF_carouselVars(Slid)
    /\ WF_toastVars(ToastTransitionEnd) /\ WF_toastVars(ToastTimeout)
=============================================================================
