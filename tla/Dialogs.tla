------------------------------ MODULE Dialogs ------------------------------
(***************************************************************************)
(* The modals and the offcanvas panels of the Bootstrap sources shipped    *)
(* with the older admin site, on one page.  They share the body (its       *)
(* scroll bar, its class modal-open), the document (the focus trap's       *)
(* listeners), and they wait for transitions: what is to be done when the  *)
(* transition of an element ends is queued at the element                  *)
(* (executeAfterTransition).  A transitionend, the browser's or the one a  *)
(* timer dispatches when the browser gives none, reaches every handler of  *)
(* the element, so it runs the whole queue.  Calls of show and hide come   *)
(* between.                                                                *)
(*                                                                         *)
(* The calls are sequential programs over shared state: each is an         *)
(* operator from the state of the page to the next one.  Padding, focus    *)
(* restoring, the bounce of a static backdrop and listeners that prevent a *)
(* show or a hide are left out.                                            *)
(***************************************************************************)
EXTENDS Naturals, Sequences, SequencesExt

CONSTANTS
    Modals, Offcanvases,
    Fading,     \* the modals with the class fade: their steps are animated
    Dimming,    \* the dialogs configured with a backdrop
    Scrolling,  \* the panels configured to leave the body its scroll bar
    NoDialog,
    MaxQueue    \* bound: the callbacks that wait at one element

DialogSet == Modals \union Offcanvases

ASSUME DialogsAssumption ==
    /\ Modals \intersect Offcanvases = {}
    /\ Fading \subseteq Modals
    /\ Dimming \subseteq DialogSet
    /\ Scrolling \subseteq Offcanvases
    /\ NoDialog \notin DialogSet

VARIABLE screen

\* The elements that have transitions: the dialog's own, the .modal-dialog in
\* it, its backdrop.
Places == {"element", "inner", "backdrop"}

DialogsInit ==
    screen = [shown |-> {},     \* _isShown
              busy |-> {},      \* _isTransitioning, of modals only
              lit |-> {},       \* the class show of the element
              aria |-> {},      \* aria-modal
              drops |-> {},     \* Backdrop._isAppended
              traps |-> {},     \* FocusTrap._isActive
              listener |-> NoDialog,    \* whose trap listens at the document
              overflow |-> FALSE,       \* body: overflow is hidden
              saved |-> FALSE,          \* body: data-bs-overflow is there
              modalOpen |-> FALSE,      \* body: the class modal-open
              queue |-> [d \in DialogSet |-> [place \in Places |-> <<>>]]]

\* executeAfterTransition of an element that has a transition.
AfterTransition(s, d, place, callback) ==
    [s EXCEPT !.queue[d][place] = Append(@, callback)]

-----------------------------------------------------------------------------
(* ScrollBarHelper and FocusTrap                                           *)

\* _saveInitialAttribute saves only a value that is set: the second dialog
\* saves "hidden", and so does the third.
ScrollHidden(s) == [s EXCEPT !.saved = @ \/ s.overflow, !.overflow = TRUE]

\* Mutant: the saved value is given back and kept.
ScrollResetKeeps(s) ==
    IF s.saved THEN s ELSE [s EXCEPT !.overflow = FALSE]

\* The saved value is given back and forgotten; without one overflow goes.
ScrollReset(s) ==
    IF s.saved THEN [s EXCEPT !.saved = FALSE]
               ELSE [s EXCEPT !.overflow = FALSE]

\* off(document, EVENT_KEY) takes the listeners of every trap.
TrapActivated(s, d) ==
    IF d \in s.traps THEN s
    ELSE [s EXCEPT !.traps = @ \union {d}, !.listener = d]

TrapDeactivated(s, d) ==
    IF d \notin s.traps THEN s
    ELSE [s EXCEPT !.traps = @ \ {d}, !.listener = NoDialog]

\* Backdrop.show appends it, Backdrop.dispose removes it.
Appended(s, d) ==
    IF d \in Dimming THEN [s EXCEPT !.drops = @ \union {d}] ELSE s
Disposed(s, d) == [s EXCEPT !.drops = @ \ {d}]

-----------------------------------------------------------------------------
(* Modal                                                                   *)

\* Mutant: the modal stays in transition.
ModalShownBusy(s, m) == TrapActivated(s, m)

\* transitionComplete of _showElement
ModalShown(s, m) ==
    [TrapActivated(s, m) EXCEPT !.busy = @ \ {m}]

ShowElement(s, m) ==
    LET lit == [s EXCEPT !.aria = @ \union {m}, !.lit = @ \union {m}]
    IN  IF m \in Fading THEN AfterTransition(lit, m, "inner", "shown")
                        ELSE ModalShown(lit, m)

\* The callback _hideModal gives to its backdrop, after the backdrop's own.
BackdropHidden(s, m) ==
    ScrollReset([Disposed(s, m) EXCEPT !.modalOpen = FALSE])

HideModal(s, m) ==
    LET dark == [s EXCEPT !.aria = @ \ {m}, !.busy = @ \ {m}]
    IN  IF m \in Fading \intersect Dimming
        THEN AfterTransition(dark, m, "backdrop", "hidden")
        ELSE BackdropHidden(dark, m)

ModalShow(s, m) ==
    IF m \in s.shown \union s.busy THEN s
    ELSE LET open == Appended(
                [ScrollHidden(s) EXCEPT !.shown = @ \union {m},
                                        !.busy = @ \union {m},
                                        !.modalOpen = TRUE], m)
         IN  IF m \in Fading \intersect Dimming
             THEN AfterTransition(open, m, "backdrop", "showElement")
             ELSE ShowElement(open, m)

ModalHide(s, m) ==
    IF m \notin s.shown \/ m \in s.busy THEN s
    ELSE LET closing == [TrapDeactivated(s, m) EXCEPT !.shown = @ \ {m},
                                                      !.busy = @ \union {m},
                                                      !.lit = @ \ {m}]
         IN  IF m \in Fading
             THEN AfterTransition(closing, m, "element", "hidden")
             ELSE HideModal(closing, m)

ModalToggle(s, m) == IF m \in s.shown THEN ModalHide(s, m) ELSE ModalShow(s, m)

-----------------------------------------------------------------------------
(* Offcanvas: nothing is refused while a transition is under way.          *)

OffcanvasShow(s, o) ==
    IF o \in s.shown THEN s
    ELSE LET open == [Appended(s, o) EXCEPT !.shown = @ \union {o}]
             still == IF o \in Scrolling THEN open ELSE ScrollHidden(open)
         IN  AfterTransition([still EXCEPT !.aria = @ \union {o}],
                             o, "element", "shown")

\* completeCallBack of show: with a backdrop, or none and no scrolling, the
\* trap is set.
OffcanvasShown(s, o) ==
    LET trapped == IF o \in Scrolling \ Dimming THEN s ELSE TrapActivated(s, o)
    IN  [trapped EXCEPT !.lit = @ \union {o}]

\* Mutant: hide does not wait for show.
OffcanvasHideAtOnce(s, o) ==
    IF o \notin s.shown THEN s
    ELSE LET closed == [TrapDeactivated(Disposed(s, o), o)
                          EXCEPT !.shown = @ \ {o},
                                 !.lit = @ \ {o}, !.aria = @ \ {o}]
         IN  IF o \in Scrolling THEN closed ELSE ScrollReset(closed)

OffcanvasHide(s, o) ==
    IF o \notin s.shown THEN s
    ELSE LET closing == [TrapDeactivated(s, o) EXCEPT !.shown = @ \ {o}]
             dimmer == IF o \in Dimming
                       THEN AfterTransition(closing, o, "backdrop", "hidden")
                       ELSE closing
         IN  AfterTransition(dimmer, o, "element", "hidden")

\* completeCallback of hide
OffcanvasHidden(s, o) ==
    LET dark == [s EXCEPT !.lit = @ \ {o}, !.aria = @ \ {o}]
    IN  IF o \in Scrolling THEN dark ELSE ScrollReset(dark)

OffcanvasToggle(s, o) ==
    IF o \in s.shown THEN OffcanvasHide(s, o) ELSE OffcanvasShow(s, o)

-----------------------------------------------------------------------------
(* The steps of the page                                                   *)

CanQueue(s) == \A d \in DialogSet, place \in Places :
                  Len(s.queue[d][place]) <= MaxQueue

Step(s) == CanQueue(s) /\ screen' = s

CallShow == \/ \E m \in Modals : Step(ModalShow(screen, m))
            \/ \E o \in Offcanvases : Step(OffcanvasShow(screen, o))

\* A script, a dismiss button, the escape key, a click beside the dialog.
CallModalHide == \E m \in Modals : Step(ModalHide(screen, m))
CallOffcanvasHide == \E o \in Offcanvases : Step(OffcanvasHide(screen, o))

\* A toggler of a modal first hides the one that findOne(".modal.show") finds,
\* which may be the modal itself.
ClickModalToggler ==
    \E m \in Modals :
        LET open == screen.lit \intersect Modals
        IN  \/ open = {} /\ Step(ModalToggle(screen, m))
            \/ \E first \in open :
                  Step(ModalToggle(ModalHide(screen, first), m))

\* A toggler of a panel does so with another panel only.
ClickOffcanvasToggler ==
    \E o \in Offcanvases :
        LET open == screen.lit \intersect Offcanvases
        IN  \/ open \subseteq {o} /\ Step(OffcanvasToggle(screen, o))
            \/ \E first \in open \ {o} :
                  Step(OffcanvasToggle(OffcanvasHide(screen, first), o))

\* A resize hides the panels with aria-modal that are no longer fixed.
ResizeWindow ==
    \E wide \in SUBSET (screen.aria \intersect Offcanvases) :
        Step(FoldSet(LAMBDA o, s : OffcanvasHide(s, o), screen, wide))

Callback(s, d, place, callback) ==
    CASE d \in Modals /\ callback = "showElement" -> ShowElement(s, d)
      [] d \in Modals /\ callback = "shown" -> ModalShown(s, d)
      [] d \in Modals /\ place = "element" -> HideModal(s, d)
      [] d \in Modals /\ place = "backdrop" /\ callback = "hidden" ->
            BackdropHidden(s, d)
      [] d \in Offcanvases /\ callback = "shown" -> OffcanvasShown(s, d)
      [] d \in Offcanvases /\ place = "element" /\ callback = "hidden" ->
            OffcanvasHidden(s, d)
      [] d \in Offcanvases /\ place = "backdrop" -> Disposed(s, d)

\* The handlers of one transitionend run in the order they were added; one
\* that is added meanwhile waits for the next.
TransitionEnd(d, place) ==
    /\ screen.queue[d][place] # <<>>
    /\ screen' = FoldLeft(LAMBDA s, callback : Callback(s, d, place, callback),
                          [screen EXCEPT !.queue[d][place] = <<>>],
                          screen.queue[d][place])

DialogsNext ==
    \/ CallShow \/ CallModalHide \/ CallOffcanvasHide
    \/ ClickModalToggler \/ ClickOffcanvasToggler \/ ResizeWindow
    \/ \E d \in DialogSet, place \in Places : TransitionEnd(d, place)

\* The timer of executeAfterTransition ends every transition.
DialogsFairness ==
    \A d \in DialogSet, place \in Places : WF_screen(TransitionEnd(d, place))

DialogsSpec == DialogsInit /\ [][DialogsNext]_screen /\ DialogsFairness

-----------------------------------------------------------------------------

Settled(d) == \A place \in Places : screen.queue[d][place] = <<>>

\* When no transition is under way and every dialog is closed, the page is as
\* it was before the first one opened, whatever was opened over what and
\* however fast it was clicked: it scrolls, no overflow is saved, no backdrop
\* is left, no element claims to be modal, and no trap of a modal is set.
\* (ScrollBarHelper keeps one saved value for all the dialogs of a page.)  The
\* traps of panels are left out: one that is hidden before it has opened sets
\* its trap after hide has deactivated it, and keeps it.
BodyRestored ==
    (\A d \in DialogSet : Settled(d) /\ d \notin screen.shown) =>
        /\ ~screen.overflow /\ ~screen.saved /\ ~screen.modalOpen
        /\ screen.drops = {} /\ screen.aria = {} /\ screen.lit = {}
        /\ screen.traps \intersect Modals = {}

\* What a dialog shows follows what was asked last: once its transitions are
\* over its element has the class show exactly while isShown, and a modal that
\* is open claims to be modal and its trap is active.  (The callbacks of a panel
\* that is hidden before it has opened are run together.)  Active is what the
\* trap says of itself: its listener may be gone, as another trap takes the
\* listeners of all.
ShownSettles ==
    \A d \in DialogSet : Settled(d) =>
        /\ d \in screen.shown <=> d \in screen.lit
        /\ d \notin screen.busy
        /\ d \in Modals \intersect screen.shown =>
              d \in screen.aria \intersect screen.traps

\* A modal is not deaf for ever: it ignores show and hide while in transition,
\* and every transition ends in callbacks that end it.
TransitionsEnd ==
    \A m \in Modals : m \in screen.busy ~> m \notin screen.busy
=============================================================================
