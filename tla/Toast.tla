------------------------------- MODULE Toast -------------------------------
(***************************************************************************)
(* A toast of the Bootstrap sources shipped with the older admin site: it  *)
(* fades in, hides by itself some time later unless the mouse is over it   *)
(* or the focus is in it, and fades out.  What is to be done when a        *)
(* transition ends waits at the element, and the end of one transition     *)
(* runs everything that waits.  Calls, the mouse, the focus, the end of    *)
(* transitions and the timers come in any order.                           *)
(*                                                                         *)
(* _timeout knows one timer; a timer set while another one runs leaves     *)
(* that one out of reach, but running.  Delays, dispose and listeners that *)
(* prevent a show or a hide are left out.                                  *)
(***************************************************************************)
EXTENDS Naturals

CONSTANT MaxShows   \* bound: the calls of show

ASSUME ToastAssumption == MaxShows \in Nat

VARIABLES
    toast,      \* the class show, and what waits for the transition: how many
                \* callbacks of show, and whether one of hide
    interest,   \* _hasMouseInteraction, _hasKeyboardInteraction
    timers,     \* the timer _timeout knows, and the others that run
    toastConfig,    \* animation, autohide; chosen at the start
    shows       \* the calls of show so far

toastVars == <<toast, interest, timers, toastConfig, shows>>

ToastInit ==
    /\ toast = [shown |-> FALSE, shows |-> 0, hides |-> FALSE]
    /\ interest = {}
    /\ timers = [known |-> FALSE, others |-> 0]
    /\ toastConfig \in [animation : BOOLEAN, autohide : BOOLEAN]
    /\ shows = 0

Cleared(t) == [t EXCEPT !.known = FALSE]

\* _maybeScheduleHide, so many times: it does not clear the timer before.
MaybeScheduled(t, times, held) ==
    IF ~toastConfig.autohide \/ held # {} \/ times = 0 THEN t
    ELSE [known |-> TRUE,
          others |-> t.others + times - (IF t.known THEN 0 ELSE 1)]

-----------------------------------------------------------------------------

ToastShow ==
    /\ shows < MaxShows
    /\ shows' = shows + 1
    /\ IF toastConfig.animation
       THEN /\ toast' = [toast EXCEPT !.shown = TRUE, !.shows = @ + 1]
            /\ timers' = Cleared(timers)
       ELSE /\ toast' = [toast EXCEPT !.shown = TRUE]
            /\ timers' = MaybeScheduled(Cleared(timers), 1, interest)
    /\ UNCHANGED <<interest, toastConfig>>

Hide ==
    IF ~toast.shown THEN UNCHANGED toast
    ELSE toast' = IF toastConfig.animation
                  THEN [toast EXCEPT !.hides = TRUE]
                  ELSE [toast EXCEPT !.shown = FALSE]

\* Called by a script, or by a click at the button that dismisses it.
ToastHide ==
    /\ Hide
    /\ UNCHANGED <<interest, timers, toastConfig, shows>>

ToastTransitionEnd ==
    /\ toast.shows > 0 \/ toast.hides
    /\ timers' = MaybeScheduled(timers, toast.shows, interest)
    /\ toast' = [shown |-> toast.shown /\ ~toast.hides,
                 shows |-> 0, hides |-> FALSE]
    /\ UNCHANGED <<interest, toastConfig, shows>>

\* mouseover and focusin
Interacts ==
    /\ toast.shown
    /\ \E kind \in {"mouse", "keyboard"} : interest' = interest \union {kind}
    /\ timers' = Cleared(timers)
    /\ UNCHANGED <<toast, toastConfig, shows>>

\* Mutant: nobody sets the timer again.
LeavesUnscheduled ==
    /\ \E kind \in interest : interest' = interest \ {kind}
    /\ UNCHANGED <<toast, timers, toastConfig, shows>>

\* mouseout and focusout; from one part of the toast to another both events of
\* the pair come together, and nothing but the timer changes (Interacts).
Leaves ==
    /\ \E kind \in interest : interest' = interest \ {kind}
    /\ timers' = MaybeScheduled(timers, 1, interest')
    /\ UNCHANGED <<toast, toastConfig, shows>>

\* The timer _timeout knows, or another one
ToastTimeout ==
    /\ \/ timers.known /\ timers' = Cleared(timers)
       \/ timers.others > 0 /\ timers' = [timers EXCEPT !.others = @ - 1]
    /\ Hide
    /\ UNCHANGED <<interest, toastConfig, shows>>

ToastNext ==
    \/ ToastShow \/ ToastHide \/ ToastTransitionEnd
    \/ Interacts \/ Leaves \/ ToastTimeout

ToastSpec ==
    /\ ToastInit /\ [][ToastNext]_toastVars
    /\ WF_toastVars(ToastTransitionEnd) /\ WF_toastVars(ToastTimeout)

-----------------------------------------------------------------------------

\* A toast that hides by itself does not stay for ever: it is hidden in the
\* end, or the mouse is over it or the focus in it, however its shows, hides
\* and the visits of the mouse and of the focus come between its transitions.
ToastLeaves ==
    (toastConfig.autohide /\ toast.shown) ~> (~toast.shown \/ interest # {})
=============================================================================
