------------------------------ MODULE Carousel ------------------------------
(***************************************************************************)
(* A carousel of the Bootstrap sources shipped with the older admin site,  *)
(* with the class slide and with indicators.  While an item slides in, a   *)
(* next or a prev is ignored, and a to or a restart of the cycle waits for *)
(* the event slid.  The timer that ends the transition, the interval of    *)
(* the cycle and the timer after a touch run beside the user.              *)
(*                                                                         *)
(* pause() dispatches a transitionend at the carousel itself; the handler  *)
(* listens at the item that slides out, so nothing comes of it.  The       *)
(* lengths of intervals and the classes of the direction are left out.     *)
(***************************************************************************)
EXTENDS Naturals, Sequences

CONSTANTS
    ItemCount,
    MaxDeferred     \* bound: the handlers that wait for slid

ASSUME CarouselAssumption == ItemCount \in Nat \ {0} /\ MaxDeferred \in Nat

Items == 0 .. ItemCount - 1

VARIABLES
    active,     \* the items with the class active
    sliding,    \* the slide under way, <<>> if none: <<from, to>>
    indicator,  \* the active indicator
    cycling,    \* _interval is set
    deferred,   \* the handlers that wait for slid, in their order
    touchTimer, \* touchTimeout is running
    config      \* wrap, ride and pause; chosen at the start

carouselVars == <<active, sliding, indicator, cycling, deferred, touchTimer,
                  config>>

To(item) == [call |-> "to", item |-> item]
Cycle == [call |-> "cycle", item |-> 0]

CarouselInit ==
    /\ config \in [wrap : BOOLEAN, ride : {"carousel", "true", "false"},
                   hover : BOOLEAN]
    /\ \E item \in Items : active = {item} /\ indicator = item
    /\ sliding = <<>>
    /\ cycling = (config.ride = "carousel")
    /\ deferred = <<>>
    /\ touchTimer = FALSE

\* _getActive: the first one in the document.
Current ==
    CHOOSE item \in active : \A other \in active \ {item} : item < other

\* getNextActiveElement
Neighbour(index, isNext) ==
    IF isNext
    THEN IF index < ItemCount - 1 THEN index + 1
         ELSE IF config.wrap THEN 0 ELSE index
    ELSE IF index > 0 THEN index - 1
         ELSE IF config.wrap THEN ItemCount - 1 ELSE index

\* _slide: a cycle that runs is started again.
Slide(item) ==
    IF sliding # <<>> \/ item = Current
    THEN UNCHANGED <<sliding, indicator>>
    ELSE sliding' = <<Current, item>> /\ indicator' = item

\* _maybeEnableCycle, after a call that may have started a slide and has left
\* the handlers waiting.
MaybeEnableCycle(waiting) ==
    /\ cycling' = (cycling \/ (config.ride # "false" /\ sliding' = <<>>))
    /\ deferred' = IF config.ride # "false" /\ sliding' # <<>>
                   THEN Append(waiting, Cycle) ELSE waiting
    /\ Len(deferred') <= MaxDeferred

-----------------------------------------------------------------------------
(* The user, scripts and the data API                                      *)

\* next(), prev(), the arrow keys
CallNext ==
    /\ \E isNext \in BOOLEAN : Slide(Neighbour(Current, isNext))
    /\ UNCHANGED <<active, cycling, deferred, touchTimer, config>>

\* The buttons with data-bs-slide
ClickControl ==
    /\ \E isNext \in BOOLEAN : Slide(Neighbour(Current, isNext))
    /\ MaybeEnableCycle(deferred)
    /\ UNCHANGED <<active, touchTimer, config>>

\* to(index): a slide under way is waited for.
CallTo ==
    /\ \E item \in Items :
          /\ Slide(item)
          /\ deferred' = IF sliding # <<>> THEN Append(deferred, To(item))
                                           ELSE deferred
    /\ Len(deferred') <= MaxDeferred
    /\ UNCHANGED <<active, cycling, touchTimer, config>>

\* The indicators, with data-bs-slide-to
ClickIndicator ==
    /\ \E item \in Items :
          /\ Slide(item)
          /\ MaybeEnableCycle(IF sliding # <<>>
                              THEN Append(deferred, To(item)) ELSE deferred)
    /\ UNCHANGED <<active, touchTimer, config>>

MouseEnter ==
    /\ config.hover
    /\ cycling' = FALSE
    /\ UNCHANGED <<active, sliding, indicator, deferred, touchTimer, config>>

MouseLeave ==
    /\ config.hover
    /\ UNCHANGED sliding
    /\ MaybeEnableCycle(deferred)
    /\ UNCHANGED <<active, indicator, touchTimer, config>>

\* Swipe._end: a swipe that is long enough slides.
HandleSwipe ==
    \/ \E isNext \in BOOLEAN : Slide(Neighbour(Current, isNext))
    \/ UNCHANGED <<sliding, indicator>>

\* At its end endCallBack pauses, and a timer is to go on.
SwipeEnd ==
    /\ HandleSwipe
    /\ cycling' = (cycling /\ ~config.hover)
    /\ touchTimer' = (touchTimer \/ config.hover)
    /\ UNCHANGED <<active, deferred, config>>

CallCycle ==
    /\ cycling' = TRUE
    /\ UNCHANGED <<active, sliding, indicator, deferred, touchTimer, config>>

-----------------------------------------------------------------------------
(* Timers                                                                  *)

\* nextWhenVisible
Interval ==
    /\ cycling
    /\ Slide(Neighbour(Current, TRUE))
    /\ UNCHANGED <<active, cycling, deferred, touchTimer, config>>

TouchTimeout ==
    /\ touchTimer /\ touchTimer' = FALSE
    /\ UNCHANGED sliding
    /\ MaybeEnableCycle(deferred)
    /\ UNCHANGED <<active, indicator, config>>

IsJump(i, item) == deferred[i].call = "to" /\ deferred[i].item # item

\* Mutant: the item that slides out keeps the class active.
ActiveAfterBoth == active \union {sliding[2]}

ActiveAfter == (active \union {sliding[2]}) \ {sliding[1]}

\* Mutant: what waits for a second slide is lost.
WaitingAfterNone(first) == <<>>

\* The calls of to behind the one that slides wait again.
WaitingAfter(first) ==
    SelectSeq(SubSeq(deferred, first + 1, Len(deferred)),
              LAMBDA handler : handler.call = "to")

\* completeCallBack, and the handlers of slid in their order: a to that has
\* arrived already does nothing, the first other one slides.
Slid ==
    /\ sliding # <<>>
    /\ active' = ActiveAfter
    /\ cycling' = (cycling \/ \E i \in DOMAIN deferred :
                                 deferred[i].call = "cycle")
    /\ IF \E i \in DOMAIN deferred : IsJump(i, sliding[2])
       THEN \E first \in DOMAIN deferred :
               /\ IsJump(first, sliding[2])
               /\ \A i \in 1 .. first - 1 : ~IsJump(i, sliding[2])
               /\ sliding' = <<sliding[2], deferred[first].item>>
               /\ indicator' = deferred[first].item
               /\ deferred' = WaitingAfter(first)
       ELSE /\ sliding' = <<>>
            /\ deferred' = <<>>
            /\ UNCHANGED indicator
    /\ UNCHANGED <<touchTimer, config>>

CarouselNext ==
    \/ CallNext \/ ClickControl \/ CallTo \/ ClickIndicator
    \/ MouseEnter \/ MouseLeave \/ SwipeEnd \/ CallCycle
    \/ Interval \/ TouchTimeout \/ Slid

CarouselSpec ==
    CarouselInit /\ [][CarouselNext]_carouselVars /\ WF_carouselVars(Slid)

-----------------------------------------------------------------------------

\* While nothing slides exactly one item is active, and it is the indicator's;
\* while one slides the indicator is already that of the item to come, and
\* handlers wait for slid only then.  (Clicks, jumps that waited, the cycle
\* and swipes start slides; each is ended by a timer.)
ActiveAgrees ==
    IF sliding = <<>>
    THEN active = {indicator} /\ deferred = <<>>
    ELSE active = {sliding[1]} /\ indicator = sliding[2]
         /\ sliding[1] # sliding[2]

\* A jump that had to wait is carried out: its item becomes the active one,
\* however many slides come before it.  (next and prev are dropped, not so to.)
JumpsServed ==
    \A item \in Items :
        (\E i \in DOMAIN deferred : deferred[i] = To(item)) ~> active = {item}
=============================================================================
