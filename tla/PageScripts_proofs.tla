------------------------- MODULE PageScripts_proofs -------------------------
(***************************************************************************)
(* Theorems about the scripts of the admin pages, for carousels of any     *)
(* length, any number of tabs, images, videos, cards, panels and triggers, *)
(* and handlers in any number: no bound of the models is used.  The loops  *)
(* over the cards of a page and over the panels of a trigger are followed  *)
(* with the lemmas of FoldTheorems.                                        *)
(***************************************************************************)
EXTENDS Carousel, Tabs, LazyLoading, Collapse, CardImages, FoldTheorems

-----------------------------------------------------------------------------
(* Carousel: ActiveAgrees is inductive as it stands                        *)

LEMMA OneIsCurrent ==
    ASSUME NEW item, active = {item}
    PROVE  Current = item
<1>1. \E x \in active : \A other \in active \ {x} : x < other
  OBVIOUS
<1>2. Current \in active
  BY <1>1 DEF Current
<1> QED
  BY <1>2

\* A call that may start a slide keeps the two together, as long as handlers
\* are kept waiting only behind a slide.
LEMMA SlideAgrees ==
    ASSUME ActiveAgrees, NEW item, Slide(item), UNCHANGED active,
           sliding' = <<>> => deferred' = <<>>
    PROVE  ActiveAgrees'
<1>1. CASE sliding # <<>>
  BY <1>1 DEF ActiveAgrees, Slide
<1>2. CASE sliding = <<>> /\ item = Current
  BY <1>2 DEF ActiveAgrees, Slide
<1>3. CASE sliding = <<>> /\ item # Current
  <2>1. active = {indicator} /\ Current = indicator
    BY <1>3, OneIsCurrent DEF ActiveAgrees
  <2>2. sliding' = <<indicator, item>> /\ indicator' = item
    BY <1>3, <2>1 DEF Slide
  <2> QED
    BY <1>3, <2>1, <2>2 DEF ActiveAgrees
<1> QED
  BY <1>1, <1>2, <1>3

LEMMA StillAgrees ==
    ASSUME ActiveAgrees, UNCHANGED <<active, sliding, indicator>>,
           sliding = <<>> => deferred' = <<>>
    PROVE  ActiveAgrees'
BY DEF ActiveAgrees

\* _maybeEnableCycle puts a handler behind a slide only.
LEMMA MaybeEnableCycleWaits ==
    ASSUME NEW waiting, MaybeEnableCycle(waiting),
           sliding' = <<>> => waiting = <<>>
    PROVE  sliding' = <<>> => deferred' = <<>>
BY DEF MaybeEnableCycle

LEMMA SlideKeeps ==
    ASSUME NEW item, Slide(item), sliding' = <<>>
    PROVE  sliding = <<>>
BY DEF Slide

LEMMA SlidAgrees ==
    ASSUME ActiveAgrees, Slid
    PROVE  ActiveAgrees'
<1>1. active = {sliding[1]} /\ sliding[1] # sliding[2] /\ sliding # <<>>
      /\ indicator = sliding[2]
  BY DEF Slid, ActiveAgrees
<1>2. active' = {sliding[2]}
  BY <1>1 DEF Slid, ActiveAfter
<1>3. CASE \E i \in DOMAIN deferred : IsJump(i, sliding[2])
  <2>1. PICK first \in DOMAIN deferred :
               /\ IsJump(first, sliding[2])
               /\ sliding' = <<sliding[2], deferred[first].item>>
               /\ indicator' = deferred[first].item
    BY <1>3 DEF Slid
  <2>2. deferred[first].item # sliding[2]
    BY <2>1 DEF IsJump
  <2> QED
    BY <1>2, <2>1, <2>2 DEF ActiveAgrees
<1>4. CASE ~(\E i \in DOMAIN deferred : IsJump(i, sliding[2]))
  <2>1. sliding' = <<>> /\ deferred' = <<>> /\ indicator' = indicator
    BY <1>4 DEF Slid
  <2> QED
    BY <1>1, <1>2, <2>1 DEF ActiveAgrees
<1> QED
  BY <1>3, <1>4

\* The indicator and the item that is active, or on its way, never disagree.
THEOREM ItemAgrees == CarouselSpec => []ActiveAgrees
<1>1. CarouselInit => ActiveAgrees
  BY DEF CarouselInit, ActiveAgrees
<1>2. ActiveAgrees /\ [CarouselNext]_carouselVars => ActiveAgrees'
  <2> SUFFICES ASSUME ActiveAgrees, [CarouselNext]_carouselVars
               PROVE  ActiveAgrees'
    OBVIOUS
  <2>0. sliding = <<>> => deferred = <<>>
    BY DEF ActiveAgrees
  <2>1. CASE CallNext
    <3>1. PICK isNext \in BOOLEAN : Slide(Neighbour(Current, isNext))
      BY <2>1 DEF CallNext
    <3> QED
      BY <2>1, <3>1, SlideAgrees, SlideKeeps, <2>0 DEF CallNext
  <2>2. CASE ClickControl
    <3>1. PICK isNext \in BOOLEAN : Slide(Neighbour(Current, isNext))
      BY <2>2 DEF ClickControl
    <3>2. sliding' = <<>> => deferred' = <<>>
      BY <2>2, <3>1, SlideKeeps, <2>0, MaybeEnableCycleWaits DEF ClickControl
    <3> QED
      BY <2>2, <3>1, <3>2, SlideAgrees DEF ClickControl
  <2>3. CASE CallTo
    <3>1. PICK item \in Items :
             /\ Slide(item)
             /\ deferred' = IF sliding # <<>> THEN Append(deferred, To(item))
                                              ELSE deferred
      BY <2>3 DEF CallTo
    <3> QED
      BY <2>3, <3>1, SlideAgrees, SlideKeeps, <2>0 DEF CallTo
  <2>4. CASE ClickIndicator
    <3>1. PICK item \in Items :
             /\ Slide(item)
             /\ MaybeEnableCycle(IF sliding # <<>>
                                 THEN Append(deferred, To(item)) ELSE deferred)
      BY <2>4 DEF ClickIndicator
    <3>2. sliding' = <<>> => deferred' = <<>>
      BY <3>1, SlideKeeps, <2>0, MaybeEnableCycleWaits
    <3> QED
      BY <2>4, <3>1, <3>2, SlideAgrees DEF ClickIndicator
  <2>5. CASE MouseLeave \/ TouchTimeout
    <3>1. MaybeEnableCycle(deferred)
          /\ UNCHANGED <<active, sliding, indicator>>
      BY <2>5 DEF MouseLeave, TouchTimeout
    <3> QED
      BY <3>1, <2>0, MaybeEnableCycleWaits, StillAgrees
  <2>6. CASE SwipeEnd
    BY <2>6, <2>0, SlideAgrees, StillAgrees, SlideKeeps
       DEF SwipeEnd, HandleSwipe
  <2>7. CASE Interval
    BY <2>7, SlideAgrees, SlideKeeps, <2>0 DEF Interval
  <2>8. CASE Slid
    BY <2>8, SlidAgrees
  <2>9. CASE MouseEnter \/ CallCycle \/ UNCHANGED carouselVars
    BY <2>9 DEF MouseEnter, CallCycle, carouselVars, ActiveAgrees
  <2> QED
    BY <2>1, <2>2, <2>3, <2>4, <2>5, <2>6, <2>7, <2>8, <2>9 DEF CarouselNext
<1> QED
  BY <1>1, <1>2, PTL DEF CarouselSpec

-----------------------------------------------------------------------------
(* Tabs                                                                    *)

\* What waits at a panel, run to its end, leaves the class show where the tab
\* is active; and nothing waits at a panel that does not fade.
WaitingSettles ==
    /\ pending \in [TabSet -> Seq(BOOLEAN)]
    /\ \A tab \in TabSet :
          /\ pending[tab] # <<>> =>
                tab \in FadingPanels
                /\ (CompletedLast(tab) <=> tab \in activeTabs)

PanelsInv == PanelsSettle /\ WaitingSettles

LEMMA LastAppended ==
    ASSUME NEW s \in Seq(BOOLEAN), NEW v \in BOOLEAN
    PROVE  /\ Append(s, v) \in Seq(BOOLEAN)
           /\ Append(s, v) # <<>>
           /\ Append(s, v)[Len(Append(s, v))] = v
<1>1. Append(s, v) \in Seq(BOOLEAN) /\ Append(s, v) # <<>>
  BY AppendProperties
<1>2. Len(Append(s, v)) = Len(s) + 1 /\ Append(s, v)[Len(s) + 1] = v
  BY AppendProperties
<1> QED
  BY <1>1, <1>2

\* Switching from a to b touches the two and nothing else.
LEMMA SwitchSettles ==
    ASSUME PanelsInv, NEW b \in TabSet, ShowTab(b)
    PROVE  PanelsInv'
<1>1. PICK a \in TabSet :
         activeTabs = {a} /\ selected = {a} /\ focusable = {a}
  BY DEF PanelsInv, PanelsSettle
<1>2. ActiveTab = a
  <2>1. \E x \in activeTabs : \A other \in activeTabs \ {x} : x < other
    BY <1>1
  <2>2. ActiveTab \in activeTabs
    BY <2>1 DEF ActiveTab
  <2> QED
    BY <1>1, <2>2
<1>3. a # b
  BY <1>1 DEF ShowTab
<1>4. /\ activeTabs' = {b} /\ selected' = {b} /\ focusable' = {b}
      /\ shownPanels' = (shownPanels \ ({a} \ FadingPanels))
                            \union ({b} \ FadingPanels)
      /\ pending' = Queued(a, b)
  BY <1>1, <1>2, <1>3 DEF ShowTab, Switch
<1>5. pending \in [TabSet -> Seq(BOOLEAN)]
  BY DEF PanelsInv, WaitingSettles
<1>6. ASSUME NEW tab \in TabSet
      PROVE  /\ pending'[tab] \in Seq(BOOLEAN)
             /\ pending'[tab] = <<>> =>
                   (tab \in shownPanels' <=> tab \in activeTabs')
             /\ pending'[tab] # <<>> =>
                   /\ tab \in FadingPanels
                   /\ CompletedLast(tab)' <=> tab \in activeTabs'
  <2>0. pending[tab] \in Seq(BOOLEAN)
    BY <1>5
  <2>1. CASE tab \notin FadingPanels
    <3>1. pending'[tab] = pending[tab] /\ pending[tab] = <<>>
      BY <2>1, <1>4 DEF Queued, PanelsInv, WaitingSettles
    <3>2. tab \in shownPanels <=> tab = a
      BY <3>1, <1>1 DEF PanelsInv, PanelsSettle
    <3> QED
      BY <2>1, <3>1, <3>2, <1>3, <1>4
  <2>2. CASE tab \in FadingPanels /\ tab \notin {a, b}
    <3>1. pending'[tab] = pending[tab]
      BY <2>2, <1>4 DEF Queued
    <3>2. tab \in shownPanels' <=> tab \in shownPanels
      BY <2>2, <1>4
    <3>3. tab \notin activeTabs /\ tab \notin activeTabs'
      BY <2>2, <1>1, <1>4
    <3> QED
      BY <2>0, <2>2, <3>1, <3>2, <3>3
         DEF PanelsInv, PanelsSettle, WaitingSettles, CompletedLast
  <2>3. CASE tab \in FadingPanels /\ tab = a
    <3>1. pending'[tab] = Append(pending[tab], FALSE)
      BY <2>3, <1>4 DEF Queued
    <3>2. /\ pending'[tab] \in Seq(BOOLEAN) /\ pending'[tab] # <<>>
          /\ pending'[tab][Len(pending'[tab])] = FALSE
      BY <2>0, <3>1, LastAppended
    <3> QED
      BY <2>3, <3>2, <1>3, <1>4 DEF CompletedLast
  <2>4. CASE tab \in FadingPanels /\ tab = b
    <3>1. pending'[tab] = Append(pending[tab], TRUE)
      BY <2>4, <1>3, <1>4 DEF Queued
    <3>2. /\ pending'[tab] \in Seq(BOOLEAN) /\ pending'[tab] # <<>>
          /\ pending'[tab][Len(pending'[tab])] = TRUE
      BY <2>0, <3>1, LastAppended
    <3> QED
      BY <2>4, <3>2, <1>4 DEF CompletedLast
  <2> QED
    BY <2>1, <2>2, <2>3, <2>4
<1>7. PanelsSettle'
  BY <1>4, <1>6 DEF PanelsSettle
<1>8. pending' \in [TabSet -> Seq(BOOLEAN)]
  BY <1>4, <1>6 DEF Queued
<1> QED
  BY <1>6, <1>7, <1>8 DEF PanelsInv, WaitingSettles

LEMMA PanelFadedSettles ==
    ASSUME PanelsInv, NEW tab \in TabSet, PanelFaded(tab)
    PROVE  PanelsInv'
<1>1. /\ pending' = [pending EXCEPT ![tab] = <<>>]
      /\ UNCHANGED <<activeTabs, selected, focusable>>
      /\ pending[tab] # <<>>
      /\ CompletedLast(tab) <=> tab \in activeTabs
      /\ pending \in [TabSet -> Seq(BOOLEAN)]
  BY DEF PanelFaded, PanelsInv, WaitingSettles
<1>2. tab \in shownPanels' <=> tab \in activeTabs
  BY <1>1 DEF PanelFaded
<1>3. \A other \in TabSet \ {tab} :
         /\ pending'[other] = pending[other]
         /\ other \in shownPanels' <=> other \in shownPanels
  BY <1>1 DEF PanelFaded
<1>4. pending'[tab] = <<>> /\ pending' \in [TabSet -> Seq(BOOLEAN)]
  BY <1>1
<1>5. PanelsSettle'
  BY <1>1, <1>2, <1>3, <1>4 DEF PanelsInv, PanelsSettle
<1>6. WaitingSettles'
  BY <1>1, <1>3, <1>4 DEF PanelsInv, WaitingSettles, CompletedLast
<1> QED
  BY <1>5, <1>6 DEF PanelsInv

\* However fast the tabs are switched, every panel settles with its tab.
THEOREM PanelsFollowTabs == TabsSpec => []PanelsSettle
<1>1. TabsInit => PanelsInv
  BY DEF TabsInit, PanelsInv, PanelsSettle, WaitingSettles
<1>2. PanelsInv /\ [TabsNext]_tabsVars => PanelsInv'
  <2> SUFFICES ASSUME PanelsInv, [TabsNext]_tabsVars PROVE PanelsInv'
    OBVIOUS
  <2>1. CASE ClickTab \/ CallShowTab
    BY <2>1, SwitchSettles DEF ClickTab, CallShowTab
  <2>2. CASE KeyAtTab
    <3>1. PICK tab \in {0} \union TabSet, isNext \in BOOLEAN :
             \E next \in NextEnabled(tab, isNext) : ShowTab(next)
      BY <2>2 DEF KeyAtTab
    <3>2. NextEnabled(tab, isNext) \subseteq TabSet
      BY DEF NextEnabled
    <3> QED
      BY <3>1, <3>2, SwitchSettles
  <2>3. ASSUME NEW tab \in TabSet, PanelFaded(tab)
        PROVE  PanelsInv'
    BY <2>3, PanelFadedSettles
  <2>4. CASE UNCHANGED tabsVars
    BY <2>4 DEF tabsVars, PanelsInv, PanelsSettle, WaitingSettles,
                CompletedLast
  <2> QED
    BY <2>1, <2>2, <2>3, <2>4 DEF TabsNext
<1>3. PanelsInv => PanelsSettle
  BY DEF PanelsInv
<1> QED
  BY <1>1, <1>2, <1>3, PTL DEF TabsSpec

-----------------------------------------------------------------------------
(* Lazy loading                                                            *)

\* Nothing with an empty attribute ever gets one.
VideosInv ==
    /\ content \in [Videos -> Seq({"cover", "frame"})]
    /\ dataset \intersect Blank = {}
    /\ OneVideoEach

LEMMA VideoEntersOnce ==
    ASSUME VideosInv, VideoEnters
    PROVE  VideosInv'
<1>1. PICK video \in Videos :
         \/ UNCHANGED <<content, dataset>>
         \/ /\ video \in dataset
            /\ content' = [content EXCEPT ![video] = Append(@, "cover")]
            /\ dataset' = dataset \ {video}
  BY DEF VideoEnters, StripDataAttributes
<1>2. CASE UNCHANGED <<content, dataset>>
  BY <1>2 DEF VideosInv, OneVideoEach
<1>3. CASE /\ video \in dataset
           /\ content' = [content EXCEPT ![video] = Append(@, "cover")]
           /\ dataset' = dataset \ {video}
  <2>1. content[video] = <<>> /\ video \notin Blank
    BY <1>3 DEF VideosInv, OneVideoEach
  <2>2. content'[video] = <<"cover">>
    BY <1>3, <2>1 DEF VideosInv
  <2>3. \A other \in Videos \ {video} : content'[other] = content[other]
    BY <1>3 DEF VideosInv
  <2>4. content' \in [Videos -> Seq({"cover", "frame"})]
    BY <1>3, <2>1, <2>2 DEF VideosInv
  <2>5. dataset' \intersect Blank = {}
    BY <1>3 DEF VideosInv
  <2>6. OneVideoEach'
    BY <1>3, <2>1, <2>2, <2>3 DEF VideosInv, OneVideoEach
  <2> QED
    BY <2>4, <2>5, <2>6 DEF VideosInv
<1> QED
  BY <1>1, <1>2, <1>3

LEMMA ClickCoverReplaces ==
    ASSUME VideosInv, ClickCover
    PROVE  VideosInv'
<1>1. PICK video \in Videos : \E i \in DOMAIN content[video] :
         /\ content' = [content EXCEPT ![video][i] = "frame"]
         /\ UNCHANGED dataset
  BY DEF ClickCover
<1>2. PICK i \in DOMAIN content[video] :
         /\ content' = [content EXCEPT ![video][i] = "frame"]
         /\ UNCHANGED dataset
  BY <1>1
<1>3. content[video] \in Seq({"cover", "frame"}) /\ i \in 1..Len(content[video])
  BY <1>2 DEF VideosInv
<1>4. content'[video] = [content[video] EXCEPT ![i] = "frame"]
  BY <1>2 DEF VideosInv
<1>5. /\ content'[video] \in Seq({"cover", "frame"})
      /\ Len(content'[video]) = Len(content[video])
  BY <1>3, <1>4, ExceptSeq
<1>6. \A other \in Videos \ {video} : content'[other] = content[other]
  BY <1>2 DEF VideosInv
<1>7. content' \in [Videos -> Seq({"cover", "frame"})]
  BY <1>2, <1>5, <1>6 DEF VideosInv
<1>8. OneVideoEach'
  BY <1>2, <1>3, <1>5, <1>6 DEF VideosInv, OneVideoEach
<1> QED
  BY <1>2, <1>7, <1>8 DEF VideosInv

\* Any number of calls and observers puts one video into a div.
THEOREM OneVideo == LazySpec => []OneVideoEach
<1>1. LazyInit => VideosInv
  BY DEF LazyInit, VideosInv, OneVideoEach, LazyElements
<1>2. VideosInv /\ [LazyNext]_lazyVars => VideosInv'
  <2> SUFFICES ASSUME VideosInv, [LazyNext]_lazyVars PROVE VideosInv'
    OBVIOUS
  <2>1. CASE LazyLoadImage \/ LazyLoadVideo \/ UNCHANGED lazyVars
    BY <2>1 DEF LazyLoadImage, LazyLoadVideo, lazyVars, VideosInv, OneVideoEach
  <2>2. CASE ImageEnters
    BY <2>2, LazyAssumption
       DEF ImageEnters, StripDataAttributes, VideosInv, OneVideoEach
  <2>3. CASE VideoEnters
    BY <2>3, VideoEntersOnce
  <2>4. CASE ClickCover
    BY <2>4, ClickCoverReplaces
  <2> QED
    BY <2>1, <2>2, <2>3, <2>4 DEF LazyNext
<1>3. VideosInv => OneVideoEach
  BY DEF VideosInv
<1> QED
  BY <1>1, <1>2, <1>3, PTL DEF LazySpec

-----------------------------------------------------------------------------
(* CardImages                                                              *)

Kinds == {"http", "known", "logo", "path", "none"}
AddressSet == [kind : Kinds, of : 0 .. CardCount]

\* newSrc of CleanseImages is the function its equation describes.
LEMMA CleansedCards ==
    ASSUME dataSrc \in [Cards -> AddressSet]
    PROVE  /\ CleanseImages \in [Cards -> AddressSet]
           /\ \A card \in Cards :
                 /\ dataSrc[card].kind = "http" =>
                       CleanseImages[card] = dataSrc[card]
                 /\ dataSrc[card].kind = "known" =>
                       CleanseImages[card] = Address("logo", dataSrc[card].of)
<1> DEFINE After(card, last) ==
               IF dataSrc[card] = Nowhere THEN last
               ELSE CleansedAddress(dataSrc[card], last)
           step == [k \in Nat |-> [last \in AddressSet |->
                      IF k + 1 \in Cards THEN After(k + 1, last) ELSE last]]
           newSrc[card \in 0 .. CardCount] ==
               IF card = 0 THEN Nowhere
               ELSE IF dataSrc[card] = Nowhere THEN newSrc[card - 1]
               ELSE CleansedAddress(dataSrc[card], newSrc[card - 1])
<1>1. Nowhere \in AddressSet
  BY CardAssumption DEF Nowhere, Address, AddressSet, Kinds
<1>2. ASSUME NEW card \in Cards, NEW last \in AddressSet
      PROVE  After(card, last) \in AddressSet
  BY <1>2 DEF CleansedAddress, Address, AddressSet, Kinds
<1>3. step \in [Nat -> [AddressSet -> AddressSet]]
  <2> HIDE DEF After
  <2> QED
    BY <1>2
<1>4. PICK f : IsIteration(f, AddressSet, Nowhere, step)
  <2> HIDE DEF step
  <2> QED
    BY <1>1, <1>3, IterationExists
<1>5. /\ f \in [Nat -> AddressSet] /\ f[0] = Nowhere
      /\ \A card \in Cards : f[card] = After(card, f[card - 1])
  <2>1. ASSUME NEW card \in Cards PROVE f[card] = After(card, f[card - 1])
    <3>1. card - 1 \in Nat /\ (card - 1) + 1 = card
      BY CardAssumption DEF Cards
    <3>2. f[card] = step[card - 1][f[card - 1]] /\ f[card - 1] \in AddressSet
      BY <1>4, <3>1 DEF IsIteration
    <3> HIDE DEF After
    <3> QED
      BY <3>1, <3>2
  <2> QED
    BY <1>4, <2>1 DEF IsIteration
<1>6. newSrc = [card \in 0 .. CardCount |->
                  IF card = 0 THEN Nowhere
                  ELSE IF dataSrc[card] = Nowhere THEN newSrc[card - 1]
                  ELSE CleansedAddress(dataSrc[card], newSrc[card - 1])]
  <2> DEFINE g == [card \in 0 .. CardCount |-> f[card]]
  <2>1. ASSUME NEW card \in 0 .. CardCount
        PROVE  g[card] = IF card = 0 THEN Nowhere
                         ELSE IF dataSrc[card] = Nowhere THEN g[card - 1]
                         ELSE CleansedAddress(dataSrc[card], g[card - 1])
    BY <1>5, CardAssumption DEF Cards
  <2> DEFINE again == [card \in 0 .. CardCount |->
               IF card = 0 THEN Nowhere
               ELSE IF dataSrc[card] = Nowhere THEN g[card - 1]
               ELSE CleansedAddress(dataSrc[card], g[card - 1])]
  <2>2. g = again
    <3>1. DOMAIN g = 0 .. CardCount /\ DOMAIN again = 0 .. CardCount
      OBVIOUS
    <3>2. \A card \in 0 .. CardCount : again[card] = g[card]
      BY <2>1
    <3> QED
      BY <3>1, <3>2
  <2> HIDE DEF g
  <2> QED
    BY <2>2
<1>7. /\ newSrc[0] = Nowhere
      /\ \A card \in Cards : newSrc[card] = After(card, newSrc[card - 1])
  <2> HIDE DEF newSrc
  <2>1. \A card \in 0 .. CardCount :
           newSrc[card] = IF card = 0 THEN Nowhere
                          ELSE IF dataSrc[card] = Nowhere THEN newSrc[card - 1]
                          ELSE CleansedAddress(dataSrc[card], newSrc[card - 1])
    BY <1>6
  <2> QED
    BY <2>1, CardAssumption DEF Cards
<1>8. \A card \in 0 .. CardCount : newSrc[card] \in AddressSet
  <2> DEFINE Typed == {card \in 0 .. CardCount : newSrc[card] \in AddressSet}
  <2> HIDE DEF newSrc
  <2>1. 0 \in Typed
    BY <1>1, <1>7, CardAssumption
  <2>2. \A card \in 1 .. CardCount : card - 1 \in Typed => card \in Typed
    <3> HIDE DEF After
    <3> QED
      BY <1>2, <1>7, CardAssumption DEF Cards
  <2> HIDE DEF Typed
  <2>3. 0 .. CardCount \subseteq Typed
    BY <2>1, <2>2, CardAssumption, UpToInduction
  <2> QED
    BY <2>3 DEF Typed
<1>9. CleanseImages = [card \in Cards |-> IF dataSrc[card] = Nowhere
                                         THEN Nowhere ELSE newSrc[card]]
  BY DEF CleanseImages
<1> HIDE DEF newSrc
<1> QED
  BY <1>1, <1>7, <1>8, <1>9, CardAssumption
     DEF Cards, CleansedAddress, Nowhere, Address

\* The address LinkCards gives to an image that has one of its own, once.
Kept(card) ==
    /\ original[card].kind = "http" => dataSrc[card] = original[card]
    /\ original[card].kind = "known" /\ page = "home" =>
          dataSrc[card] = IF handlers = <<>> THEN Address("logo", card)
                          ELSE original[card]

\* The scripts that wait, in the order of the two pages.
Waiting ==
    IF page = "home"
    THEN handlers \in {<<"App", "LinkCards">>, <<"LinkCards">>, <<>>}
    ELSE handlers \in {<<"App", "LinkCards", "LinkCards">>,
                       <<"LinkCards", "LinkCards">>, <<"LinkCards">>, <<>>}

CardsInv ==
    /\ page \in {"home", "links"} /\ Waiting
    /\ dataSrc \in [Cards -> AddressSet]
    /\ src \in [Cards -> AddressSet]
    /\ unseen \subseteq Cards
    /\ handlers # <<>> /\ Head(handlers) = "LinkCards" => unseen = Cards
    /\ \A card \in Cards :
          /\ original[card].kind \in {"http", "known"} => original[card].of = card
          /\ Kept(card)
          /\ handlers = <<>> /\ card \notin unseen /\ dataSrc[card] # Nowhere
                => src[card] = dataSrc[card]

LEMMA CardsInit_Inv == CardsInit => CardsInv
<1> SUFFICES ASSUME CardsInit PROVE CardsInv
  OBVIOUS
<1>1. PICK kinds \in [Cards -> {"http", "known", "path", "none"}] :
         original = [card \in Cards |-> IF kinds[card] = "none"
                        THEN Nowhere ELSE Address(kinds[card], card)]
  BY DEF CardsInit
<1>2. \A card \in Cards : /\ original[card] \in AddressSet
                          /\ original[card].kind \in {"http", "known"} =>
                                original[card].of = card
  BY <1>1, CardAssumption DEF Address, Nowhere, AddressSet, Kinds, Cards
<1>3. original \in [Cards -> AddressSet]
  BY <1>1, <1>2
<1>4. Nowhere \in AddressSet
  BY CardAssumption DEF Nowhere, Address, AddressSet, Kinds
<1>5. handlers # <<>> /\ Head(handlers) = "App" /\ Waiting
  BY DEF CardsInit, Waiting
<1> QED
  BY <1>2, <1>3, <1>4, <1>5 DEF CardsInit, CardsInv, Kept

\* A script that has run leaves the ones after it.
LEMMA WaitingInOrder ==
    ASSUME Waiting, page' = page, page \in {"home", "links"},
           handlers # <<>>, handlers' = Tail(handlers)
    PROVE  /\ Waiting'
           /\ Head(handlers) = "App" => handlers' # <<>>
           /\ Head(handlers) = "LinkCards" /\ page = "home" => handlers' = <<>>
<1>1. "App" # "LinkCards" /\ "home" # "links"
  OBVIOUS
<1>2. CASE handlers = <<"App", "LinkCards">> /\ page = "home"
  <2>1. /\ Head(<<"App", "LinkCards">>) = "App"
        /\ Tail(<<"App", "LinkCards">>) = <<"LinkCards">>
    OBVIOUS
  <2>2. Head(handlers) = "App" /\ handlers' = <<"LinkCards">>
    BY <1>2, <2>1
  <2> QED
    BY <1>1, <1>2, <2>2 DEF Waiting
<1>3. CASE handlers = <<"LinkCards">>
  <2>1. Head(<<"LinkCards">>) = "LinkCards" /\ Tail(<<"LinkCards">>) = <<>>
    OBVIOUS
  <2>2. Head(handlers) = "LinkCards" /\ handlers' = <<>>
    BY <1>3, <2>1
  <2> QED
    BY <1>1, <2>2 DEF Waiting
<1>4. CASE handlers = <<"App", "LinkCards", "LinkCards">> /\ page = "links"
  <2>1. /\ Head(<<"App", "LinkCards", "LinkCards">>) = "App"
        /\ Tail(<<"App", "LinkCards", "LinkCards">>)
              = <<"LinkCards", "LinkCards">>
    OBVIOUS
  <2>2. Head(handlers) = "App" /\ handlers' = <<"LinkCards", "LinkCards">>
    BY <1>4, <2>1
  <2> QED
    BY <1>1, <1>4, <2>2 DEF Waiting
<1>5. CASE handlers = <<"LinkCards", "LinkCards">> /\ page = "links"
  <2>1. /\ Head(<<"LinkCards", "LinkCards">>) = "LinkCards"
        /\ Tail(<<"LinkCards", "LinkCards">>) = <<"LinkCards">>
    OBVIOUS
  <2>2. Head(handlers) = "LinkCards" /\ handlers' = <<"LinkCards">>
    BY <1>5, <2>1
  <2> QED
    BY <1>1, <1>5, <2>2 DEF Waiting
<1> QED
  BY <1>1, <1>2, <1>3, <1>4, <1>5 DEF Waiting

LEMMA LazyLoadKeepsCards == CardsInv /\ LazyLoad => CardsInv'
<1> SUFFICES ASSUME CardsInv, LazyLoad PROVE CardsInv'
  OBVIOUS
<1>1. Waiting' /\ handlers' # <<>>
  BY WaitingInOrder DEF CardsInv, LazyLoad
<1> QED
  BY <1>1 DEF CardsInv, LazyLoad, Kept, Waiting

LEMMA LinkCardsKeepsCards == CardsInv /\ LinkCards => CardsInv'
<1> SUFFICES ASSUME CardsInv, LinkCards PROVE CardsInv'
  OBVIOUS
<1>1. Waiting' /\ (page = "home" => handlers' = <<>>)
  BY WaitingInOrder DEF CardsInv, LinkCards
<1>2. /\ dataSrc' \in [Cards -> AddressSet]
      /\ \A card \in Cards :
            /\ dataSrc[card].kind = "http" => dataSrc'[card] = dataSrc[card]
            /\ dataSrc[card].kind = "known" =>
                  dataSrc'[card] = Address("logo", dataSrc[card].of)
  BY CleansedCards DEF CardsInv, LinkCards
<1>3. unseen = Cards
  BY DEF CardsInv, LinkCards
<1>4. ASSUME NEW card \in Cards PROVE Kept(card)'
  BY <1>1, <1>2 DEF CardsInv, LinkCards, Kept
<1> QED
  BY <1>1, <1>2, <1>3, <1>4 DEF CardsInv, LinkCards

LEMMA CardEntersKeepsCards == CardsInv /\ CardEnters => CardsInv'
<1> SUFFICES ASSUME CardsInv, CardEnters PROVE CardsInv'
  OBVIOUS
<1>1. PICK card \in unseen :
         /\ unseen' = unseen \ {card}
         /\ src' = IF dataSrc[card] = Nowhere THEN src
                   ELSE [src EXCEPT ![card] = dataSrc[card]]
  BY DEF CardEnters
<1>2. src' \in [Cards -> AddressSet]
  BY <1>1 DEF CardsInv
<1>3. ASSUME NEW other \in Cards, other \notin unseen', dataSrc[other] # Nowhere
      PROVE  src'[other] = dataSrc[other]
  BY <1>1, <1>3 DEF CardsInv, CardEnters
<1> QED
  BY <1>1, <1>2, <1>3 DEF CardsInv, CardEnters, Kept, Waiting

\* An image shows its own address, or its site's logo, whatever cards come
\* before it: CardsInv says what data-src has become by the time it is read.
THEOREM CardsShow == CardsSpec => []CardsShowTheirOwn
<1>1. CardsInv /\ [CardsNext]_cardVars => CardsInv'
  <2>1. CardsInv /\ UNCHANGED cardVars => CardsInv'
    BY DEF CardsInv, Kept, Waiting, cardVars
  <2> QED
    BY <2>1, LazyLoadKeepsCards, LinkCardsKeepsCards, CardEntersKeepsCards
       DEF CardsNext
<1>2. CardsInv => CardsShowTheirOwn
  BY DEF CardsInv, Kept, CardsShowTheirOwn, Nowhere, Address
<1> QED
  BY <1>1, <1>2, CardsInit_Inv, PTL DEF CardsSpec

-----------------------------------------------------------------------------
(* Collapse                                                                *)

FoldStates == [phase : [Panels -> Phases], expanded : SUBSET PanelTriggers,
               made : SUBSET Panels]

IsOpen(s, panel) == s.phase[panel] \in {"shown", "opening"}

\* Two panels of an accordion that are open opened together, or are about to.
Paired(s, p, q) == \/ q \in together[p]
                   \/ s.phase[p] = "opening" /\ s.phase[q] = "opening"

\* Without a parent a panel that opens has an instance, so that no constructor
\* takes it for closed.
FoldsAgree(s) ==
    IF accordion
    THEN \A p, q \in Panels :
            IsOpen(s, p) /\ IsOpen(s, q) /\ p # q => Paired(s, p, q)
    ELSE /\ \A p \in Panels : s.phase[p] = "opening" => p \in s.made
         /\ \A t \in PanelTriggers : Len(Targets[t]) = 1 =>
                (t \in s.expanded <=> IsOpen(s, Targets[t][1]))

GoodFolds == {s \in FoldStates : FoldsAgree(s)}

\* The panels that are opening now are recorded.
OpeningRecorded ==
    \A p, q \in Panels :
        folds.phase[p] = "opening" /\ folds.phase[q] = "opening" =>
            q \in together[p]

CollapseInv ==
    accordion \in BOOLEAN /\ folds \in GoodFolds /\ OpeningRecorded

\* The panels of a trigger
LEMMA TargetsArePanels ==
    ASSUME NEW t \in PanelTriggers
    PROVE  /\ Targets[t] \in Seq(Panels) /\ Targets[t] # <<>>
           /\ Targets[t][1] \in Panels
           /\ t \in TriggersOf(Targets[t][1])
           /\ Len(Targets[t]) = 1 =>
                 \A panel \in Panels : t \in TriggersOf(panel) <=> panel = Targets[t][1]
<1>1. Targets[t] \in Seq(Panels) /\ Targets[t] # <<>>
  BY CollapseAssumption
<1>2. /\ Len(Targets[t]) \in Nat /\ Len(Targets[t]) # 0
      /\ DOMAIN Targets[t] = 1 .. Len(Targets[t])
  BY <1>1, EmptySeq, LenProperties
<1>3. 1 \in 1 .. Len(Targets[t])
  BY <1>2
<1>4. Targets[t][1] \in Panels
  BY <1>1, <1>3, ElementOfSeq
<1>5. Range(Targets[t]) = {Targets[t][i] : i \in 1 .. Len(Targets[t])}
  BY <1>2 DEF Range
<1>6. Len(Targets[t]) = 1 => Range(Targets[t]) = {Targets[t][1]}
  <2> SUFFICES ASSUME Len(Targets[t]) = 1
               PROVE  Range(Targets[t]) = {Targets[t][1]}
    OBVIOUS
  <2>1. 1 .. Len(Targets[t]) = {1}
    OBVIOUS
  <2> QED
    BY <1>5, <2>1
<1> QED
  BY <1>1, <1>3, <1>4, <1>5, <1>6 DEF TriggersOf

\* A record of the state, field by field.
LEMMA FoldStateShape ==
    ASSUME NEW s \in FoldStates
    PROVE  s = [phase |-> s.phase, expanded |-> s.expanded, made |-> s.made]
BY DEF FoldStates

LEMMA MadeStays ==
    ASSUME NEW s \in FoldStates, NEW panel \in Panels
    PROVE  /\ Made(s, panel) \in FoldStates /\ Made(s, panel).phase = s.phase
           /\ panel \in Made(s, panel).made
           /\ s \in GoodFolds => Made(s, panel) \in GoodFolds
<1>1. /\ Made(s, panel).phase = s.phase
      /\ Made(s, panel).made = s.made \union {panel}
      /\ panel \in s.made => Made(s, panel) = s
      /\ accordion /\ panel \notin s.made => Made(s, panel).expanded =
             {t \in PanelTriggers : IsShown(s, Targets[t][1])}
      /\ ~accordion /\ panel \notin s.made => Made(s, panel).expanded =
             IF IsShown(s, panel) THEN s.expanded \union TriggersOf(panel)
                                  ELSE s.expanded \ TriggersOf(panel)
      /\ Made(s, panel) \in FoldStates
  BY DEF Made, FoldStates, ChildrenInitialized, IsShown, TriggersOf
<1>2. ASSUME s \in GoodFolds, accordion PROVE FoldsAgree(Made(s, panel))
  BY <1>1, <1>2 DEF GoodFolds, FoldsAgree, IsOpen, Paired
<1>3. ASSUME s \in GoodFolds, ~accordion PROVE FoldsAgree(Made(s, panel))
  <2>1. CASE panel \in s.made
    BY <1>1, <1>3, <2>1 DEF GoodFolds
  <2>2. CASE panel \notin s.made
    <3>1. ASSUME NEW t \in PanelTriggers, Len(Targets[t]) = 1
          PROVE  t \in Made(s, panel).expanded
                    <=> IsOpen(s, Targets[t][1])
      <4>1. t \in TriggersOf(panel) <=> panel = Targets[t][1]
        BY <3>1, TargetsArePanels
      <4>2. t \in s.expanded <=> IsOpen(s, Targets[t][1])
        BY <1>3, <3>1 DEF GoodFolds, FoldsAgree
      <4>3. IsOpen(s, panel) <=> IsShown(s, panel)
        BY <1>3, <2>2 DEF GoodFolds, FoldsAgree, IsOpen, IsShown
      <4> QED
        BY <1>1, <1>3, <2>2, <4>1, <4>2, <4>3
    <3> QED
      BY <1>1, <1>3, <3>1 DEF GoodFolds, FoldsAgree, IsOpen
  <2> QED
    BY <2>1, <2>2
<1> QED
  BY <1>1, <1>2, <1>3 DEF GoodFolds

LEMMA HideStays ==
    ASSUME NEW s \in FoldStates, NEW panel \in Panels
    PROVE  /\ HidePanel(s, panel) \in FoldStates
           /\ \A p \in Panels : HidePanel(s, panel).phase[p] =
                  IF p = panel /\ s.phase[p] = "shown" THEN "closing"
                                                       ELSE s.phase[p]
           /\ s \in GoodFolds => HidePanel(s, panel) \in GoodFolds
<1>1. CASE s.phase[panel] # "shown"
  <2>1. HidePanel(s, panel) = s
    BY <1>1 DEF HidePanel, IsShown
  <2> QED
    BY <1>1, <2>1
<1>2. CASE s.phase[panel] = "shown"
  <2> DEFINE phase == [s.phase EXCEPT ![panel] = "closing"]
  <2>1. HidePanel(s, panel) =
           [phase |-> phase, made |-> s.made,
            expanded |-> s.expanded \ {t \in TriggersOf(panel) :
                                          phase[Targets[t][1]] # "shown"}]
    BY <1>2 DEF HidePanel, IsShown, IsTransitioning, FoldStates
  <2>2. phase \in [Panels -> Phases]
    BY DEF FoldStates, Phases
  <2>3. HidePanel(s, panel) \in FoldStates
    BY <2>1, <2>2 DEF FoldStates
  <2>4. \A p \in Panels : phase[p] =
           IF p = panel THEN "closing" ELSE s.phase[p]
    BY DEF FoldStates
  <2> HIDE DEF phase
  <2>5. ASSUME s \in GoodFolds, accordion
        PROVE  FoldsAgree(HidePanel(s, panel))
    <3> SUFFICES ASSUME NEW p \in Panels, NEW q \in Panels, p # q,
                        IsOpen(HidePanel(s, panel), p),
                        IsOpen(HidePanel(s, panel), q)
                 PROVE  Paired(HidePanel(s, panel), p, q)
      BY <2>5 DEF FoldsAgree
    <3>1. /\ HidePanel(s, panel).phase[p] = s.phase[p]
          /\ HidePanel(s, panel).phase[q] = s.phase[q]
      BY <1>2, <2>1, <2>4 DEF IsOpen
    <3>2. Paired(s, p, q)
      BY <2>5, <3>1 DEF GoodFolds, FoldsAgree, IsOpen
    <3> QED
      BY <3>1, <3>2 DEF Paired
  <2>6. ASSUME s \in GoodFolds, ~accordion
        PROVE  FoldsAgree(HidePanel(s, panel))
    <3>1. ASSUME NEW t \in PanelTriggers, Len(Targets[t]) = 1
          PROVE  t \in HidePanel(s, panel).expanded
                    <=> IsOpen(HidePanel(s, panel), Targets[t][1])
      <4>1. /\ t \in TriggersOf(panel) <=> panel = Targets[t][1]
            /\ Targets[t][1] \in Panels
        BY <3>1, TargetsArePanels
      <4>2. t \in s.expanded <=> IsOpen(s, Targets[t][1])
        BY <2>6, <3>1 DEF GoodFolds, FoldsAgree
      <4> QED
        BY <2>1, <2>4, <4>1, <4>2 DEF IsOpen
    <3> QED
      BY <1>2, <2>1, <2>4, <2>6, <3>1 DEF GoodFolds, FoldsAgree
  <2> QED
    BY <1>2, <2>1, <2>3, <2>4, <2>5, <2>6 DEF GoodFolds
<1> QED
  BY <1>1, <1>2

\* The instances of several panels are made one after the other.
LEMMA MadeFold ==
    ASSUME NEW s \in FoldStates, NEW q \in Seq(Panels)
    PROVE  /\ FoldLeft(Made, s, q) \in FoldStates
           /\ FoldLeft(Made, s, q).phase = s.phase
           /\ q = <<>> => FoldLeft(Made, s, q) = s
<1> DEFINE n == Len(q)
           step == [i \in Indices(n) |-> [x \in FoldStates |-> Made(x, q[i])]]
           iter[t \in SUBSET Indices(n)] ==
               IF t = {} THEN s ELSE Made(iter[t \ {Max(t)}], q[Max(t)])
           Reached == {x \in FoldStates : x.phase = s.phase}
<1>1. /\ n \in Nat /\ DOMAIN q = Indices(n) /\ \A i \in Indices(n) : q[i] \in Panels
      /\ q = <<>> => Indices(n) = {}
  BY IndicesOfSeq, EmptySeq DEF Indices
<1>2. step \in [Indices(n) -> [FoldStates -> FoldStates]]
  BY <1>1, MadeStays
<1>3. PICK it : IsFoldLeft(it, n, FoldStates, s, step)
  <2> HIDE DEF n, step
  <2> QED
    BY <1>1, <1>2, FoldLeftExists
<1>4. it = [t \in SUBSET Indices(n) |->
              IF t = {} THEN s ELSE Made(it[t \ {Max(t)}], q[Max(t)])]
  BY <1>1, <1>3, MaxOfIndices DEF IsFoldLeft
<1>5. iter = [t \in SUBSET Indices(n) |->
                IF t = {} THEN s ELSE Made(iter[t \ {Max(t)}], q[Max(t)])]
  BY <1>4
<1>6. FoldLeft(Made, s, q) = iter[Indices(n)]
  BY <1>1 DEF FoldLeft, MapThenFoldSet
<1>7. \A t \in SUBSET Indices(n) :
         iter[t] = IF t = {} THEN s ELSE Made(iter[t \ {Max(t)}], q[Max(t)])
  <2> HIDE DEF iter, n
  <2> QED
    BY <1>5
<1> HIDE DEF iter, n, step
<1>8. ASSUME NEW t \in SUBSET Indices(n), t # {}, iter[t \ {Max(t)}] \in Reached
      PROVE  iter[t] \in Reached
  <2>1. iter[t] = Made(iter[t \ {Max(t)}], q[Max(t)]) /\ q[Max(t)] \in Panels
    BY <1>1, <1>7, <1>8, MaxOfIndices
  <2> QED
    BY <1>8, <2>1, MadeStays
<1>9. iter[Indices(n)] \in Reached
  <2>1. iter[{}] \in Reached
    BY <1>7
  <2> HIDE DEF Reached
  <2>2. \A k \in 0 .. n : iter[Indices(k)] \in Reached
    BY <1>1, <1>8, <2>1, FoldLeftStays
  <2> QED
    BY <1>1, <2>2
<1>10. q = <<>> => iter[Indices(n)] = s
  BY <1>1, <1>7
<1> QED
  BY <1>6, <1>9, <1>10

\* Hiding several panels leaves none of them shown, and opens none.
LEMMA HideFold ==
    ASSUME NEW s \in FoldStates, NEW q \in Seq(Panels)
    PROVE  /\ FoldLeft(HidePanel, s, q) \in FoldStates
           /\ \A p \in Panels :
                 FoldLeft(HidePanel, s, q).phase[p] \in {s.phase[p], "closing"}
           /\ \A i \in 1 .. Len(q) :
                 FoldLeft(HidePanel, s, q).phase[q[i]] # "shown"
           /\ q = <<>> => FoldLeft(HidePanel, s, q) = s
<1> DEFINE n == Len(q)
           step == [i \in Indices(n) |->
                      [x \in FoldStates |-> HidePanel(x, q[i])]]
           iter[t \in SUBSET Indices(n)] ==
               IF t = {} THEN s ELSE HidePanel(iter[t \ {Max(t)}], q[Max(t)])
           Hides(x) == \A p \in Panels : x.phase[p] \in {s.phase[p], "closing"}
           T == {t \in SUBSET Indices(n) :
                    /\ iter[t] \in FoldStates /\ Hides(iter[t])
                    /\ \A i \in t : iter[t].phase[q[i]] # "shown"}
<1>1. /\ n \in Nat /\ DOMAIN q = Indices(n)
      /\ \A i \in Indices(n) : q[i] \in Panels
      /\ q = <<>> => Indices(n) = {}
  BY IndicesOfSeq, EmptySeq DEF Indices
<1>2. step \in [Indices(n) -> [FoldStates -> FoldStates]]
  BY <1>1, HideStays
<1>3. PICK it : IsFoldLeft(it, n, FoldStates, s, step)
  <2> HIDE DEF n, step
  <2> QED
    BY <1>1, <1>2, FoldLeftExists
<1>4. it = [t \in SUBSET Indices(n) |->
              IF t = {} THEN s ELSE HidePanel(it[t \ {Max(t)}], q[Max(t)])]
  BY <1>1, <1>3, MaxOfIndices DEF IsFoldLeft
<1>5. iter = [t \in SUBSET Indices(n) |->
                IF t = {} THEN s ELSE HidePanel(iter[t \ {Max(t)}], q[Max(t)])]
  BY <1>4
<1>6. FoldLeft(HidePanel, s, q) = iter[Indices(n)]
  BY <1>1 DEF FoldLeft, MapThenFoldSet
<1>7. \A t \in SUBSET Indices(n) :
         iter[t] = IF t = {} THEN s ELSE HidePanel(iter[t \ {Max(t)}], q[Max(t)])
  <2> HIDE DEF iter, n
  <2> QED
    BY <1>5
<1> HIDE DEF iter, n, step
<1>8. {} \in T
  <2>1. iter[{}] = s
    BY <1>7
  <2> QED
    BY <2>1
<1>9. ASSUME NEW k \in Indices(n), Indices(k - 1) \in T PROVE Indices(k) \in T
  <2> DEFINE x == iter[Indices(k - 1)]
  <2>1. /\ iter[Indices(k)] = HidePanel(x, q[k]) /\ q[k] \in Panels
        /\ Indices(k) \in SUBSET Indices(n) /\ Indices(k - 1) \in SUBSET Indices(n)
    BY <1>1, <1>7, <1>9, IndicesUpTo
  <2>2. /\ x \in FoldStates /\ Hides(x)
        /\ \A i \in Indices(k - 1) : x.phase[q[i]] # "shown"
    BY <1>9
  <2> HIDE DEF x
  <2>3. HidePanel(x, q[k]) \in FoldStates /\ Hides(HidePanel(x, q[k]))
    BY <2>1, <2>2, HideStays
  <2>4. ASSUME NEW i \in Indices(k)
        PROVE  HidePanel(x, q[k]).phase[q[i]] # "shown"
    <3>1. q[i] \in Panels
      BY <1>1, <2>1
    <3>2. i = k \/ i \in Indices(k - 1)
      BY <1>1 DEF Indices
    <3> QED
      BY <2>1, <2>2, <3>1, <3>2, HideStays
  <2> HIDE DEF Hides
  <2> QED
    BY <2>1, <2>3, <2>4
<1>10. Indices(n) \in T
  <2> HIDE DEF T
  <2> QED
    BY <1>1, <1>8, <1>9, IndicesInduction
<1>11. Indices(n) = 1 .. Len(q)
  BY DEF Indices, n
<1> QED
  BY <1>1, <1>6, <1>7, <1>10, <1>11

\* The panels of a set in order are exactly its elements.
LEMMA PanelsInOrder ==
    ASSUME NEW chosen \in SUBSET Panels
    PROVE  /\ InOrder(chosen) \in Seq(chosen)
           /\ \A p \in chosen : \E i \in 1 .. Len(InOrder(chosen)) :
                                  InOrder(chosen)[i] = p
<1> DEFINE n == PanelCount
           q == [p \in Panels |-> p]
           Add(x, p) == IF p \in chosen THEN Append(x, p) ELSE x
           step == [i \in Indices(n) |-> [x \in Seq(chosen) |-> Add(x, i)]]
           Holds(x, p) == \E i \in 1 .. Len(x) : x[i] = p
           iter[t \in SUBSET Indices(n)] ==
               IF t = {} THEN <<>>
               ELSE IF q[Max(t)] \in chosen
                    THEN Append(iter[t \ {Max(t)}], q[Max(t)])
                    ELSE iter[t \ {Max(t)}]
           T == {t \in SUBSET Indices(n) :
                    /\ iter[t] \in Seq(chosen)
                    /\ \A p \in t \intersect chosen : Holds(iter[t], p)}
<1>1. n \in Nat /\ Panels = Indices(n) /\ DOMAIN q = Indices(n)
  BY CollapseAssumption DEF Panels, Indices
<1>2. step \in [Indices(n) -> [Seq(chosen) -> Seq(chosen)]]
  BY AppendProperties
<1>3. <<>> \in Seq(chosen)
  BY EmptySeq
<1>4. PICK it : IsFoldLeft(it, n, Seq(chosen), <<>>, step)
  <2> DEFINE S == Seq(chosen)
  <2>1. <<>> \in S /\ step \in [Indices(n) -> [S -> S]]
    BY <1>2, <1>3
  <2> SUFFICES \E it : IsFoldLeft(it, n, S, <<>>, step)
    OBVIOUS
  <2> HIDE DEF n, step, S
  <2> QED
    BY <1>1, <2>1, FoldLeftExists
<1>5. \A t \in SUBSET Indices(n) :
         t # {} => Max(t) \in t /\ q[Max(t)] = Max(t)
  <2> HIDE DEF n
  <2> QED
    BY <1>1, MaxOfIndices
<1>6. it = [t \in SUBSET Indices(n) |->
              IF t = {} THEN <<>>
              ELSE IF q[Max(t)] \in chosen
                   THEN Append(it[t \ {Max(t)}], q[Max(t)])
                   ELSE it[t \ {Max(t)}]]
  <2> HIDE DEF n, q
  <2> QED
    BY <1>4, <1>5 DEF IsFoldLeft
<1>7. iter = [t \in SUBSET Indices(n) |->
                IF t = {} THEN <<>>
                ELSE IF q[Max(t)] \in chosen
                     THEN Append(iter[t \ {Max(t)}], q[Max(t)])
                     ELSE iter[t \ {Max(t)}]]
  BY <1>6
<1>8. InOrder(chosen) = iter[Indices(n)]
  BY <1>1 DEF InOrder, FoldLeft, MapThenFoldSet
<1>9. \A t \in SUBSET Indices(n) :
         iter[t] = IF t = {} THEN <<>> ELSE Add(iter[t \ {Max(t)}], Max(t))
  <2> HIDE DEF iter, n, q
  <2> QED
    BY <1>5, <1>7
<1> HIDE DEF iter, n, step, q
<1>10. {} \in T
  <2>1. iter[{}] = <<>>
    BY <1>9
  <2> QED
    BY <1>3, <2>1
<1>11. ASSUME NEW k \in Indices(n), Indices(k - 1) \in T
       PROVE  Indices(k) \in T
  <2>1. /\ Indices(k) \in SUBSET Indices(n)
        /\ iter[Indices(k)] = Add(iter[Indices(k - 1)], k)
        /\ Indices(k) = Indices(k - 1) \union {k}
    <3>1. Indices(k) = Indices(k - 1) \union {k}
      BY <1>1 DEF Indices
    <3>2. /\ Indices(k) \in SUBSET Indices(n) /\ Indices(k) # {}
          /\ Max(Indices(k)) = k /\ Indices(k) \ {k} = Indices(k - 1)
      BY <1>1, IndicesUpTo
    <3>3. iter[Indices(k)] = Add(iter[Indices(k) \ {Max(Indices(k))}],
                                 Max(Indices(k)))
      <4> HIDE DEF Add
      <4> QED
        BY <1>9, <3>2
    <3> QED
      BY <3>1, <3>2, <3>3
  <2>2. iter[Indices(k - 1)] \in Seq(chosen)
    BY <1>11
  <2>3. CASE k \in chosen
    <3> DEFINE x == iter[Indices(k - 1)]
    <3>1. /\ iter[Indices(k)] = Append(x, k) /\ Append(x, k) \in Seq(chosen)
          /\ Len(x) \in Nat /\ Len(Append(x, k)) = Len(x) + 1
          /\ Append(x, k)[Len(x) + 1] = k
          /\ \A i \in 1 .. Len(x) : Append(x, k)[i] = x[i]
      BY <2>1, <2>2, <2>3, AppendProperties, LenProperties
    <3>2. \A p \in Indices(k - 1) \intersect chosen : Holds(x, p)
      BY <1>11
    <3> HIDE DEF x
    <3>3. ASSUME NEW p \in Indices(k) \intersect chosen
          PROVE  Holds(Append(x, k), p)
      <4>1. CASE p = k
        BY <3>1, <4>1
      <4>2. CASE p # k
        BY <2>1, <3>1, <3>2, <4>2
      <4> QED
        BY <4>1, <4>2
    <3> HIDE DEF Holds
    <3> QED
      BY <2>1, <3>1, <3>3
  <2>4. CASE k \notin chosen
    BY <1>11, <2>1, <2>4
  <2> QED
    BY <2>3, <2>4
<1>12. Indices(n) \in T
  <2> HIDE DEF T
  <2> QED
    BY <1>1, <1>10, <1>11, IndicesInduction
<1> QED
  BY <1>1, <1>8, <1>12

LEMMA ShowStays ==
    ASSUME accordion \in BOOLEAN, NEW s \in GoodFolds, NEW panel \in Panels,
           ~accordion => panel \in s.made
    PROVE  ShowPanel(s, panel) \in GoodFolds
<1> DEFINE actives == IF accordion THEN ActiveChildren(s, panel) ELSE <<>>
           made == FoldLeft(Made, s, actives)
           hidden == FoldLeft(HidePanel, made, actives)
           shown == [hidden EXCEPT !.phase[panel] = "opening",
                                   !.expanded = @ \union TriggersOf(panel)]
<1>1. s \in FoldStates /\ FoldsAgree(s)
  BY DEF GoodFolds
<1>2. /\ actives \in Seq(Panels)
      /\ accordion => \A p \in Panels : p # panel /\ s.phase[p] = "shown" =>
                          \E i \in 1 .. Len(actives) : actives[i] = p
  <2> DEFINE Active == {p \in Panels : p # panel /\ s.phase[p] = "shown"}
  <2>1. /\ actives \in Seq(Active)
        /\ accordion => \A p \in Active :
                           \E i \in 1 .. Len(actives) : actives[i] = p
    BY PanelsInOrder, EmptySeq DEF ActiveChildren, IsShown
  <2> HIDE DEF actives
  <2> QED
    BY <2>1, SeqMonotonic
<1>3. /\ made \in FoldStates /\ made.phase = s.phase
      /\ actives = <<>> => made = s
  <2> HIDE DEF actives
  <2> QED
    BY <1>1, <1>2, MadeFold
<1>4. /\ hidden \in FoldStates
      /\ \A p \in Panels : hidden.phase[p] \in {s.phase[p], "closing"}
      /\ \A i \in 1 .. Len(actives) : hidden.phase[actives[i]] # "shown"
      /\ actives = <<>> => hidden = made
  <2> HIDE DEF actives, made
  <2> QED
    BY <1>2, <1>3, HideFold
<1>5. CASE IsTransitioning(s, panel) \/ IsShown(s, panel)
  BY <1>5 DEF ShowPanel
<1>6. CASE /\ ~(IsTransitioning(s, panel) \/ IsShown(s, panel))
           /\ actives # <<>> /\ IsTransitioning(made, Head(actives))
  <2>1. ShowPanel(s, panel) = made
    BY <1>6 DEF ShowPanel
  <2>2. accordion
    BY <1>6
  <2> HIDE DEF made
  <2> QED
    BY <1>1, <1>3, <2>1, <2>2 DEF GoodFolds, FoldsAgree, IsOpen, Paired
<1>7. CASE /\ ~(IsTransitioning(s, panel) \/ IsShown(s, panel))
           /\ actives = <<>> \/ ~IsTransitioning(made, Head(actives))
  <2>1. ShowPanel(s, panel) = shown
    BY <1>7 DEF ShowPanel
  <2>2. /\ shown \in FoldStates /\ shown.made = hidden.made
        /\ shown.expanded = hidden.expanded \union TriggersOf(panel)
        /\ \A p \in Panels : shown.phase[p] =
              IF p = panel THEN "opening" ELSE hidden.phase[p]
    <3> HIDE DEF hidden
    <3> QED
      BY <1>4 DEF FoldStates, Phases, TriggersOf
  <2>3. ASSUME accordion PROVE FoldsAgree(shown)
    <3> HIDE DEF actives, made, hidden, shown
    <3>1. ASSUME NEW p \in Panels, p # panel, IsOpen(shown, p)
          PROVE  /\ shown.phase[p] = s.phase[p] /\ IsOpen(s, p)
                 /\ shown.phase[p] = "opening"
      BY <1>2, <1>4, <2>2, <2>3, <3>1 DEF IsOpen
    <3> SUFFICES ASSUME NEW p \in Panels, NEW q \in Panels, p # q,
                        IsOpen(shown, p), IsOpen(shown, q)
                 PROVE  Paired(shown, p, q)
      BY <2>3 DEF FoldsAgree
    <3> QED
      BY <2>2, <3>1 DEF Paired
  <2>4. ASSUME ~accordion PROVE FoldsAgree(shown)
    <3>1. hidden = s
      BY <1>3, <1>4, <2>4
    <3> HIDE DEF hidden, shown
    <3>2. ASSUME NEW t \in PanelTriggers, Len(Targets[t]) = 1
          PROVE  t \in shown.expanded <=> IsOpen(shown, Targets[t][1])
      <4>1. /\ t \in TriggersOf(panel) <=> panel = Targets[t][1]
            /\ Targets[t][1] \in Panels
        BY <3>2, TargetsArePanels
      <4>2. t \in s.expanded <=> IsOpen(s, Targets[t][1])
        BY <1>1, <2>4, <3>2 DEF FoldsAgree
      <4> QED
        BY <2>2, <3>1, <4>1, <4>2 DEF IsOpen
    <3>3. \A p \in Panels : shown.phase[p] = "opening" => p \in shown.made
      BY <1>1, <2>2, <2>4, <3>1 DEF FoldsAgree
    <3> QED
      BY <2>4, <3>2, <3>3 DEF FoldsAgree
  <2> HIDE DEF shown
  <2> QED
    BY <2>1, <2>2, <2>3, <2>4 DEF GoodFolds
<1> QED
  BY <1>5, <1>6, <1>7

LEMMA ToggleStays ==
    ASSUME accordion \in BOOLEAN, NEW s \in GoodFolds, NEW panel \in Panels
    PROVE  TogglePanel(s, panel) \in GoodFolds
<1>1. s \in FoldStates
  BY DEF GoodFolds
<1>2. /\ Made(s, panel) \in GoodFolds /\ Made(s, panel) \in FoldStates
      /\ panel \in Made(s, panel).made
  BY <1>1, MadeStays
<1>3. /\ HidePanel(Made(s, panel), panel) \in GoodFolds
      /\ ShowPanel(Made(s, panel), panel) \in GoodFolds
  BY <1>2, HideStays, ShowStays
<1> QED
  BY <1>3 DEF TogglePanel

\* A click toggles the panels of its trigger one after the other.
LEMMA ToggleFold ==
    ASSUME accordion \in BOOLEAN, NEW s \in GoodFolds, NEW q \in Seq(Panels)
    PROVE  FoldLeft(TogglePanel, s, q) \in GoodFolds
<1> DEFINE n == Len(q)
           step == [i \in Indices(n) |->
                      [x \in GoodFolds |-> TogglePanel(x, q[i])]]
           iter[t \in SUBSET Indices(n)] ==
               IF t = {} THEN s ELSE TogglePanel(iter[t \ {Max(t)}], q[Max(t)])
<1>1. /\ n \in Nat /\ DOMAIN q = Indices(n)
      /\ \A i \in Indices(n) : q[i] \in Panels
  BY IndicesOfSeq
<1>2. step \in [Indices(n) -> [GoodFolds -> GoodFolds]]
  BY <1>1, ToggleStays
<1>3. PICK it : IsFoldLeft(it, n, GoodFolds, s, step)
  <2> HIDE DEF n, step
  <2> QED
    BY <1>1, <1>2, FoldLeftExists
<1>4. it = [t \in SUBSET Indices(n) |->
              IF t = {} THEN s ELSE TogglePanel(it[t \ {Max(t)}], q[Max(t)])]
  BY <1>1, <1>3, MaxOfIndices DEF IsFoldLeft
<1>5. iter = [t \in SUBSET Indices(n) |-> IF t = {} THEN s
                ELSE TogglePanel(iter[t \ {Max(t)}], q[Max(t)])]
  BY <1>4
<1>6. FoldLeft(TogglePanel, s, q) = iter[Indices(n)]
  BY <1>1 DEF FoldLeft, MapThenFoldSet
<1>7. \A t \in SUBSET Indices(n) : iter[t] =
         IF t = {} THEN s ELSE TogglePanel(iter[t \ {Max(t)}], q[Max(t)])
  <2> HIDE DEF iter, n
  <2> QED
    BY <1>5
<1> HIDE DEF iter, n, step
<1>8. ASSUME NEW t \in SUBSET Indices(n), t # {},
             iter[t \ {Max(t)}] \in GoodFolds
      PROVE  iter[t] \in GoodFolds
  <2>1. /\ iter[t] = TogglePanel(iter[t \ {Max(t)}], q[Max(t)])
        /\ q[Max(t)] \in Panels
    BY <1>1, <1>7, <1>8, MaxOfIndices
  <2> QED
    BY <1>8, <2>1, ToggleStays
<1>9. iter[{}] \in GoodFolds
  BY <1>7
<1>10. \A k \in 0 .. n : iter[Indices(k)] \in GoodFolds
  BY <1>1, <1>8, <1>9, FoldLeftStays
<1> QED
  BY <1>1, <1>6, <1>10

LEMMA CollapseInit_Inv == CollapseInit => CollapseInv
<1> SUFFICES ASSUME CollapseInit PROVE CollapseInv
  OBVIOUS
<1>1. PICK open \in SUBSET Panels :
         /\ accordion => \A p, q \in open : p = q
         /\ folds =
              [phase |-> [panel \in Panels |->
                             IF panel \in open THEN "shown" ELSE "hidden"],
               expanded |-> {t \in PanelTriggers : Targets[t][1] \in open},
               made |-> {}]
  BY DEF CollapseInit
<1>2. folds \in FoldStates
  BY <1>1 DEF FoldStates, Phases
<1>3. \A p \in Panels : IsOpen(folds, p) <=> p \in open
  BY <1>1 DEF IsOpen
<1>4. \A t \in PanelTriggers : Targets[t][1] \in Panels
  BY TargetsArePanels
<1>5. FoldsAgree(folds)
  BY <1>1, <1>3, <1>4 DEF FoldsAgree
<1>6. OpeningRecorded
  BY <1>1 DEF OpeningRecorded
<1> QED
  BY <1>2, <1>5, <1>6 DEF CollapseInit, CollapseInv, GoodFolds

\* What agrees with the pairs recorded before agrees with those after.
LEMMA RecordAgrees ==
    ASSUME folds' \in FoldStates, FoldsAgree(folds'), RecordTogether,
           accordion' = accordion
    PROVE  FoldsAgree(folds)'
<1>1. CASE accordion
  <2>1. ASSUME NEW p \in Panels, NEW q \in Panels, p # q,
               IsOpen(folds', p), IsOpen(folds', q)
        PROVE  Paired(folds, p, q)'
    <3>1. Paired(folds', p, q)
      BY <1>1, <2>1 DEF FoldsAgree
    <3> QED
      BY <2>1, <3>1 DEF Paired, RecordTogether, IsOpen
  <2> QED
    BY <1>1, <2>1 DEF FoldsAgree, IsOpen
<1>2. CASE ~accordion
  BY <1>2 DEF FoldsAgree, IsOpen
<1> QED
  BY <1>1, <1>2

LEMMA RecordIsKept ==
    ASSUME RecordTogether PROVE OpeningRecorded'
BY DEF RecordTogether, OpeningRecorded

\* When a transition ends, an open pair that opened together was recorded.
LEMMA PanelTransitionEndAgrees ==
    ASSUME CollapseInv, NEW panel \in Panels, PanelTransitionEnd(panel)
    PROVE  CollapseInv'
<1>1. folds \in FoldStates /\ FoldsAgree(folds) /\ OpeningRecorded
  BY DEF CollapseInv, GoodFolds
<1>2. /\ folds'.made = folds.made /\ folds'.expanded = folds.expanded
      /\ folds' \in FoldStates
      /\ \A p \in Panels : folds'.phase[p] =
            IF p # panel THEN folds.phase[p]
            ELSE IF folds.phase[p] = "opening" THEN "shown" ELSE "hidden"
  BY <1>1 DEF PanelTransitionEnd, FoldStates, Phases
<1>3. \A p \in Panels : /\ IsOpen(folds', p) <=> IsOpen(folds, p)
                        /\ folds'.phase[p] = "opening" =>
                              folds.phase[p] = "opening"
  BY <1>2 DEF IsOpen, PanelTransitionEnd, IsTransitioning
<1>4. \A t \in PanelTriggers : Targets[t][1] \in Panels
  BY TargetsArePanels
<1>5. accordion' = accordion /\ RecordTogether
  BY DEF PanelTransitionEnd
<1>6. ASSUME accordion PROVE FoldsAgree(folds')
  <2>1. ASSUME NEW p \in Panels, NEW q \in Panels, p # q,
               IsOpen(folds', p), IsOpen(folds', q)
        PROVE  Paired(folds', p, q)
    <3>1. q \in together[p]
      BY <1>1, <1>3, <1>6, <2>1 DEF FoldsAgree, Paired, OpeningRecorded
    <3> QED
      BY <3>1 DEF Paired
  <2> QED
    BY <1>6, <2>1 DEF FoldsAgree
<1>7. ASSUME ~accordion PROVE FoldsAgree(folds')
  BY <1>1, <1>2, <1>3, <1>4, <1>7 DEF FoldsAgree
<1> QED
  BY <1>2, <1>5, <1>6, <1>7, RecordAgrees, RecordIsKept
     DEF CollapseInv, GoodFolds

\* However the clicks and the ends of transitions come, two panels of an
\* accordion are open together only when both were clicked within a transition,
\* and without a parent a trigger of one panel shows whether it is open.
THEOREM PanelsStayInAgreement == CollapseSpec => []PanelsAgree
<1>1. CollapseInv /\ [CollapseNext]_collapseVars => CollapseInv'
  <2> SUFFICES ASSUME CollapseInv, [CollapseNext]_collapseVars
               PROVE  CollapseInv'
    OBVIOUS
  <2>1. folds \in GoodFolds /\ folds \in FoldStates /\ accordion \in BOOLEAN
    BY DEF CollapseInv, GoodFolds
  <2>2. CASE UNCHANGED collapseVars
    BY <2>2 DEF collapseVars, CollapseInv, GoodFolds, FoldsAgree, IsOpen,
                Paired, OpeningRecorded
  <2>3. ASSUME folds' \in GoodFolds, RecordTogether, UNCHANGED accordion
        PROVE  CollapseInv'
    BY <2>1, <2>3, RecordAgrees, RecordIsKept DEF CollapseInv, GoodFolds
  <2>4. CASE ClickTrigger
    <3>1. PICK t \in PanelTriggers :
             folds' = FoldLeft(TogglePanel, folds, Targets[t])
      BY <2>4 DEF ClickTrigger
    <3>2. folds' \in GoodFolds
      BY <2>1, <3>1, ToggleFold, TargetsArePanels
    <3> QED
      BY <2>3, <2>4, <3>2 DEF ClickTrigger
  <2>5. CASE CallPanel
    <3>1. PICK panel \in Panels :
             \/ folds' = ShowPanel(Made(folds, panel), panel)
             \/ folds' = HidePanel(Made(folds, panel), panel)
      BY <2>5 DEF CallPanel
    <3>2. /\ Made(folds, panel) \in GoodFolds
          /\ Made(folds, panel) \in FoldStates
          /\ panel \in Made(folds, panel).made
      BY <2>1, MadeStays
    <3>3. folds' \in GoodFolds
      BY <2>1, <3>1, <3>2, ShowStays, HideStays
    <3> QED
      BY <2>3, <2>5, <3>3 DEF CallPanel
  <2>6. CASE \E panel \in Panels : PanelTransitionEnd(panel)
    BY <2>6, PanelTransitionEndAgrees
  <2> QED
    BY <2>2, <2>4, <2>5, <2>6 DEF CollapseNext
<1>2. CollapseInv => PanelsAgree
  <2> SUFFICES ASSUME CollapseInv PROVE PanelsAgree
    OBVIOUS
  <2>1. \A t \in PanelTriggers : Targets[t][1] \in Panels
    BY TargetsArePanels
  <2> QED
    BY <2>1 DEF CollapseInv, OpeningRecorded, GoodFolds, FoldsAgree, IsOpen,
                Paired, PanelsAgree
<1> QED
  BY <1>1, <1>2, CollapseInit_Inv, PTL DEF CollapseSpec
=============================================================================
