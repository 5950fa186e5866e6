--------------------------- MODULE Dialogs_proofs ---------------------------
(***************************************************************************)
(* Theorems about the dialogs of a page, for modals and panels in any      *)
(* number, any of them faded, dimmed or scrolling, and queues of any       *)
(* length: the bound of the model is not used.                             *)
(*                                                                         *)
(* The inductive invariant says in which phase each modal is, what the     *)
(* last callback that waits at a panel will do, and who keeps the body from *)
(* scrolling.  ScrollBarHelper has one saved value for all dialogs, so it  *)
(* counts to two: overflow is hidden only while somebody holds it, and a   *)
(* value is saved only while two do.  A dialog that is shown holds the     *)
(* body; when it is hidden the callback that will reset the scroll bar     *)
(* holds it instead.                                                       *)
(***************************************************************************)
EXTENDS Dialogs, FoldTheorems

-----------------------------------------------------------------------------
(* The invariant                                                           *)

Callbacks == {"shown", "hidden", "showElement"}

ScreenStates ==
    [shown : SUBSET DialogSet, busy : SUBSET Modals, lit : SUBSET DialogSet,
     aria : SUBSET DialogSet, drops : SUBSET DialogSet,
     traps : SUBSET DialogSet, listener : DialogSet \union {NoDialog},
     overflow : BOOLEAN, saved : BOOLEAN, modalOpen : BOOLEAN,
     queue : [DialogSet -> [Places -> Seq(Callbacks)]]]

\* The callbacks that wait at the three elements of a dialog.
Waits(s, d, element, inner, backdrop) ==
    /\ s.queue[d]["element"] = element
    /\ s.queue[d]["inner"] = inner
    /\ s.queue[d]["backdrop"] = backdrop

\* The six phases of a modal.  One that gets dark again is no longer busy, and
\* may be shown before its backdrop is gone: then two callbacks wait there.
ModalClosed(s, m) ==
    /\ Waits(s, m, <<>>, <<>>, <<>>)
    /\ m \notin s.shown /\ m \notin s.busy /\ m \notin s.lit
    /\ m \notin s.aria /\ m \notin s.drops /\ m \notin s.traps

ModalDimming(s, m) ==
    /\ m \in Fading /\ m \in Dimming
    /\ \/ Waits(s, m, <<>>, <<>>, <<"showElement">>)
       \/ Waits(s, m, <<>>, <<>>, <<"hidden", "showElement">>)
    /\ m \in s.shown /\ m \in s.busy /\ m \notin s.lit

ModalOpening(s, m) ==
    /\ m \in Fading
    /\ Waits(s, m, <<>>, <<"shown">>, <<>>)
    /\ m \in s.shown /\ m \in s.busy /\ m \in s.lit /\ m \in s.aria

ModalOpened(s, m) ==
    /\ Waits(s, m, <<>>, <<>>, <<>>)
    /\ m \in s.shown /\ m \notin s.busy /\ m \in s.lit
    /\ m \in s.aria /\ m \in s.traps

ModalClosing(s, m) ==
    /\ m \in Fading
    /\ Waits(s, m, <<"hidden">>, <<>>, <<>>)
    /\ m \notin s.shown /\ m \in s.busy /\ m \notin s.lit /\ m \notin s.traps

ModalDarkening(s, m) ==
    /\ m \in Fading /\ m \in Dimming
    /\ Waits(s, m, <<>>, <<>>, <<"hidden">>)
    /\ m \notin s.shown /\ m \notin s.busy /\ m \notin s.lit
    /\ m \notin s.aria /\ m \notin s.traps

ModalGood(s, m) ==
    \/ ModalClosed(s, m) \/ ModalDimming(s, m) \/ ModalOpening(s, m)
    \/ ModalOpened(s, m) \/ ModalClosing(s, m) \/ ModalDarkening(s, m)

\* A panel may be called at any time; the last callback that waits at its
\* element does what was asked last.
PanelGood(s, o) ==
    LET q == s.queue[o]["element"]
        b == s.queue[o]["backdrop"]
    IN  /\ s.queue[o]["inner"] = <<>>
        /\ \A i \in 1 .. Len(q) : q[i] \in {"shown", "hidden"}
        /\ \A i \in 1 .. Len(b) : b[i] = "hidden"
        /\ q # <<>> => (q[Len(q)] = "shown" <=> o \in s.shown)
        /\ q = <<>> => (o \in s.lit <=> o \in s.shown)
                       /\ (o \in s.aria => o \in s.shown)
        /\ o \in s.drops => o \in Dimming /\ (o \in s.shown \/ b # <<>>)

\* What keeps the body from scrolling: a dialog that is shown, a callback
\* that has yet to give the scroll bar back.
Tokens == DialogSet \X {"shown", "element", "backdrop"} \X Nat

Holding(s, d, at, i) ==
    /\ d \notin Scrolling
    /\ IF at = "shown" THEN d \in s.shown /\ i = 0
       ELSE /\ d \in Offcanvases => at = "element"
            /\ i \in 1 .. Len(s.queue[d][at]) /\ s.queue[d][at][i] = "hidden"

Holds(s) == {a \in Tokens : Holding(s, a[1], a[2], a[3])}

\* ScrollBarHelper counts to two.
Held(s, holds) ==
    /\ s.saved => s.overflow
    /\ s.overflow => holds # {}
    /\ s.saved => \E a, b \in holds : a # b

GoodScreens ==
    {s \in ScreenStates :
        /\ \A m \in Modals : ModalGood(s, m)
        /\ \A o \in Offcanvases : PanelGood(s, o)
        /\ Held(s, Holds(s))
        /\ s.modalOpen => \E m \in Modals :
              m \in s.shown \/ \E place \in Places : s.queue[m][place] # <<>>
        /\ IsFiniteSet(s.aria)}

-----------------------------------------------------------------------------
(* What a call leaves alone                                                *)

\* A dialog is in the same state in s and t.
SameDialog(s, t, d) ==
    /\ d \in t.shown <=> d \in s.shown
    /\ d \in t.busy <=> d \in s.busy
    /\ d \in t.lit <=> d \in s.lit
    /\ d \in t.aria <=> d \in s.aria
    /\ d \in t.drops <=> d \in s.drops
    /\ d \in t.traps <=> d \in s.traps
    /\ t.queue[d] = s.queue[d]

\* From s to t only d changes.
OnlyAt(s, t, d) ==
    /\ t \in ScreenStates
    /\ \A other \in DialogSet \ {d} : SameDialog(s, t, other)
    /\ \E more : IsFiniteSet(more) /\ t.aria \subseteq s.aria \union more

LEMMA OnlyAtTrans ==
    ASSUME NEW s, NEW t, NEW u, NEW d, OnlyAt(s, t, d), OnlyAt(t, u, d)
    PROVE  OnlyAt(s, u, d)
<1>1. \A other \in DialogSet \ {d} : SameDialog(s, u, other)
  BY DEF OnlyAt, SameDialog
<1>2. PICK m1 : IsFiniteSet(m1) /\ t.aria \subseteq s.aria \union m1
  BY DEF OnlyAt
<1>3. PICK m2 : IsFiniteSet(m2) /\ u.aria \subseteq t.aria \union m2
  BY DEF OnlyAt
<1>4. IsFiniteSet(m1 \union m2) /\ u.aria \subseteq s.aria \union (m1 \union m2)
  BY <1>2, <1>3, FS_Union
<1> QED
  BY <1>1, <1>4 DEF OnlyAt

LEMMA AriaFinite ==
    ASSUME NEW s, NEW t, NEW d, OnlyAt(s, t, d), IsFiniteSet(s.aria)
    PROVE  IsFiniteSet(t.aria)
<1>1. PICK more : IsFiniteSet(more) /\ t.aria \subseteq s.aria \union more
  BY DEF OnlyAt
<1> QED
  BY <1>1, FS_Union, FS_Subset

\* The three kinds of body state that all dialogs share.
SameBody(s, t) ==
    /\ t.overflow = s.overflow /\ t.saved = s.saved
    /\ t.modalOpen = s.modalOpen

\* The fields of a state, but for the body's.
Fields(t, shown, busy, lit, aria, drops, traps, queue) ==
    /\ t.shown = shown /\ t.busy = busy /\ t.lit = lit /\ t.aria = aria
    /\ t.drops = drops /\ t.traps = traps /\ t.queue = queue

LEMMA ScrollHiddenAt ==
    ASSUME NEW s \in ScreenStates
    PROVE  LET t == ScrollHidden(s)
           IN  /\ t \in ScreenStates
               /\ Fields(t, s.shown, s.busy, s.lit, s.aria, s.drops, s.traps,
                         s.queue)
               /\ t.overflow /\ (t.saved <=> s.saved \/ s.overflow)
               /\ t.modalOpen = s.modalOpen
<1>1. \A saved \in BOOLEAN :
         [s EXCEPT !.saved = saved, !.overflow = TRUE] \in ScreenStates
  BY DEF ScreenStates
<1>2. (s.saved \/ s.overflow) \in BOOLEAN
  OBVIOUS
<1> QED
  BY <1>1, <1>2 DEF ScrollHidden, ScreenStates, Fields

LEMMA ScrollResetAt ==
    ASSUME NEW s \in ScreenStates
    PROVE  LET t == ScrollReset(s)
           IN  /\ t \in ScreenStates
               /\ Fields(t, s.shown, s.busy, s.lit, s.aria, s.drops, s.traps,
                         s.queue)
               /\ ~t.saved /\ (t.overflow <=> s.saved /\ s.overflow)
               /\ t.modalOpen = s.modalOpen
BY DEF ScrollReset, ScreenStates, Fields

LEMMA TrapActivatedAt ==
    ASSUME NEW s \in ScreenStates, NEW d \in DialogSet
    PROVE  LET t == TrapActivated(s, d)
           IN  /\ t \in ScreenStates /\ SameBody(s, t)
               /\ Fields(t, s.shown, s.busy, s.lit, s.aria, s.drops,
                         s.traps \union {d}, s.queue)
BY DEF TrapActivated, ScreenStates, SameBody, Fields

LEMMA TrapDeactivatedAt ==
    ASSUME NEW s \in ScreenStates, NEW d \in DialogSet
    PROVE  LET t == TrapDeactivated(s, d)
           IN  /\ t \in ScreenStates /\ SameBody(s, t)
               /\ Fields(t, s.shown, s.busy, s.lit, s.aria, s.drops,
                         s.traps \ {d}, s.queue)
BY DEF TrapDeactivated, ScreenStates, SameBody, Fields

LEMMA AppendedAt ==
    ASSUME NEW s \in ScreenStates, NEW d \in DialogSet
    PROVE  LET t == Appended(s, d)
           IN  /\ t \in ScreenStates /\ SameBody(s, t)
               /\ Fields(t, s.shown, s.busy, s.lit, s.aria,
                         s.drops \union (Dimming \intersect {d}), s.traps,
                         s.queue)
BY DEF Appended, ScreenStates, SameBody, Fields

LEMMA DisposedAt ==
    ASSUME NEW s \in ScreenStates, NEW d \in DialogSet
    PROVE  LET t == Disposed(s, d)
           IN  /\ t \in ScreenStates /\ SameBody(s, t)
               /\ Fields(t, s.shown, s.busy, s.lit, s.aria, s.drops \ {d},
                         s.traps, s.queue)
BY DEF Disposed, ScreenStates, SameBody, Fields

LEMMA AfterTransitionAt ==
    ASSUME NEW s \in ScreenStates, NEW d \in DialogSet, NEW place \in Places,
           NEW callback \in Callbacks
    PROVE  LET t == AfterTransition(s, d, place, callback)
           IN  /\ t \in ScreenStates /\ SameBody(s, t)
               /\ Fields(t, s.shown, s.busy, s.lit, s.aria, s.drops, s.traps,
                         t.queue)
               /\ \A e \in DialogSet : e # d => t.queue[e] = s.queue[e]
               /\ \A p \in Places : t.queue[d][p] =
                     IF p = place THEN Append(s.queue[d][p], callback)
                                  ELSE s.queue[d][p]
<1> DEFINE t == AfterTransition(s, d, place, callback)
           queue == [s.queue EXCEPT ![d][place] = Append(@, callback)]
<1>1. /\ t.shown = s.shown /\ t.busy = s.busy /\ t.lit = s.lit
      /\ t.aria = s.aria /\ t.drops = s.drops /\ t.traps = s.traps
      /\ t.listener = s.listener /\ t.overflow = s.overflow
      /\ t.saved = s.saved /\ t.modalOpen = s.modalOpen /\ t.queue = queue
  BY DEF AfterTransition, ScreenStates
<1>2. /\ s.queue \in [DialogSet -> [Places -> Seq(Callbacks)]]
      /\ s.queue[d][place] \in Seq(Callbacks)
  BY DEF ScreenStates
<1>3. /\ queue \in [DialogSet -> [Places -> Seq(Callbacks)]]
      /\ \A e \in DialogSet : e # d => queue[e] = s.queue[e]
      /\ \A p \in Places : queue[d][p] =
             IF p = place THEN Append(s.queue[d][p], callback)
                          ELSE s.queue[d][p]
  BY <1>2, AppendProperties
<1>4. t \in ScreenStates
  <2>1. t = [s EXCEPT !.queue = queue]
    BY DEF AfterTransition, ScreenStates
  <2> HIDE DEF t, queue
  <2> QED
    BY <1>3, <2>1 DEF ScreenStates
<1> HIDE DEF t, queue
<1> QED
  BY <1>1, <1>3, <1>4 DEF SameBody, Fields, t

\* From the fields to what changed.
LEMMA FieldsAtOne ==
    ASSUME NEW s \in ScreenStates, NEW t \in ScreenStates, NEW d \in DialogSet,
           t.shown \ {d} = s.shown \ {d}, t.busy \ {d} = s.busy \ {d},
           t.lit \ {d} = s.lit \ {d}, t.aria \ {d} = s.aria \ {d},
           t.drops \ {d} = s.drops \ {d}, t.traps \ {d} = s.traps \ {d},
           \A e \in DialogSet : e # d => t.queue[e] = s.queue[e]
    PROVE  OnlyAt(s, t, d)
<1>1. IsFiniteSet({d}) /\ t.aria \subseteq s.aria \union {d}
  BY FS_Singleton
<1> QED
  BY <1>1 DEF OnlyAt, SameDialog

-----------------------------------------------------------------------------
(* What a call does to its dialog                                          *)

LEMMA ModalShownAt ==
    ASSUME NEW s \in ScreenStates, NEW m \in Modals
    PROVE  LET t == ModalShown(s, m)
           IN  /\ t \in ScreenStates /\ SameBody(s, t)
               /\ Fields(t, s.shown, s.busy \ {m}, s.lit, s.aria, s.drops,
                         s.traps \union {m}, s.queue)
<1> DEFINE u == TrapActivated(s, m)
<1>1. /\ u \in ScreenStates /\ SameBody(s, u)
      /\ Fields(u, s.shown, s.busy, s.lit, s.aria, s.drops,
                s.traps \union {m}, s.queue)
  BY TrapActivatedAt DEF DialogSet
<1>2. ModalShown(s, m) = [u EXCEPT !.busy = @ \ {m}]
  BY DEF ModalShown
<1> HIDE DEF u
<1>3. [u EXCEPT !.busy = @ \ {m}] \in ScreenStates
  BY <1>1 DEF ScreenStates
<1> QED
  BY <1>1, <1>2, <1>3 DEF ScreenStates, Fields, SameBody

LEMMA ShowElementAt ==
    ASSUME NEW s \in ScreenStates, NEW m \in Modals
    PROVE  LET t == ShowElement(s, m)
           IN  /\ OnlyAt(s, t, m) /\ SameBody(s, t)
               /\ t.shown = s.shown /\ t.drops = s.drops
               /\ m \in t.lit /\ m \in t.aria
               /\ IF m \in Fading
                  THEN /\ m \in t.busy <=> m \in s.busy
                       /\ t.queue[m]["inner"]
                             = Append(s.queue[m]["inner"], "shown")
                       /\ t.queue[m]["element"] = s.queue[m]["element"]
                       /\ t.queue[m]["backdrop"] = s.queue[m]["backdrop"]
                  ELSE /\ m \notin t.busy /\ m \in t.traps
                       /\ t.queue = s.queue
<1> DEFINE u == [s EXCEPT !.aria = @ \union {m}, !.lit = @ \union {m}]
           t == ShowElement(s, m)
<1>1. /\ u \in ScreenStates /\ SameBody(s, u)
      /\ Fields(u, s.shown, s.busy, s.lit \union {m}, s.aria \union {m},
                s.drops, s.traps, s.queue)
  BY DEF ScreenStates, DialogSet, SameBody, Fields
<1>2. m \in DialogSet /\ "inner" \in Places /\ "shown" \in Callbacks
  BY DEF DialogSet, Places, Callbacks
<1>3. CASE m \in Fading
  <2>1. t = AfterTransition(u, m, "inner", "shown")
    BY <1>3 DEF ShowElement
  <2>2. /\ t \in ScreenStates /\ SameBody(u, t)
        /\ Fields(t, u.shown, u.busy, u.lit, u.aria, u.drops, u.traps, t.queue)
        /\ \A e \in DialogSet : e # m => t.queue[e] = u.queue[e]
        /\ \A p \in Places : t.queue[m][p] =
              IF p = "inner" THEN Append(u.queue[m][p], "shown")
                             ELSE u.queue[m][p]
    <3> HIDE DEF u, t
    <3> QED
      BY <1>1, <1>2, <2>1, AfterTransitionAt
  <2>3. OnlyAt(s, t, m)
    <3> HIDE DEF u, t
    <3> QED
      BY <1>1, <1>2, <2>2, FieldsAtOne DEF Fields
  <2> HIDE DEF u, t
  <2>4. /\ SameBody(s, t) /\ t.shown = s.shown /\ t.drops = s.drops
        /\ m \in t.lit /\ m \in t.aria /\ t.busy = s.busy
        /\ t.queue[m]["inner"] = Append(s.queue[m]["inner"], "shown")
        /\ t.queue[m]["element"] = s.queue[m]["element"]
        /\ t.queue[m]["backdrop"] = s.queue[m]["backdrop"]
    BY <1>1, <2>2 DEF Fields, SameBody, Places
  <2> QED
    BY <1>3, <2>3, <2>4 DEF t
<1>4. CASE m \notin Fading
  <2>1. t = ModalShown(u, m)
    BY <1>4 DEF ShowElement
  <2>2. /\ t \in ScreenStates /\ SameBody(u, t)
        /\ Fields(t, u.shown, u.busy \ {m}, u.lit, u.aria, u.drops,
                  u.traps \union {m}, u.queue)
    <3> HIDE DEF u, t
    <3> QED
      BY <1>1, <2>1, ModalShownAt
  <2> HIDE DEF u, t
  <2>3. OnlyAt(s, t, m)
    BY <1>1, <1>2, <2>2, FieldsAtOne DEF Fields
  <2> QED
    BY <1>1, <1>4, <2>2, <2>3 DEF Fields, SameBody, t
<1> QED
  BY <1>3, <1>4

LEMMA BackdropHiddenAt ==
    ASSUME NEW s \in ScreenStates, NEW m \in Modals
    PROVE  LET t == BackdropHidden(s, m)
           IN  /\ OnlyAt(s, t, m)
               /\ Fields(t, s.shown, s.busy, s.lit, s.aria, s.drops \ {m},
                         s.traps, s.queue)
               /\ ~t.saved /\ (t.overflow <=> s.saved /\ s.overflow)
               /\ ~t.modalOpen
<1> DEFINE u == Disposed(s, m)
           v == [u EXCEPT !.modalOpen = FALSE]
           t == BackdropHidden(s, m)
<1>1. m \in DialogSet
  BY DEF DialogSet
<1>2. /\ u \in ScreenStates /\ SameBody(s, u)
      /\ Fields(u, s.shown, s.busy, s.lit, s.aria, s.drops \ {m}, s.traps,
                s.queue)
  BY <1>1, DisposedAt
<1>3. t = ScrollReset(v)
  BY DEF BackdropHidden
<1>4. /\ v \in ScreenStates /\ ~v.modalOpen
      /\ v.overflow = u.overflow /\ v.saved = u.saved
      /\ Fields(v, u.shown, u.busy, u.lit, u.aria, u.drops, u.traps, u.queue)
  <2> HIDE DEF u
  <2> QED
    BY <1>2 DEF ScreenStates, Fields
<1>5. /\ t \in ScreenStates
      /\ Fields(t, v.shown, v.busy, v.lit, v.aria, v.drops, v.traps, v.queue)
      /\ ~t.saved /\ (t.overflow <=> v.saved /\ v.overflow)
      /\ t.modalOpen = v.modalOpen
  <2> HIDE DEF v, t
  <2> QED
    BY <1>3, <1>4, ScrollResetAt
<1> HIDE DEF u, v, t
<1>6. Fields(t, s.shown, s.busy, s.lit, s.aria, s.drops \ {m}, s.traps,
             s.queue)
  BY <1>2, <1>4, <1>5 DEF Fields
<1>7. OnlyAt(s, t, m)
  BY <1>1, <1>5, <1>6, FieldsAtOne DEF Fields
<1> QED
  BY <1>2, <1>4, <1>5, <1>6, <1>7 DEF SameBody, t

LEMMA HideModalAt ==
    ASSUME NEW s \in ScreenStates, NEW m \in Modals
    PROVE  LET t == HideModal(s, m)
           IN  /\ OnlyAt(s, t, m) /\ t.shown = s.shown /\ t.lit = s.lit
               /\ t.traps = s.traps /\ m \notin t.aria /\ m \notin t.busy
               /\ t.queue[m]["inner"] = s.queue[m]["inner"]
               /\ t.queue[m]["element"] = s.queue[m]["element"]
               /\ IF m \in Fading \intersect Dimming
                  THEN /\ SameBody(s, t)
                       /\ t.queue[m]["backdrop"]
                             = Append(s.queue[m]["backdrop"], "hidden")
                  ELSE /\ m \notin t.drops /\ t.queue = s.queue
                       /\ ~t.saved /\ (t.overflow <=> s.saved /\ s.overflow)
                       /\ ~t.modalOpen
<1> DEFINE u == [s EXCEPT !.aria = @ \ {m}, !.busy = @ \ {m}]
           t == HideModal(s, m)
<1>1. /\ u \in ScreenStates /\ SameBody(s, u)
      /\ Fields(u, s.shown, s.busy \ {m}, s.lit, s.aria \ {m},
                s.drops, s.traps, s.queue)
  BY DEF ScreenStates, DialogSet, SameBody, Fields
<1>2. m \in DialogSet /\ "backdrop" \in Places /\ "hidden" \in Callbacks
  BY DEF DialogSet, Places, Callbacks
<1>3. CASE m \in Fading \intersect Dimming
  <2>1. t = AfterTransition(u, m, "backdrop", "hidden")
    BY <1>3 DEF HideModal
  <2>2. /\ t \in ScreenStates /\ SameBody(u, t)
        /\ Fields(t, u.shown, u.busy, u.lit, u.aria, u.drops, u.traps, t.queue)
        /\ \A e \in DialogSet : e # m => t.queue[e] = u.queue[e]
        /\ \A p \in Places : t.queue[m][p] =
              IF p = "backdrop" THEN Append(u.queue[m][p], "hidden")
                                ELSE u.queue[m][p]
    <3> HIDE DEF u, t
    <3> QED
      BY <1>1, <1>2, <2>1, AfterTransitionAt
  <2> HIDE DEF u, t
  <2>3. OnlyAt(s, t, m)
    BY <1>1, <1>2, <2>2, FieldsAtOne DEF Fields
  <2>4. /\ SameBody(s, t) /\ t.shown = s.shown /\ t.lit = s.lit
        /\ m \notin t.aria /\ m \notin t.busy /\ t.traps = s.traps
        /\ t.queue[m]["inner"] = s.queue[m]["inner"]
        /\ t.queue[m]["element"] = s.queue[m]["element"]
        /\ t.queue[m]["backdrop"] = Append(s.queue[m]["backdrop"], "hidden")
    BY <1>1, <2>2 DEF Fields, SameBody, Places
  <2> QED
    BY <1>3, <2>3, <2>4 DEF t
<1>4. CASE m \notin Fading \intersect Dimming
  <2>1. t = BackdropHidden(u, m)
    BY <1>4 DEF HideModal
  <2>2. /\ OnlyAt(u, t, m)
        /\ Fields(t, u.shown, u.busy, u.lit, u.aria, u.drops \ {m},
                  u.traps, u.queue)
        /\ ~t.saved /\ (t.overflow <=> u.saved /\ u.overflow)
        /\ ~t.modalOpen
    <3> HIDE DEF u, t
    <3> QED
      BY <1>1, <2>1, BackdropHiddenAt
  <2> HIDE DEF u, t
  <2>3. OnlyAt(s, u, m)
    BY <1>1, <1>2, FieldsAtOne DEF Fields
  <2>4. OnlyAt(s, t, m)
    BY <2>2, <2>3, OnlyAtTrans
  <2> QED
    BY <1>1, <1>4, <2>2, <2>4 DEF Fields, SameBody, t
<1> QED
  BY <1>3, <1>4

LEMMA ModalShowAt ==
    ASSUME NEW s \in ScreenStates, NEW m \in Modals,
           m \notin s.shown, m \notin s.busy
    PROVE  LET t == ModalShow(s, m)
           IN  /\ OnlyAt(s, t, m) /\ m \in t.shown /\ t.modalOpen
               /\ t.overflow /\ (t.saved <=> s.saved \/ s.overflow)
               /\ t.queue[m]["element"] = s.queue[m]["element"]
               /\ CASE m \in Fading \intersect Dimming ->
                         /\ m \in t.busy /\ t.lit = s.lit
                         /\ t.queue[m]["inner"] = s.queue[m]["inner"]
                         /\ t.queue[m]["backdrop"]
                               = Append(s.queue[m]["backdrop"], "showElement")
                    [] m \in Fading \ Dimming ->
                         /\ m \in t.busy /\ m \in t.lit /\ m \in t.aria
                         /\ t.queue[m]["inner"]
                               = Append(s.queue[m]["inner"], "shown")
                         /\ t.queue[m]["backdrop"] = s.queue[m]["backdrop"]
                    [] m \notin Fading ->
                         /\ m \notin t.busy /\ m \in t.lit /\ m \in t.aria
                         /\ m \in t.traps /\ t.queue[m] = s.queue[m]
<1> DEFINE u == ScrollHidden(s)
           v == [u EXCEPT !.shown = @ \union {m}, !.busy = @ \union {m},
                          !.modalOpen = TRUE]
           w == Appended(v, m)
           t == ModalShow(s, m)
<1>1. m \in DialogSet /\ "backdrop" \in Places /\ "showElement" \in Callbacks
  BY DEF DialogSet, Places, Callbacks
<1>2. /\ u \in ScreenStates
      /\ Fields(u, s.shown, s.busy, s.lit, s.aria, s.drops, s.traps, s.queue)
      /\ u.overflow /\ (u.saved <=> s.saved \/ s.overflow)
  BY ScrollHiddenAt
<1>3. /\ v \in ScreenStates
      /\ Fields(v, u.shown \union {m}, u.busy \union {m}, u.lit, u.aria,
                u.drops, u.traps, u.queue)
      /\ v.overflow = u.overflow /\ v.saved = u.saved /\ v.modalOpen
  <2> HIDE DEF u
  <2> QED
    BY <1>1, <1>2 DEF ScreenStates, Fields
<1>4. /\ w \in ScreenStates /\ SameBody(v, w)
      /\ Fields(w, v.shown, v.busy, v.lit, v.aria,
                v.drops \union (Dimming \intersect {m}), v.traps, v.queue)
  <2> HIDE DEF v
  <2> QED
    BY <1>1, <1>3, AppendedAt
<1>5. t = IF m \in Fading \intersect Dimming
          THEN AfterTransition(w, m, "backdrop", "showElement")
          ELSE ShowElement(w, m)
  BY DEF ModalShow
<1> HIDE DEF u, v, w, t
<1>6. /\ m \in w.shown /\ m \in w.busy /\ w.lit = s.lit /\ w.queue = s.queue
      /\ w.modalOpen /\ w.overflow /\ (w.saved <=> s.saved \/ s.overflow)
      /\ OnlyAt(s, w, m)
  <2>1. OnlyAt(s, w, m)
    BY <1>1, <1>2, <1>3, <1>4, FieldsAtOne DEF Fields
  <2> QED
    BY <1>2, <1>3, <1>4, <2>1 DEF Fields, SameBody
<1>7. CASE m \in Fading \intersect Dimming
  <2>1. t = AfterTransition(w, m, "backdrop", "showElement")
    BY <1>5, <1>7
  <2>2. /\ t \in ScreenStates /\ SameBody(w, t)
        /\ Fields(t, w.shown, w.busy, w.lit, w.aria, w.drops, w.traps, t.queue)
        /\ \A e \in DialogSet : e # m => t.queue[e] = w.queue[e]
        /\ \A p \in Places : t.queue[m][p] =
              IF p = "backdrop" THEN Append(w.queue[m][p], "showElement")
                                ELSE w.queue[m][p]
    BY <1>1, <1>4, <2>1, AfterTransitionAt
  <2>3. OnlyAt(w, t, m)
    BY <1>1, <1>4, <2>2, FieldsAtOne DEF Fields
  <2>4. OnlyAt(s, t, m)
    BY <1>6, <2>3, OnlyAtTrans
  <2>5. /\ m \in t.shown /\ t.modalOpen /\ t.overflow /\ m \in t.busy
        /\ t.lit = s.lit /\ (t.saved <=> s.saved \/ s.overflow)
        /\ t.queue[m]["element"] = s.queue[m]["element"]
        /\ t.queue[m]["inner"] = s.queue[m]["inner"]
        /\ t.queue[m]["backdrop"]
              = Append(s.queue[m]["backdrop"], "showElement")
    BY <1>6, <2>2 DEF Fields, SameBody, Places
  <2> QED
    BY <1>7, <2>4, <2>5 DEF t
<1>8. CASE m \notin Fading \intersect Dimming
  <2>1. t = ShowElement(w, m)
    BY <1>5, <1>8
  <2>2. /\ OnlyAt(w, t, m) /\ SameBody(w, t)
        /\ t.shown = w.shown /\ m \in t.lit /\ m \in t.aria
        /\ IF m \in Fading
           THEN /\ m \in t.busy <=> m \in w.busy
                /\ t.queue[m]["inner"] = Append(w.queue[m]["inner"], "shown")
                /\ t.queue[m]["element"] = w.queue[m]["element"]
                /\ t.queue[m]["backdrop"] = w.queue[m]["backdrop"]
           ELSE /\ m \notin t.busy /\ m \in t.traps
                /\ t.queue = w.queue
    BY <1>4, <2>1, ShowElementAt
  <2>3. OnlyAt(s, t, m)
    BY <1>6, <2>2, OnlyAtTrans
  <2> QED
    BY <1>6, <1>8, <2>2, <2>3 DEF SameBody, t
<1> QED
  BY <1>7, <1>8

LEMMA ModalHideAt ==
    ASSUME NEW s \in ScreenStates, NEW m \in Modals,
           m \in s.shown, m \notin s.busy
    PROVE  LET t == ModalHide(s, m)
           IN  /\ OnlyAt(s, t, m)
               /\ m \notin t.shown /\ m \notin t.lit /\ m \notin t.traps
               /\ t.queue[m]["inner"] = s.queue[m]["inner"]
               /\ t.queue[m]["backdrop"] = s.queue[m]["backdrop"]
               /\ IF m \in Fading
                  THEN /\ SameBody(s, t) /\ m \in t.busy
                       /\ t.queue[m]["element"]
                             = Append(s.queue[m]["element"], "hidden")
                  ELSE /\ m \notin t.busy /\ m \notin t.aria
                       /\ m \notin t.drops /\ t.queue[m] = s.queue[m]
                       /\ ~t.saved /\ (t.overflow <=> s.saved /\ s.overflow)
                       /\ ~t.modalOpen
<1> DEFINE u == TrapDeactivated(s, m)
           v == [u EXCEPT !.shown = @ \ {m}, !.busy = @ \union {m},
                          !.lit = @ \ {m}]
           t == ModalHide(s, m)
<1>1. m \in DialogSet /\ "element" \in Places /\ "hidden" \in Callbacks
  BY DEF DialogSet, Places, Callbacks
<1>2. /\ u \in ScreenStates /\ SameBody(s, u)
      /\ Fields(u, s.shown, s.busy, s.lit, s.aria, s.drops, s.traps \ {m},
                s.queue)
  BY <1>1, TrapDeactivatedAt
<1>3. /\ v \in ScreenStates /\ SameBody(u, v)
      /\ Fields(v, u.shown \ {m}, u.busy \union {m}, u.lit \ {m}, u.aria,
                u.drops, u.traps, u.queue)
  <2> HIDE DEF u
  <2> QED
    BY <1>1, <1>2 DEF ScreenStates, Fields, SameBody
<1>4. t = IF m \in Fading THEN AfterTransition(v, m, "element", "hidden")
                          ELSE HideModal(v, m)
  BY DEF ModalHide
<1> HIDE DEF u, v, t
<1>5. /\ m \notin v.shown /\ m \in v.busy /\ m \notin v.lit /\ m \notin v.traps
      /\ v.queue = s.queue /\ SameBody(s, v) /\ OnlyAt(s, v, m)
  <2>1. OnlyAt(s, v, m)
    BY <1>1, <1>2, <1>3, FieldsAtOne DEF Fields
  <2> QED
    BY <1>2, <1>3, <2>1 DEF Fields, SameBody
<1>6. CASE m \in Fading
  <2>1. t = AfterTransition(v, m, "element", "hidden")
    BY <1>4, <1>6
  <2>2. /\ t \in ScreenStates /\ SameBody(v, t)
        /\ Fields(t, v.shown, v.busy, v.lit, v.aria, v.drops, v.traps, t.queue)
        /\ \A e \in DialogSet : e # m => t.queue[e] = v.queue[e]
        /\ \A p \in Places : t.queue[m][p] =
              IF p = "element" THEN Append(v.queue[m][p], "hidden")
                               ELSE v.queue[m][p]
    BY <1>1, <1>3, <2>1, AfterTransitionAt
  <2>3. OnlyAt(v, t, m)
    BY <1>1, <1>3, <2>2, FieldsAtOne DEF Fields
  <2>4. OnlyAt(s, t, m)
    BY <1>5, <2>3, OnlyAtTrans
  <2>5. /\ m \notin t.shown /\ m \in t.busy /\ m \notin t.lit
        /\ m \notin t.traps /\ SameBody(s, t)
        /\ t.queue[m]["inner"] = s.queue[m]["inner"]
        /\ t.queue[m]["backdrop"] = s.queue[m]["backdrop"]
        /\ t.queue[m]["element"] = Append(s.queue[m]["element"], "hidden")
    BY <1>5, <2>2 DEF Fields, SameBody, Places
  <2> QED
    BY <1>6, <2>4, <2>5 DEF t
<1>7. CASE m \notin Fading
  <2>1. t = HideModal(v, m)
    BY <1>4, <1>7
  <2>2. /\ OnlyAt(v, t, m) /\ t.shown = v.shown /\ t.lit = v.lit
        /\ t.traps = v.traps /\ m \notin t.aria /\ m \notin t.busy
        /\ m \notin t.drops /\ t.queue = v.queue
        /\ ~t.saved /\ (t.overflow <=> v.saved /\ v.overflow)
        /\ ~t.modalOpen
    BY <1>3, <1>7, <2>1, HideModalAt
  <2>3. OnlyAt(s, t, m)
    BY <1>5, <2>2, OnlyAtTrans
  <2> QED
    BY <1>5, <1>7, <2>2, <2>3 DEF SameBody, t
<1> QED
  BY <1>6, <1>7

-----------------------------------------------------------------------------

LEMMA OffcanvasShowAt ==
    ASSUME NEW s \in ScreenStates, NEW o \in Offcanvases, o \notin s.shown
    PROVE  LET t == OffcanvasShow(s, o)
           IN  /\ OnlyAt(s, t, o) /\ o \in t.shown
               /\ t.modalOpen = s.modalOpen
               /\ t.drops \subseteq s.drops \union Dimming
               /\ t.queue[o]["inner"] = s.queue[o]["inner"]
               /\ t.queue[o]["backdrop"] = s.queue[o]["backdrop"]
               /\ t.queue[o]["element"]
                     = Append(s.queue[o]["element"], "shown")
               /\ IF o \in Scrolling THEN SameBody(s, t)
                  ELSE t.overflow /\ (t.saved <=> s.saved \/ s.overflow)
<1> DEFINE a == Appended(s, o)
           u == [a EXCEPT !.shown = @ \union {o}]
           v == IF o \in Scrolling THEN u ELSE ScrollHidden(u)
           w == [v EXCEPT !.aria = @ \union {o}]
           t == OffcanvasShow(s, o)
<1>1. o \in DialogSet /\ "element" \in Places /\ "shown" \in Callbacks
  BY DEF DialogSet, Places, Callbacks
<1>2. /\ a \in ScreenStates /\ SameBody(s, a)
      /\ Fields(a, s.shown, s.busy, s.lit, s.aria,
                s.drops \union (Dimming \intersect {o}), s.traps, s.queue)
  BY <1>1, AppendedAt
<1>3. /\ u \in ScreenStates /\ SameBody(a, u)
      /\ Fields(u, a.shown \union {o}, a.busy, a.lit, a.aria, a.drops,
                a.traps, a.queue)
  <2> HIDE DEF a
  <2> QED
    BY <1>1, <1>2 DEF ScreenStates, Fields, SameBody
<1>4. /\ v \in ScreenStates
      /\ Fields(v, u.shown, u.busy, u.lit, u.aria, u.drops, u.traps, u.queue)
      /\ v.modalOpen = u.modalOpen
      /\ IF o \in Scrolling THEN SameBody(u, v)
         ELSE v.overflow /\ (v.saved <=> u.saved \/ u.overflow)
  <2> HIDE DEF u
  <2> QED
    BY <1>3, ScrollHiddenAt DEF SameBody, Fields
<1>5. /\ w \in ScreenStates /\ SameBody(v, w)
      /\ Fields(w, v.shown, v.busy, v.lit, v.aria \union {o}, v.drops,
                v.traps, v.queue)
  <2> HIDE DEF v
  <2> QED
    BY <1>1, <1>4 DEF ScreenStates, Fields, SameBody
<1>6. t = AfterTransition(w, o, "element", "shown")
  BY DEF OffcanvasShow
<1> HIDE DEF a, u, v, w, t
<1>7. /\ t \in ScreenStates /\ SameBody(w, t)
      /\ Fields(t, w.shown, w.busy, w.lit, w.aria, w.drops, w.traps, t.queue)
      /\ \A e \in DialogSet : e # o => t.queue[e] = w.queue[e]
      /\ \A p \in Places : t.queue[o][p] =
            IF p = "element" THEN Append(w.queue[o][p], "shown")
                             ELSE w.queue[o][p]
  BY <1>1, <1>5, <1>6, AfterTransitionAt
<1>8. w.queue = s.queue /\ w.shown = s.shown \union {o}
  BY <1>2, <1>3, <1>4, <1>5 DEF Fields
<1>9. OnlyAt(s, t, o)
  BY <1>1, <1>2, <1>3, <1>4, <1>5, <1>7, <1>8, FieldsAtOne DEF Fields
<1>10. /\ t.modalOpen = s.modalOpen
       /\ t.drops \subseteq s.drops \union Dimming
       /\ IF o \in Scrolling THEN SameBody(s, t)
          ELSE t.overflow /\ (t.saved <=> s.saved \/ s.overflow)
  BY <1>2, <1>3, <1>4, <1>5, <1>7 DEF SameBody, Fields
<1>11. /\ o \in t.shown
       /\ t.queue[o]["inner"] = s.queue[o]["inner"]
       /\ t.queue[o]["backdrop"] = s.queue[o]["backdrop"]
       /\ t.queue[o]["element"] = Append(s.queue[o]["element"], "shown")
  BY <1>7, <1>8 DEF Fields, Places
<1> QED
  BY <1>9, <1>10, <1>11 DEF t

LEMMA OffcanvasHideAt ==
    ASSUME NEW s \in ScreenStates, NEW o \in Offcanvases, o \in s.shown
    PROVE  LET t == OffcanvasHide(s, o)
           IN  /\ OnlyAt(s, t, o) /\ o \notin t.shown /\ SameBody(s, t)
               /\ t.drops = s.drops
               /\ t.queue[o]["inner"] = s.queue[o]["inner"]
               /\ t.queue[o]["backdrop"] =
                     IF o \in Dimming
                     THEN Append(s.queue[o]["backdrop"], "hidden")
                     ELSE s.queue[o]["backdrop"]
               /\ t.queue[o]["element"]
                     = Append(s.queue[o]["element"], "hidden")
<1> DEFINE u == TrapDeactivated(s, o)
           v == [u EXCEPT !.shown = @ \ {o}]
           w == IF o \in Dimming
                THEN AfterTransition(v, o, "backdrop", "hidden") ELSE v
           t == OffcanvasHide(s, o)
<1>1. /\ o \in DialogSet /\ "element" \in Places /\ "backdrop" \in Places
      /\ "hidden" \in Callbacks
  BY DEF DialogSet, Places, Callbacks
<1>2. /\ u \in ScreenStates /\ SameBody(s, u)
      /\ Fields(u, s.shown, s.busy, s.lit, s.aria, s.drops, s.traps \ {o},
                s.queue)
  BY <1>1, TrapDeactivatedAt
<1>3. /\ v \in ScreenStates /\ SameBody(u, v)
      /\ Fields(v, u.shown \ {o}, u.busy, u.lit, u.aria, u.drops, u.traps,
                u.queue)
  <2> HIDE DEF u
  <2> QED
    BY <1>1, <1>2 DEF ScreenStates, Fields, SameBody
<1>4. /\ w \in ScreenStates /\ SameBody(v, w)
      /\ Fields(w, v.shown, v.busy, v.lit, v.aria, v.drops, v.traps, w.queue)
      /\ \A e \in DialogSet : e # o => w.queue[e] = v.queue[e]
      /\ \A p \in Places : w.queue[o][p] =
            IF p = "backdrop" /\ o \in Dimming
            THEN Append(v.queue[o][p], "hidden") ELSE v.queue[o][p]
  <2> HIDE DEF v
  <2>1. CASE o \in Dimming
    BY <1>1, <1>3, <2>1, AfterTransitionAt
  <2>2. CASE o \notin Dimming
    BY <1>3, <2>2 DEF SameBody, Fields
  <2> QED
    BY <2>1, <2>2
<1>5. t = AfterTransition(w, o, "element", "hidden")
  BY DEF OffcanvasHide
<1> HIDE DEF u, v, w, t
<1>6. /\ t \in ScreenStates /\ SameBody(w, t)
      /\ Fields(t, w.shown, w.busy, w.lit, w.aria, w.drops, w.traps, t.queue)
      /\ \A e \in DialogSet : e # o => t.queue[e] = w.queue[e]
      /\ \A p \in Places : t.queue[o][p] =
            IF p = "element" THEN Append(w.queue[o][p], "hidden")
                             ELSE w.queue[o][p]
  BY <1>1, <1>4, <1>5, AfterTransitionAt
<1>7. v.queue = s.queue
  BY <1>2, <1>3 DEF Fields
<1>8. OnlyAt(s, t, o)
  BY <1>1, <1>2, <1>3, <1>4, <1>6, <1>7, FieldsAtOne DEF Fields
<1>9. SameBody(s, t) /\ t.drops = s.drops /\ o \notin t.shown
  BY <1>2, <1>3, <1>4, <1>6 DEF SameBody, Fields
<1>10. \A p \in Places : t.queue[o][p] =
          CASE p = "element" -> Append(s.queue[o][p], "hidden")
            [] p = "backdrop" /\ o \in Dimming ->
                  Append(s.queue[o][p], "hidden")
            [] OTHER -> s.queue[o][p]
  BY <1>4, <1>6, <1>7
<1> QED
  BY <1>8, <1>9, <1>10 DEF Places, t

LEMMA OffcanvasShownAt ==
    ASSUME NEW s \in ScreenStates, NEW o \in Offcanvases
    PROVE  LET t == OffcanvasShown(s, o)
           IN  /\ OnlyAt(s, t, o) /\ SameBody(s, t) /\ o \in t.lit
               /\ t.shown = s.shown /\ t.aria = s.aria /\ t.drops = s.drops
               /\ t.queue = s.queue
<1> DEFINE u == IF o \in Scrolling \ Dimming THEN s ELSE TrapActivated(s, o)
           t == OffcanvasShown(s, o)
<1>1. o \in DialogSet
  BY DEF DialogSet
<1>2. /\ u \in ScreenStates /\ SameBody(s, u)
      /\ Fields(u, s.shown, s.busy, s.lit, s.aria, s.drops, u.traps, s.queue)
      /\ u.traps \ {o} = s.traps \ {o}
  BY <1>1, TrapActivatedAt DEF SameBody, Fields
<1>3. t = [u EXCEPT !.lit = @ \union {o}]
  BY DEF OffcanvasShown
<1> HIDE DEF u
<1>4. /\ t \in ScreenStates /\ SameBody(u, t)
      /\ Fields(t, u.shown, u.busy, u.lit \union {o}, u.aria, u.drops,
                u.traps, u.queue)
  <2>1. u \in ScreenStates
    BY <1>2
  <2> HIDE DEF t
  <2> QED
    BY <1>1, <1>3, <2>1 DEF ScreenStates, SameBody, Fields
<1> HIDE DEF t
<1>5. OnlyAt(s, t, o)
  BY <1>1, <1>2, <1>4, FieldsAtOne DEF Fields
<1> QED
  BY <1>2, <1>4, <1>5 DEF SameBody, Fields, t

LEMMA OffcanvasHiddenAt ==
    ASSUME NEW s \in ScreenStates, NEW o \in Offcanvases
    PROVE  LET t == OffcanvasHidden(s, o)
           IN  /\ OnlyAt(s, t, o) /\ o \notin t.lit /\ o \notin t.aria
               /\ t.shown = s.shown /\ t.drops = s.drops /\ t.queue = s.queue
               /\ t.modalOpen = s.modalOpen
               /\ IF o \in Scrolling THEN SameBody(s, t)
                  ELSE ~t.saved /\ (t.overflow <=> s.saved /\ s.overflow)
<1> DEFINE u == [s EXCEPT !.lit = @ \ {o}, !.aria = @ \ {o}]
           t == OffcanvasHidden(s, o)
<1>1. o \in DialogSet
  BY DEF DialogSet
<1>2. /\ u \in ScreenStates /\ SameBody(s, u)
      /\ Fields(u, s.shown, s.busy, s.lit \ {o}, s.aria \ {o}, s.drops,
                s.traps, s.queue)
  BY DEF ScreenStates, SameBody, Fields
<1>3. t = IF o \in Scrolling THEN u ELSE ScrollReset(u)
  BY DEF OffcanvasHidden
<1> HIDE DEF u, t
<1>4. /\ t \in ScreenStates /\ t.modalOpen = u.modalOpen
      /\ Fields(t, u.shown, u.busy, u.lit, u.aria, u.drops, u.traps, u.queue)
      /\ IF o \in Scrolling THEN SameBody(u, t)
         ELSE ~t.saved /\ (t.overflow <=> u.saved /\ u.overflow)
  BY <1>2, <1>3, ScrollResetAt DEF SameBody, Fields
<1>5. OnlyAt(s, t, o)
  BY <1>1, <1>2, <1>4, FieldsAtOne DEF Fields
<1> QED
  BY <1>2, <1>4, <1>5 DEF SameBody, Fields, t

-----------------------------------------------------------------------------
(* The dialogs that a step leaves alone, and the scroll bar                *)

LEMMA FrameGood ==
    ASSUME NEW s \in GoodScreens, NEW t, NEW d \in DialogSet, OnlyAt(s, t, d)
    PROVE  /\ t \in ScreenStates /\ IsFiniteSet(t.aria)
           /\ \A m \in Modals : m # d => ModalGood(t, m)
           /\ \A o \in Offcanvases : o # d => PanelGood(t, o)
           /\ \A e \in DialogSet : e # d =>
                 \A at, i : Holding(t, e, at, i) <=> Holding(s, e, at, i)
<1>1. t \in ScreenStates /\ IsFiniteSet(t.aria)
  BY AriaFinite DEF OnlyAt, GoodScreens
<1>2. ASSUME NEW m \in Modals, m # d PROVE ModalGood(t, m)
  <2>1. SameDialog(s, t, m) /\ ModalGood(s, m)
    BY <1>2 DEF OnlyAt, GoodScreens, DialogSet
  <2> QED
    BY <2>1 DEF SameDialog, ModalGood, ModalClosed, ModalDimming,
         ModalOpening, ModalOpened, ModalClosing, ModalDarkening, Waits
<1>3. ASSUME NEW o \in Offcanvases, o # d PROVE PanelGood(t, o)
  <2>1. SameDialog(s, t, o) /\ PanelGood(s, o)
    BY <1>3 DEF OnlyAt, GoodScreens, DialogSet
  <2> QED
    BY <2>1 DEF SameDialog, PanelGood
<1>4. ASSUME NEW e \in DialogSet, e # d, NEW at, NEW i
      PROVE  Holding(t, e, at, i) <=> Holding(s, e, at, i)
  BY <1>4 DEF OnlyAt, SameDialog, Holding
<1> QED
  BY <1>1, <1>2, <1>3, <1>4

\* A dialog that needs the body held adds a token to those there are.
LEMMA HoldAdded ==
    ASSUME NEW s, NEW t, NEW a, Held(s, Holds(s)),
           a \notin Holds(s), a \in Holds(t), Holds(s) \subseteq Holds(t),
           t.overflow, t.saved <=> s.saved \/ s.overflow
    PROVE  Held(t, Holds(t))
BY DEF Held

\* One that gives it back may take its token along.
LEMMA HoldBack ==
    ASSUME NEW s, NEW t, NEW a, Held(s, Holds(s)),
           Holds(s) \ {a} \subseteq Holds(t),
           ~t.saved, t.overflow <=> s.saved /\ s.overflow
    PROVE  Held(t, Holds(t))
BY DEF Held

LEMMA HoldMoved ==
    ASSUME NEW s, NEW t, NEW a, NEW b, Held(s, Holds(s)), SameBody(s, t),
           b \notin Holds(s), b \in Holds(t), Holds(s) \ {a} \subseteq Holds(t)
    PROVE  Held(t, Holds(t))
BY DEF Held, SameBody

LEMMA HoldKept ==
    ASSUME NEW s, NEW t, Held(s, Holds(s)), SameBody(s, t),
           Holds(s) \subseteq Holds(t)
    PROVE  Held(t, Holds(t))
BY DEF Held, SameBody

\* A dialog gives up no token but the i-th at one of its elements.
TokensStay(s, t, d, at, i) ==
    \A k \in Nat :
        /\ Holding(s, d, "shown", k) /\ ~(at = "shown" /\ k = i)
               => Holding(t, d, "shown", k)
        /\ Holding(s, d, "element", k) /\ ~(at = "element" /\ k = i)
               => Holding(t, d, "element", k)
        /\ Holding(s, d, "backdrop", k) /\ ~(at = "backdrop" /\ k = i)
               => Holding(t, d, "backdrop", k)

\* The tokens after a step, when those of its dialog are known.
LEMMA HoldsAfter ==
    ASSUME NEW s \in GoodScreens, NEW t, NEW d \in DialogSet, OnlyAt(s, t, d),
           NEW at, NEW i, TokensStay(s, t, d, at, i)
    PROVE  Holds(s) \ {<<d, at, i>>} \subseteq Holds(t)
<1> SUFFICES ASSUME NEW e \in DialogSet,
                    NEW p \in {"shown", "element", "backdrop"}, NEW k \in Nat,
                    <<e, p, k>> # <<d, at, i>>, Holding(s, e, p, k)
             PROVE  Holding(t, e, p, k)
  BY DEF Holds, Tokens
<1>1. CASE e = d
  BY <1>1 DEF TokensStay
<1>2. CASE e # d
  BY <1>2, FrameGood
<1> QED
  BY <1>1, <1>2

\* A step of one dialog leaves a good state if the dialog is good again.
LEMMA ModalStep ==
    ASSUME NEW s \in GoodScreens, NEW t, NEW m \in Modals, OnlyAt(s, t, m),
           ModalGood(t, m), Held(t, Holds(t)),
           t.modalOpen => \/ m \in t.shown
                          \/ \E place \in Places : t.queue[m][place] # <<>>
    PROVE  t \in GoodScreens
<1>1. m \in DialogSet /\ m \notin Offcanvases
  BY DialogsAssumption DEF DialogSet
<1>2. /\ t \in ScreenStates /\ IsFiniteSet(t.aria)
      /\ \A n \in Modals : n # m => ModalGood(t, n)
      /\ \A o \in Offcanvases : o # m => PanelGood(t, o)
  BY <1>1, FrameGood
<1> QED
  BY <1>1, <1>2 DEF GoodScreens

LEMMA PanelStep ==
    ASSUME NEW s \in GoodScreens, NEW t, NEW o \in Offcanvases,
           OnlyAt(s, t, o), PanelGood(t, o), Held(t, Holds(t)),
           t.modalOpen = s.modalOpen
    PROVE  t \in GoodScreens
<1>1. o \in DialogSet /\ o \notin Modals
  BY DialogsAssumption DEF DialogSet
<1>2. /\ t \in ScreenStates /\ IsFiniteSet(t.aria)
      /\ \A m \in Modals : m # o => ModalGood(t, m)
      /\ \A n \in Offcanvases : n # o => PanelGood(t, n)
  BY <1>1, FrameGood
<1>3. ASSUME t.modalOpen
      PROVE  \E m \in Modals : \/ m \in t.shown
                \/ \E place \in Places : t.queue[m][place] # <<>>
  <2>1. PICK m \in Modals : \/ m \in s.shown
                \/ \E place \in Places : s.queue[m][place] # <<>>
    BY <1>3 DEF GoodScreens
  <2>2. SameDialog(s, t, m)
    BY <1>1 DEF OnlyAt, DialogSet
  <2> QED
    BY <2>1, <2>2 DEF SameDialog
<1> QED
  BY <1>1, <1>2, <1>3 DEF GoodScreens

\* The tokens of a modal
LEMMA ModalHolding ==
    ASSUME NEW s, NEW m \in Modals, NEW e, NEW i, NEW b, Waits(s, m, e, i, b)
    PROVE  /\ \A k : Holding(s, m, "shown", k) <=> k = 0 /\ m \in s.shown
           /\ \A k : Holding(s, m, "element", k) <=>
                        k \in 1 .. Len(e) /\ e[k] = "hidden"
           /\ \A k : Holding(s, m, "backdrop", k) <=>
                        k \in 1 .. Len(b) /\ b[k] = "hidden"
<1>1. m \notin Scrolling /\ m \notin Offcanvases
  BY DialogsAssumption
<1> QED
  BY <1>1 DEF Holding, Waits

LEMMA AppendToOne ==
    ASSUME NEW x, NEW y
    PROVE  Append(<<x>>, y) = <<x, y>>
<1> DEFINE S == {x, y}
<1>1. /\ <<x>> \in Seq(S) /\ Len(<<x>>) = 1 /\ <<x>>[1] = x
      /\ <<x, y>> \in Seq(S) /\ Len(<<x, y>>) = 2
      /\ <<x, y>>[1] = x /\ <<x, y>>[2] = y /\ y \in S
  OBVIOUS
<1> HIDE DEF S
<1>2. ASSUME NEW q \in Seq(S), Len(q) = 1, q[1] = x,
             NEW r \in Seq(S), Len(r) = 2, r[1] = x, r[2] = y
      PROVE  Append(q, y) = r
  <2>1. Append(q, y) \in Seq(S) /\ Len(Append(q, y)) = Len(q) + 1
    BY <1>1, AppendProperties
  <2>2. Append(q, y)[Len(q) + 1] = y
    BY <1>1, AppendProperties
  <2>3. 1 \in 1 .. Len(q)
    BY <1>2
  <2>4. Append(q, y)[1] = q[1]
    BY <1>1, <2>3, AppendProperties
  <2>5. Append(q, y)[2] = y /\ \A i \in 1 .. Len(r) : i = 1 \/ i = 2
    BY <1>2, <2>2
  <2> QED
    BY <1>2, <2>1, <2>4, <2>5, SeqEqual
<1> QED
  BY <1>1, <1>2

LEMMA ShortSequences ==
    /\ \A x : Append(<<>>, x) = <<x>>
    /\ \A x, k : k \in 1 .. Len(<<x>>) <=> k = 1
    /\ \A x, y, k : k \in 1 .. Len(<<x, y>>) <=> k \in {1, 2}
    /\ \A k : k \notin 1 .. Len(<<>>)
    /\ \A x : <<x>> # <<>>
    /\ \A x, y : <<x, y>> # <<>>
<1>1. \A x : Append(<<>>, x) = <<x>>
  OBVIOUS
<1>2. \A x, k : k \in 1 .. Len(<<x>>) <=> k = 1
  OBVIOUS
<1>3. \A x, y, k : k \in 1 .. Len(<<x, y>>) <=> k \in {1, 2}
  OBVIOUS
<1>4. \A k : k \notin 1 .. Len(<<>>)
  OBVIOUS
<1>5. \A x : <<x>> # <<>>
  OBVIOUS
<1>6. \A x, y : <<x, y>> # <<>>
  OBVIOUS
<1> QED
  BY <1>1, <1>2, <1>3, <1>4, <1>5, <1>6

LEMMA PairElements ==
    ASSUME NEW x, NEW y, NEW q, q = <<x, y>>
    PROVE  1 \in 1 .. Len(q) /\ q[1] = x /\ q[2] = y
OBVIOUS

LEMMA SingleElement ==
    ASSUME NEW x, NEW q, q = <<x>>
    PROVE  1 \in 1 .. Len(q) /\ q[1] = x
OBVIOUS

LEMMA ModalShowGood ==
    ASSUME NEW s \in GoodScreens, NEW m \in Modals
    PROVE  ModalShow(s, m) \in GoodScreens
<1>1. CASE m \in s.shown \union s.busy
  BY <1>1 DEF ModalShow
<1>2. CASE m \notin s.shown \union s.busy
  <2> DEFINE t == ModalShow(s, m)
             a == <<m, "shown", 0>>
  <2>1. /\ s \in ScreenStates /\ Held(s, Holds(s)) /\ ModalGood(s, m)
        /\ m \in DialogSet
    BY DEF GoodScreens, DialogSet
  <2>2. /\ OnlyAt(s, t, m) /\ m \in t.shown /\ t.modalOpen
        /\ t.overflow /\ (t.saved <=> s.saved \/ s.overflow)
        /\ t.queue[m]["element"] = s.queue[m]["element"]
    BY <1>2, <2>1, ModalShowAt
  <2>3. ModalClosed(s, m) \/ ModalDarkening(s, m)
    BY <1>2, <2>1 DEF ModalGood, ModalClosed, ModalDimming,
         ModalOpening, ModalOpened, ModalClosing, ModalDarkening
  <2> DEFINE Result == /\ ModalGood(t, m)
                       /\ \A p \in {"shown", "element", "backdrop"}, k \in Nat :
                            Holding(s, m, p, k) => Holding(t, m, p, k)
  <2>4. ASSUME m \in Fading \intersect Dimming PROVE Result
    <3>1. /\ m \in t.busy /\ t.lit = s.lit
          /\ t.queue[m]["inner"] = s.queue[m]["inner"]
          /\ t.queue[m]["backdrop"]
                = Append(s.queue[m]["backdrop"], "showElement")
      BY <1>2, <2>1, <2>4, ModalShowAt
    <3> HIDE DEF t
    <3>2. /\ ModalClosed(s, m) => Waits(t, m, <<>>, <<>>, <<"showElement">>)
          /\ ModalDarkening(s, m) =>
                Waits(t, m, <<>>, <<>>, <<"hidden", "showElement">>)
      <4>1. Append(<<"hidden">>, "showElement") = <<"hidden", "showElement">>
        BY AppendToOne
      <4>2. Append(<<>>, "showElement") = <<"showElement">>
        BY ShortSequences
      <4> QED
        BY <2>2, <3>1, <4>1, <4>2 DEF ModalClosed, ModalDarkening, Waits
    <3>3. ModalDimming(t, m)
      BY <2>2, <2>3, <2>4, <3>1, <3>2
         DEF ModalClosed, ModalDarkening, ModalDimming
    <3>4. \A p \in {"shown", "element", "backdrop"}, k \in Nat :
             Holding(s, m, p, k) => Holding(t, m, p, k)
      <4>1. CASE ModalClosed(s, m)
        <5>1. Waits(s, m, <<>>, <<>>, <<>>) /\ m \notin s.shown
          BY <4>1 DEF ModalClosed
        <5> QED
          BY <5>1, ModalHolding, ShortSequences
      <4>2. CASE ModalDarkening(s, m)
        <5>1. Waits(s, m, <<>>, <<>>, <<"hidden">>) /\ m \notin s.shown
          BY <4>2 DEF ModalDarkening
        <5>2. Waits(t, m, <<>>, <<>>, <<"hidden", "showElement">>)
          BY <3>2, <4>2
        <5>3. \A k \in Nat : Holding(s, m, "backdrop", k) => k = 1
          BY <5>1, ModalHolding, ShortSequences
        <5>4. Holding(t, m, "backdrop", 1)
          <6>1. PICK b : b = <<"hidden", "showElement">>
            OBVIOUS
          <6>2. Waits(t, m, <<>>, <<>>, b)
            BY <5>2, <6>1
          <6>3. 1 \in 1 .. Len(b) /\ b[1] = "hidden"
            BY <6>1, PairElements
          <6>4. m \notin Scrolling /\ m \notin Offcanvases
            BY DialogsAssumption
          <6>5. t.queue[m]["backdrop"] = b
            BY <6>2 DEF Waits
          <6> QED
            BY <6>3, <6>4, <6>5 DEF Holding
        <5>5. \A k \in Nat : ~Holding(s, m, "shown", k)
                             /\ ~Holding(s, m, "element", k)
          BY <5>1, ModalHolding, ShortSequences
        <5> QED
          BY <5>3, <5>4, <5>5
      <4> QED
        BY <2>3, <4>1, <4>2
    <3> QED
      BY <3>3, <3>4 DEF ModalGood
  <2>5. ASSUME m \notin Fading \intersect Dimming PROVE Result
    <3>1. ModalClosed(s, m)
      BY <2>3, <2>5 DEF ModalDarkening
    <3>2. ModalOpening(t, m) \/ ModalOpened(t, m)
      <4>1. CASE m \in Fading \ Dimming
        <5>1. /\ m \in t.busy /\ m \in t.lit /\ m \in t.aria
              /\ t.queue[m]["inner"] = Append(s.queue[m]["inner"], "shown")
              /\ t.queue[m]["backdrop"] = s.queue[m]["backdrop"]
          BY <1>2, <2>1, <4>1, ModalShowAt
        <5> HIDE DEF t
        <5> QED
          BY <2>2, <3>1, <4>1, <5>1, ShortSequences
             DEF ModalClosed, ModalOpening, Waits
      <4>2. CASE m \notin Fading
        <5>1. /\ m \notin t.busy /\ m \in t.lit /\ m \in t.aria
              /\ m \in t.traps /\ t.queue[m] = s.queue[m]
          BY <1>2, <2>1, <4>2, ModalShowAt
        <5> HIDE DEF t
        <5> QED
          BY <2>2, <3>1, <4>2, <5>1 DEF ModalClosed, ModalOpened, Waits
      <4> QED
        BY <2>5, <4>1, <4>2
    <3>3. \A p \in {"shown", "element", "backdrop"}, k \in Nat :
             ~Holding(s, m, p, k)
      <4>1. Waits(s, m, <<>>, <<>>, <<>>) /\ m \notin s.shown
        BY <3>1 DEF ModalClosed
      <4> QED
        BY <4>1, ModalHolding, ShortSequences
    <3> HIDE DEF t
    <3> QED
      BY <3>2, <3>3 DEF ModalGood
  <2>6. Result
    <3> HIDE DEF Result
    <3> QED
      BY <2>4, <2>5
  <2> HIDE DEF t
  <2>7. Holds(s) \subseteq Holds(t)
    <3>1. Holds(s) \ {<<m, "none", 0>>} \subseteq Holds(t)
      <4>1. TokensStay(s, t, m, "none", 0)
        BY <2>6 DEF TokensStay
      <4> QED
        BY <2>1, <2>2, <4>1, HoldsAfter
    <3>2. <<m, "none", 0>> \notin Holds(s)
      BY DEF Holds, Tokens
    <3> QED
      BY <3>1, <3>2
  <2>8. a \notin Holds(s) /\ a \in Holds(t)
    <3>1. ~Holding(s, m, "shown", 0) /\ Holding(t, m, "shown", 0)
      BY <1>2, <2>2, DialogsAssumption DEF Holding
    <3> QED
      BY <2>1, <3>1 DEF Holds, Tokens
  <2>9. Held(t, Holds(t))
    <3> HIDE DEF a
    <3> QED
      BY <2>1, <2>2, <2>7, <2>8, HoldAdded
  <2>10. t \in GoodScreens
    BY <2>2, <2>6, <2>9, ModalStep
  <2> QED
    BY <2>10 DEF t
<1> QED
  BY <1>1, <1>2

\* The one callback that waits at an element of a modal, or the first of two.
LEMMA WaitingHolds ==
    ASSUME NEW s, NEW m \in Modals, NEW at \in {"element", "backdrop"},
           s.queue[m][at] = <<"hidden">>
    PROVE  Holding(s, m, at, 1)
<1>1. PICK b : b = <<"hidden">>
  OBVIOUS
<1>2. 1 \in 1 .. Len(b) /\ b[1] = "hidden"
  BY <1>1
<1>3. m \notin Scrolling /\ m \notin Offcanvases /\ s.queue[m][at] = b
  BY <1>1, DialogsAssumption
<1> QED
  BY <1>2, <1>3 DEF Holding

LEMMA TokenOf ==
    ASSUME NEW s, NEW d \in DialogSet,
           NEW at \in {"shown", "element", "backdrop"}, NEW i \in Nat
    PROVE  <<d, at, i>> \in Holds(s) <=> Holding(s, d, at, i)
BY DEF Holds, Tokens

LEMMA ModalHideGood ==
    ASSUME NEW s \in GoodScreens, NEW m \in Modals
    PROVE  ModalHide(s, m) \in GoodScreens
<1>1. CASE m \notin s.shown \/ m \in s.busy
  BY <1>1 DEF ModalHide
<1>2. CASE m \in s.shown /\ m \notin s.busy
  <2> DEFINE t == ModalHide(s, m)
  <2>1. /\ s \in ScreenStates /\ Held(s, Holds(s)) /\ ModalGood(s, m)
        /\ m \in DialogSet
    BY DEF GoodScreens, DialogSet
  <2>2. /\ OnlyAt(s, t, m)
        /\ m \notin t.shown /\ m \notin t.lit /\ m \notin t.traps
        /\ t.queue[m]["inner"] = s.queue[m]["inner"]
        /\ t.queue[m]["backdrop"] = s.queue[m]["backdrop"]
        /\ IF m \in Fading
           THEN /\ SameBody(s, t) /\ m \in t.busy
                /\ t.queue[m]["element"]
                      = Append(s.queue[m]["element"], "hidden")
           ELSE /\ m \notin t.busy /\ m \notin t.aria
                /\ m \notin t.drops /\ t.queue[m] = s.queue[m]
                /\ ~t.saved /\ (t.overflow <=> s.saved /\ s.overflow)
                /\ ~t.modalOpen
    BY <1>2, <2>1, ModalHideAt
  <2> HIDE DEF t
  <2>3. ModalOpened(s, m)
    BY <1>2, <2>1 DEF ModalGood, ModalClosed, ModalDimming,
         ModalOpening, ModalOpened, ModalClosing, ModalDarkening
  <2>4. Waits(s, m, <<>>, <<>>, <<>>)
    BY <2>3 DEF ModalOpened
  <2>5. \A k \in Nat : /\ Holding(s, m, "shown", k) => k = 0
                       /\ ~Holding(s, m, "element", k)
                       /\ ~Holding(s, m, "backdrop", k)
    BY <2>4, ModalHolding, ShortSequences
  <2>6. Holds(s) \ {<<m, "shown", 0>>} \subseteq Holds(t)
    <3>1. TokensStay(s, t, m, "shown", 0)
      BY <2>5 DEF TokensStay
    <3> QED
      BY <2>1, <2>2, <3>1, HoldsAfter
  <2>7. CASE m \in Fading
    <3>1. /\ Waits(t, m, <<"hidden">>, <<>>, <<>>)
          /\ t.queue[m]["element"] = <<"hidden">>
      BY <2>2, <2>4, <2>7, ShortSequences DEF Waits
    <3>2. ModalClosing(t, m)
      BY <2>2, <2>7, <3>1 DEF ModalClosing
    <3>3. Holding(t, m, "element", 1) /\ ~Holding(s, m, "element", 1)
      <4>1. Holding(t, m, "element", 1)
        BY <3>1, WaitingHolds
      <4>2. 1 \in Nat
        OBVIOUS
      <4> QED
        BY <2>5, <4>1, <4>2
    <3>4. /\ <<m, "element", 1>> \in Holds(t)
          /\ <<m, "element", 1>> \notin Holds(s)
      BY <2>1, <3>3, TokenOf
    <3>5. Held(t, Holds(t))
      BY <2>1, <2>2, <2>6, <2>7, <3>4, HoldMoved
    <3>6. \E place \in Places : t.queue[m][place] # <<>>
      BY <3>1, ShortSequences DEF Places
    <3>7. t \in GoodScreens
      BY <2>2, <3>2, <3>5, <3>6, ModalStep DEF ModalGood
    <3> QED
      BY <3>7 DEF t
  <2>8. CASE m \notin Fading
    <3>1. ModalClosed(t, m)
      BY <2>2, <2>4, <2>8 DEF ModalClosed, Waits
    <3>2. Held(t, Holds(t))
      BY <2>1, <2>2, <2>6, <2>8, HoldBack
    <3>3. t \in GoodScreens
      BY <2>2, <2>8, <3>1, <3>2, ModalStep DEF ModalGood
    <3> QED
      BY <3>3 DEF t
  <2> QED
    BY <2>7, <2>8
<1> QED
  BY <1>1, <1>2

-----------------------------------------------------------------------------
(* The end of a transition                                                 *)

\* The callbacks of q, one after the other, from s.
Ran(s, d, place, q) ==
    FoldLeft(LAMBDA x, callback : Callback(x, d, place, callback), s, q)

Runs(f, s, d, place, q) ==
    /\ f \in [0 .. Len(q) -> ScreenStates]
    /\ f[0] = s /\ f[Len(q)] = Ran(s, d, place, q)
    /\ \A k \in Indices(Len(q)) : f[k] = Callback(f[k - 1], d, place, q[k])

LEMMA CallbacksRun ==
    ASSUME NEW s \in ScreenStates, NEW d, NEW place, NEW q \in Seq(Callbacks),
           \A x \in ScreenStates : \A i \in Indices(Len(q)) :
               Callback(x, d, place, q[i]) \in ScreenStates
    PROVE  \E f : Runs(f, s, d, place, q)
<1> DEFINE n == Len(q)
           step == [i \in Indices(n) |->
                      [x \in ScreenStates |-> Callback(x, d, place, q[i])]]
           iter[t \in SUBSET Indices(n)] ==
               IF t = {} THEN s
               ELSE Callback(iter[t \ {Max(t)}], d, place, q[Max(t)])
           f == [k \in 0 .. n |-> iter[Indices(k)]]
<1>1. n \in Nat /\ DOMAIN q = Indices(n)
  BY IndicesOfSeq
<1>2. step \in [Indices(n) -> [ScreenStates -> ScreenStates]]
  OBVIOUS
<1>3. PICK it : IsFoldLeft(it, n, ScreenStates, s, step)
  <2> HIDE DEF n, step
  <2> QED
    BY <1>1, <1>2, FoldLeftExists
<1>4. it = [t \in SUBSET Indices(n) |->
              IF t = {} THEN s
              ELSE Callback(it[t \ {Max(t)}], d, place, q[Max(t)])]
  BY <1>1, <1>3, MaxOfIndices DEF IsFoldLeft
<1>5. iter = [t \in SUBSET Indices(n) |->
                IF t = {} THEN s
                ELSE Callback(iter[t \ {Max(t)}], d, place, q[Max(t)])]
  BY <1>4
<1>6. Ran(s, d, place, q) = iter[Indices(n)]
  BY <1>1 DEF Ran, FoldLeft, MapThenFoldSet
<1>7. \A t \in SUBSET Indices(n) : iter[t] =
         IF t = {} THEN s
         ELSE Callback(iter[t \ {Max(t)}], d, place, q[Max(t)])
  <2> HIDE DEF iter, n
  <2> QED
    BY <1>5
<1> HIDE DEF iter, step
<1>8. ASSUME NEW t \in SUBSET Indices(n), t # {},
             iter[t \ {Max(t)}] \in ScreenStates
      PROVE  iter[t] \in ScreenStates
  <2>1. /\ iter[t] = Callback(iter[t \ {Max(t)}], d, place, q[Max(t)])
        /\ Max(t) \in Indices(n)
    BY <1>1, <1>7, <1>8, MaxOfIndices
  <2> QED
    BY <1>8, <2>1
<1>9. iter[{}] = s
  BY <1>7
<1>10. \A k \in 0 .. n : iter[Indices(k)] \in ScreenStates
  <2> HIDE DEF n
  <2> QED
    BY <1>1, <1>8, <1>9, FoldLeftStays
<1>11. f \in [0 .. n -> ScreenStates]
  BY <1>10
<1>12. f[0] = s /\ f[n] = Ran(s, d, place, q)
  <2>1. Indices(0) = {} /\ 0 \in 0 .. n /\ n \in 0 .. n
    BY <1>1, IndicesUpTo
  <2> HIDE DEF n
  <2> QED
    BY <1>6, <1>9, <2>1
<1>13. ASSUME NEW k \in Indices(n)
       PROVE  f[k] = Callback(f[k - 1], d, place, q[k])
  <2>1. f[k] = iter[Indices(k)] /\ f[k - 1] = iter[Indices(k - 1)]
    BY <1>1 DEF Indices
  <2>2. iter[Indices(k)] = Callback(iter[Indices(k - 1)], d, place, q[k])
    <3> HIDE DEF n, f
    <3> QED
      BY <1>1, <1>7, IndicesUpTo
  <2> QED
    BY <2>1, <2>2
<1> HIDE DEF f
<1> QED
  BY <1>11, <1>12, <1>13 DEF Runs

LEMMA RanOnce ==
    ASSUME NEW s \in ScreenStates, NEW d, NEW place, NEW c \in Callbacks,
           \A x \in ScreenStates : Callback(x, d, place, c) \in ScreenStates
    PROVE  Ran(s, d, place, <<c>>) = Callback(s, d, place, c)
<1>1. /\ <<c>> \in Seq(Callbacks) /\ Len(<<c>>) = 1
      /\ \A i \in Indices(1) : i = 1 /\ <<c>>[i] = c
      /\ 1 \in Indices(1)
  BY DEF Indices
<1>2. PICK q : /\ q = <<c>> /\ q \in Seq(Callbacks) /\ Len(q) = 1
               /\ q[1] = c
  BY <1>1
<1>3. PICK f : Runs(f, s, d, place, q)
  BY <1>1, <1>2, CallbacksRun
<1>4. /\ f[0] = s /\ f[1] = Ran(s, d, place, q)
      /\ f[1] = Callback(f[0], d, place, c)
  BY <1>1, <1>2, <1>3 DEF Runs
<1> QED
  BY <1>2, <1>4

LEMMA RanTwice ==
    ASSUME NEW s \in ScreenStates, NEW d, NEW place, NEW c1 \in Callbacks,
           NEW c2 \in Callbacks,
           \A x \in ScreenStates : /\ Callback(x, d, place, c1) \in ScreenStates
                                   /\ Callback(x, d, place, c2) \in ScreenStates
    PROVE  Ran(s, d, place, <<c1, c2>>)
               = Callback(Callback(s, d, place, c1), d, place, c2)
<1>1. /\ <<c1, c2>> \in Seq(Callbacks) /\ Len(<<c1, c2>>) = 2
      /\ \A i \in Indices(2) : i \in {1, 2}
      /\ 1 \in Indices(2) /\ 2 \in Indices(2)
  BY DEF Indices
<1>2. PICK q : q = <<c1, c2>>
  OBVIOUS
<1>5. /\ q \in Seq(Callbacks) /\ Len(q) = 2 /\ q[1] = c1 /\ q[2] = c2
  BY <1>1, <1>2, PairElements
<1>3. PICK f : Runs(f, s, d, place, q)
  BY <1>1, <1>5, CallbacksRun
<1>4. /\ f[0] = s /\ f[2] = Ran(s, d, place, q)
      /\ f[1] = Callback(f[0], d, place, c1)
      /\ f[2] = Callback(f[1], d, place, c2)
  BY <1>1, <1>5, <1>3 DEF Runs
<1> QED
  BY <1>2, <1>4

\* The state in which the callbacks start.
LEMMA EmptiedAt ==
    ASSUME NEW s \in ScreenStates, NEW d \in DialogSet, NEW place \in Places
    PROVE  LET t == [s EXCEPT !.queue[d][place] = <<>>]
           IN  /\ t \in ScreenStates /\ SameBody(s, t) /\ OnlyAt(s, t, d)
               /\ Fields(t, s.shown, s.busy, s.lit, s.aria, s.drops, s.traps,
                         t.queue)
               /\ \A p \in Places : t.queue[d][p] =
                     IF p = place THEN <<>> ELSE s.queue[d][p]
<1> DEFINE t == [s EXCEPT !.queue[d][place] = <<>>]
           queue == [s.queue EXCEPT ![d][place] = <<>>]
<1>1. /\ t.shown = s.shown /\ t.busy = s.busy /\ t.lit = s.lit
      /\ t.aria = s.aria /\ t.drops = s.drops /\ t.traps = s.traps
      /\ t.overflow = s.overflow
      /\ t.saved = s.saved /\ t.modalOpen = s.modalOpen /\ t.queue = queue
  BY DEF ScreenStates
<1>2. s.queue \in [DialogSet -> [Places -> Seq(Callbacks)]]
  BY DEF ScreenStates
<1>3. /\ queue \in [DialogSet -> [Places -> Seq(Callbacks)]]
      /\ \A e \in DialogSet : e # d => queue[e] = s.queue[e]
      /\ \A p \in Places : queue[d][p] =
             IF p = place THEN <<>> ELSE s.queue[d][p]
  BY <1>2, EmptySeq
<1>4. t \in ScreenStates
  <2>1. t = [s EXCEPT !.queue = queue]
    BY DEF ScreenStates
  <2> HIDE DEF t, queue
  <2> QED
    BY <1>3, <2>1 DEF ScreenStates
<1> HIDE DEF t, queue
<1>5. OnlyAt(s, t, d)
  BY <1>1, <1>3, <1>4, FieldsAtOne
<1> QED
  BY <1>1, <1>3, <1>4, <1>5 DEF SameBody, Fields, t

\* Ended(s, d, place) is what TransitionEnd makes of s.
Ended(s, d, place) ==
    Ran([s EXCEPT !.queue[d][place] = <<>>], d, place, s.queue[d][place])

\* Callbacks of a modal
LEMMA ModalCallbacks ==
    ASSUME NEW x \in ScreenStates, NEW m \in Modals
    PROVE  /\ Callback(x, m, "inner", "shown") = ModalShown(x, m)
           /\ Callback(x, m, "element", "hidden") = HideModal(x, m)
           /\ Callback(x, m, "backdrop", "hidden") = BackdropHidden(x, m)
           /\ Callback(x, m, "backdrop", "showElement") = ShowElement(x, m)
           /\ Callback(x, m, "inner", "shown") \in ScreenStates
           /\ Callback(x, m, "element", "hidden") \in ScreenStates
           /\ Callback(x, m, "backdrop", "hidden") \in ScreenStates
           /\ Callback(x, m, "backdrop", "showElement") \in ScreenStates
<1>1. m \notin Offcanvases
  BY DialogsAssumption
<1>2. /\ Callback(x, m, "inner", "shown") = ModalShown(x, m)
      /\ Callback(x, m, "element", "hidden") = HideModal(x, m)
      /\ Callback(x, m, "backdrop", "hidden") = BackdropHidden(x, m)
      /\ Callback(x, m, "backdrop", "showElement") = ShowElement(x, m)
  BY <1>1 DEF Callback
<1>3. /\ ModalShown(x, m) \in ScreenStates
      /\ HideModal(x, m) \in ScreenStates
      /\ BackdropHidden(x, m) \in ScreenStates
      /\ ShowElement(x, m) \in ScreenStates
  BY ModalShownAt, HideModalAt, BackdropHiddenAt, ShowElementAt DEF OnlyAt
<1> QED
  BY <1>2, <1>3

LEMMA ModalOpeningEnds ==
    ASSUME NEW s \in GoodScreens, NEW m \in Modals, ModalOpening(s, m)
    PROVE  Ended(s, m, "inner") \in GoodScreens
<1> DEFINE u == [s EXCEPT !.queue[m]["inner"] = <<>>]
           t == Ended(s, m, "inner")
<1>1. /\ s \in ScreenStates /\ Held(s, Holds(s)) /\ m \in DialogSet
      /\ "inner" \in Places /\ "shown" \in Callbacks
      /\ Waits(s, m, <<>>, <<"shown">>, <<>>)
  BY DEF GoodScreens, DialogSet, Places, Callbacks, ModalOpening
<1>2. /\ u \in ScreenStates /\ SameBody(s, u) /\ OnlyAt(s, u, m)
      /\ Fields(u, s.shown, s.busy, s.lit, s.aria, s.drops, s.traps, u.queue)
      /\ \A p \in Places : u.queue[m][p] =
            IF p = "inner" THEN <<>> ELSE s.queue[m][p]
  BY <1>1, EmptiedAt
<1>3. t = ModalShown(u, m)
  <2>1. t = Ran(u, m, "inner", <<"shown">>)
    BY <1>1 DEF Ended, Waits
  <2> HIDE DEF u, t
  <2>2. \A x \in ScreenStates :
           Callback(x, m, "inner", "shown") \in ScreenStates
    BY ModalCallbacks
  <2> QED
    BY <1>1, <1>2, <2>1, <2>2, RanOnce, ModalCallbacks
<1> HIDE DEF u, t
<1>4. /\ t \in ScreenStates /\ SameBody(u, t)
      /\ Fields(t, u.shown, u.busy \ {m}, u.lit, u.aria, u.drops,
                u.traps \union {m}, u.queue)
  BY <1>2, <1>3, ModalShownAt
<1>5. OnlyAt(s, t, m)
  <2>1. OnlyAt(u, t, m)
    BY <1>1, <1>2, <1>4, FieldsAtOne DEF Fields
  <2> QED
    BY <1>2, <2>1, OnlyAtTrans
<1>6. Waits(t, m, <<>>, <<>>, <<>>) /\ SameBody(s, t) /\ t.shown = s.shown
  BY <1>1, <1>2, <1>4 DEF Waits, Fields, SameBody, Places
<1>7. ModalOpened(t, m)
  BY <1>2, <1>4, <1>6 DEF ModalOpening, ModalOpened, Fields
<1>8. Held(t, Holds(t))
  <2>1. TokensStay(s, t, m, "none", 0)
    BY <1>1, <1>6, ModalHolding, ShortSequences DEF TokensStay
  <2>2. Holds(s) \ {<<m, "none", 0>>} \subseteq Holds(t)
    BY <1>1, <1>5, <2>1, HoldsAfter
  <2>3. Holds(s) \subseteq Holds(t)
    BY <2>2 DEF Holds, Tokens
  <2> QED
    BY <1>1, <1>6, <2>3, HoldKept
<1>9. t \in GoodScreens
  BY <1>5, <1>6, <1>7, <1>8, ModalStep DEF ModalGood, ModalOpened
<1> QED
  BY <1>9 DEF t

LEMMA ModalClosingEnds ==
    ASSUME NEW s \in GoodScreens, NEW m \in Modals, ModalClosing(s, m)
    PROVE  Ended(s, m, "element") \in GoodScreens
<1> DEFINE u == [s EXCEPT !.queue[m]["element"] = <<>>]
           t == Ended(s, m, "element")
<1>1. /\ s \in ScreenStates /\ Held(s, Holds(s)) /\ m \in DialogSet
      /\ "element" \in Places /\ "hidden" \in Callbacks
      /\ Waits(s, m, <<"hidden">>, <<>>, <<>>)
  BY DEF GoodScreens, DialogSet, Places, Callbacks, ModalClosing
<1>2. /\ u \in ScreenStates /\ SameBody(s, u) /\ OnlyAt(s, u, m)
      /\ Fields(u, s.shown, s.busy, s.lit, s.aria, s.drops, s.traps, u.queue)
      /\ \A p \in Places : u.queue[m][p] =
            IF p = "element" THEN <<>> ELSE s.queue[m][p]
  BY <1>1, EmptiedAt
<1>3. t = HideModal(u, m)
  <2>1. t = Ran(u, m, "element", <<"hidden">>)
    BY <1>1 DEF Ended, Waits
  <2> HIDE DEF u, t
  <2>2. \A x \in ScreenStates :
           Callback(x, m, "element", "hidden") \in ScreenStates
    BY ModalCallbacks
  <2> QED
    BY <1>1, <1>2, <2>1, <2>2, RanOnce, ModalCallbacks
<1> HIDE DEF u, t
<1>4. /\ OnlyAt(u, t, m) /\ t.shown = u.shown /\ t.lit = u.lit
      /\ t.traps = u.traps /\ m \notin t.aria /\ m \notin t.busy
      /\ t.queue[m]["inner"] = u.queue[m]["inner"]
      /\ t.queue[m]["element"] = u.queue[m]["element"]
      /\ IF m \in Fading \intersect Dimming
         THEN /\ SameBody(u, t)
              /\ t.queue[m]["backdrop"]
                    = Append(u.queue[m]["backdrop"], "hidden")
         ELSE /\ m \notin t.drops /\ t.queue = u.queue
              /\ ~t.saved /\ (t.overflow <=> u.saved /\ u.overflow)
              /\ ~t.modalOpen
  BY <1>2, <1>3, HideModalAt
<1>5. OnlyAt(s, t, m) /\ Waits(u, m, <<>>, <<>>, <<>>)
  BY <1>1, <1>2, <1>4, OnlyAtTrans DEF Waits, Places
<1>6. m \notin t.shown /\ m \notin t.lit /\ m \notin t.traps
  BY <1>2, <1>4 DEF ModalClosing, Fields
<1>7. \A k \in Nat : /\ ~Holding(s, m, "shown", k)
                     /\ Holding(s, m, "element", k) => k = 1
                     /\ ~Holding(s, m, "backdrop", k)
  BY <1>1, ModalHolding, ShortSequences DEF ModalClosing
<1>8. Holds(s) \ {<<m, "element", 1>>} \subseteq Holds(t)
  <2>1. TokensStay(s, t, m, "element", 1)
    BY <1>7 DEF TokensStay
  <2> QED
    BY <1>1, <1>5, <2>1, HoldsAfter
<1>9. CASE m \in Fading \intersect Dimming
  <2>1. /\ Waits(t, m, <<>>, <<>>, <<"hidden">>)
        /\ t.queue[m]["backdrop"] = <<"hidden">>
    BY <1>4, <1>5, <1>9, ShortSequences DEF Waits
  <2>2. ModalDarkening(t, m)
    BY <1>4, <1>6, <1>9, <2>1 DEF ModalDarkening
  <2>3. Holding(t, m, "backdrop", 1)
    BY <2>1, WaitingHolds
  <2>4. /\ <<m, "backdrop", 1>> \in Holds(t)
        /\ <<m, "backdrop", 1>> \notin Holds(s)
    BY <1>1, <1>7, <2>3, TokenOf
  <2>5. SameBody(s, t)
    BY <1>2, <1>4, <1>9 DEF SameBody
  <2>6. Held(t, Holds(t))
    BY <1>1, <1>8, <2>4, <2>5, HoldMoved
  <2>7. \E place \in Places : t.queue[m][place] # <<>>
    BY <2>1, ShortSequences DEF Places
  <2>8. t \in GoodScreens
    BY <1>5, <2>2, <2>6, <2>7, ModalStep DEF ModalGood
  <2> QED
    BY <2>8 DEF t
<1>10. CASE m \notin Fading \intersect Dimming
  <2>1. ModalClosed(t, m)
    BY <1>4, <1>5, <1>6, <1>10 DEF ModalClosed, Waits
  <2>2. ~t.saved /\ (t.overflow <=> s.saved /\ s.overflow) /\ ~t.modalOpen
    BY <1>2, <1>4, <1>10 DEF SameBody
  <2>3. Held(t, Holds(t))
    BY <1>1, <1>8, <2>2, HoldBack
  <2>4. t \in GoodScreens
    BY <1>5, <2>1, <2>2, <2>3, ModalStep DEF ModalGood
  <2> QED
    BY <2>4 DEF t
<1> QED
  BY <1>9, <1>10

LEMMA ModalDarkeningEnds ==
    ASSUME NEW s \in GoodScreens, NEW m \in Modals, ModalDarkening(s, m)
    PROVE  Ended(s, m, "backdrop") \in GoodScreens
<1> DEFINE u == [s EXCEPT !.queue[m]["backdrop"] = <<>>]
           t == Ended(s, m, "backdrop")
<1>1. /\ s \in ScreenStates /\ Held(s, Holds(s)) /\ m \in DialogSet
      /\ "backdrop" \in Places /\ "hidden" \in Callbacks
      /\ Waits(s, m, <<>>, <<>>, <<"hidden">>)
  BY DEF GoodScreens, DialogSet, Places, Callbacks, ModalDarkening
<1>2. /\ u \in ScreenStates /\ SameBody(s, u) /\ OnlyAt(s, u, m)
      /\ Fields(u, s.shown, s.busy, s.lit, s.aria, s.drops, s.traps, u.queue)
      /\ \A p \in Places : u.queue[m][p] =
            IF p = "backdrop" THEN <<>> ELSE s.queue[m][p]
  BY <1>1, EmptiedAt
<1>3. t = BackdropHidden(u, m)
  <2>1. t = Ran(u, m, "backdrop", <<"hidden">>)
    BY <1>1 DEF Ended, Waits
  <2> HIDE DEF u, t
  <2>2. \A x \in ScreenStates :
           Callback(x, m, "backdrop", "hidden") \in ScreenStates
    BY ModalCallbacks
  <2> QED
    BY <1>1, <1>2, <2>1, <2>2, RanOnce, ModalCallbacks
<1> HIDE DEF u, t
<1>4. /\ OnlyAt(u, t, m)
      /\ Fields(t, u.shown, u.busy, u.lit, u.aria, u.drops \ {m}, u.traps,
                u.queue)
      /\ ~t.saved /\ (t.overflow <=> u.saved /\ u.overflow) /\ ~t.modalOpen
  BY <1>2, <1>3, BackdropHiddenAt
<1>5. OnlyAt(s, t, m) /\ Waits(t, m, <<>>, <<>>, <<>>)
  BY <1>1, <1>2, <1>4, OnlyAtTrans DEF Waits, Fields, Places
<1>6. ModalClosed(t, m)
  BY <1>2, <1>4, <1>5 DEF ModalDarkening, ModalClosed, Fields
<1>7. \A k \in Nat : /\ ~Holding(s, m, "shown", k)
                     /\ ~Holding(s, m, "element", k)
                     /\ Holding(s, m, "backdrop", k) => k = 1
  BY <1>1, ModalHolding, ShortSequences DEF ModalDarkening
<1>8. Holds(s) \ {<<m, "backdrop", 1>>} \subseteq Holds(t)
  <2>1. TokensStay(s, t, m, "backdrop", 1)
    BY <1>7 DEF TokensStay
  <2> QED
    BY <1>1, <1>5, <2>1, HoldsAfter
<1>9. ~t.saved /\ (t.overflow <=> s.saved /\ s.overflow) /\ ~t.modalOpen
  BY <1>2, <1>4 DEF SameBody
<1>10. Held(t, Holds(t))
  BY <1>1, <1>8, <1>9, HoldBack
<1>11. t \in GoodScreens
  BY <1>5, <1>6, <1>9, <1>10, ModalStep DEF ModalGood
<1> QED
  BY <1>11 DEF t

LEMMA ModalDimmingEnds ==
    ASSUME NEW s \in GoodScreens, NEW m \in Modals, ModalDimming(s, m)
    PROVE  Ended(s, m, "backdrop") \in GoodScreens
<1> DEFINE u == [s EXCEPT !.queue[m]["backdrop"] = <<>>]
           t == Ended(s, m, "backdrop")
           again == Waits(s, m, <<>>, <<>>, <<"hidden", "showElement">>)
           v == IF again THEN BackdropHidden(u, m) ELSE u
<1>1. /\ s \in ScreenStates /\ Held(s, Holds(s)) /\ m \in DialogSet
      /\ "backdrop" \in Places /\ "hidden" \in Callbacks
      /\ "showElement" \in Callbacks
      /\ again \/ Waits(s, m, <<>>, <<>>, <<"showElement">>)
  BY DEF GoodScreens, DialogSet, Places, Callbacks, ModalDimming
<1>2. /\ u \in ScreenStates /\ SameBody(s, u) /\ OnlyAt(s, u, m)
      /\ Fields(u, s.shown, s.busy, s.lit, s.aria, s.drops, s.traps, u.queue)
      /\ \A p \in Places : u.queue[m][p] =
            IF p = "backdrop" THEN <<>> ELSE s.queue[m][p]
  BY <1>1, EmptiedAt
<1>3. t = ShowElement(v, m)
  <2>1. \A x \in ScreenStates :
           /\ Callback(x, m, "backdrop", "hidden") \in ScreenStates
           /\ Callback(x, m, "backdrop", "showElement") \in ScreenStates
    BY ModalCallbacks
  <2>2. CASE again
    <3>1. t = Ran(u, m, "backdrop", <<"hidden", "showElement">>)
      BY <2>2 DEF Ended, Waits
    <3>2. v = BackdropHidden(u, m)
      BY <2>2
    <3> HIDE DEF u, t, v
    <3>3. t = Callback(Callback(u, m, "backdrop", "hidden"), m, "backdrop",
                       "showElement")
      BY <1>1, <1>2, <2>1, <3>1, RanTwice
    <3> QED
      BY <1>2, <3>2, <3>3, ModalCallbacks
  <2>3. CASE ~again
    <3>1. t = Ran(u, m, "backdrop", <<"showElement">>)
      BY <1>1, <2>3 DEF Ended, Waits
    <3>2. v = u
      BY <2>3
    <3> HIDE DEF u, t, v, again
    <3>3. t = Callback(u, m, "backdrop", "showElement")
      BY <1>1, <1>2, <2>1, <3>1, RanOnce
    <3> QED
      BY <1>2, <3>2, <3>3, ModalCallbacks
  <2> QED
    BY <2>2, <2>3
<1>4. /\ v \in ScreenStates /\ OnlyAt(s, v, m) /\ v.queue = u.queue
      /\ v.shown = s.shown /\ v.busy = s.busy
      /\ IF again THEN /\ ~v.saved /\ (v.overflow <=> s.saved /\ s.overflow)
                       /\ ~v.modalOpen
         ELSE SameBody(s, v)
  <2>1. CASE again
    <3>1. v = BackdropHidden(u, m)
      BY <2>1
    <3> HIDE DEF u, v
    <3>2. /\ OnlyAt(u, v, m)
          /\ Fields(v, u.shown, u.busy, u.lit, u.aria, u.drops \ {m}, u.traps,
                    u.queue)
          /\ ~v.saved /\ (v.overflow <=> u.saved /\ u.overflow)
          /\ ~v.modalOpen
      BY <1>2, <3>1, BackdropHiddenAt
    <3>3. OnlyAt(s, v, m)
      BY <1>2, <3>2, OnlyAtTrans
    <3> HIDE DEF again
    <3> QED
      BY <1>2, <2>1, <3>2, <3>3 DEF Fields, SameBody, OnlyAt
  <2>2. CASE ~again
    <3>1. v = u
      BY <2>2
    <3> HIDE DEF u, v, again
    <3> QED
      BY <1>2, <2>2, <3>1 DEF Fields
  <2> QED
    BY <2>1, <2>2
<1> HIDE DEF u, t, v
<1>5. m \in Fading
  BY DEF ModalDimming
<1>6. /\ OnlyAt(v, t, m) /\ SameBody(v, t) /\ t.shown = v.shown
      /\ m \in t.lit /\ m \in t.aria /\ (m \in t.busy <=> m \in v.busy)
      /\ t.queue[m]["inner"] = Append(v.queue[m]["inner"], "shown")
      /\ t.queue[m]["element"] = v.queue[m]["element"]
      /\ t.queue[m]["backdrop"] = v.queue[m]["backdrop"]
  BY <1>3, <1>4, <1>5, ShowElementAt
<1>7. /\ OnlyAt(s, t, m) /\ Waits(t, m, <<>>, <<"shown">>, <<>>)
      /\ m \in t.shown /\ m \in t.busy
  <2>1. Waits(u, m, <<>>, <<>>, <<>>)
    BY <1>1, <1>2 DEF Waits, Places
  <2> HIDE DEF again
  <2>2. Waits(t, m, <<>>, <<"shown">>, <<>>)
    BY <1>4, <1>6, <2>1, ShortSequences DEF Waits
  <2> QED
    BY <1>4, <1>6, <2>2, OnlyAtTrans DEF ModalDimming
<1>8. ModalOpening(t, m)
  BY <1>5, <1>6, <1>7 DEF ModalOpening
<1>9. \A k \in Nat : /\ Holding(s, m, "shown", k) => Holding(t, m, "shown", k)
                     /\ ~Holding(s, m, "element", k)
                     /\ Holding(s, m, "backdrop", k) => k = 1 /\ again
  <2>1. \A k \in Nat :
           Holding(s, m, "shown", k) => Holding(t, m, "shown", k)
    BY <1>7 DEF Holding
  <2>2. CASE again
    <3>1. \A k \in Nat : ~Holding(s, m, "element", k)
      BY <2>2, ModalHolding, ShortSequences
    <3>2. ASSUME NEW k \in Nat, Holding(s, m, "backdrop", k) PROVE k = 1
      <4>1. PICK b : b = <<"hidden", "showElement">>
        OBVIOUS
      <4>2. Waits(s, m, <<>>, <<>>, b)
        BY <2>2, <4>1
      <4>3. k \in 1 .. Len(b) /\ b[k] = "hidden"
        BY <3>2, <4>2, ModalHolding
      <4>4. b[2] = "showElement" /\ (k = 1 \/ k = 2)
        BY <4>1, <4>3, PairElements, ShortSequences
      <4> QED
        BY <4>3, <4>4
    <3> QED
      BY <2>1, <2>2, <3>1, <3>2
  <2>3. CASE ~again
    <3>1. Waits(s, m, <<>>, <<>>, <<"showElement">>)
      BY <1>1, <2>3
    <3>2. \A k \in Nat : ~Holding(s, m, "element", k)
      BY <3>1, ModalHolding, ShortSequences
    <3>3. ASSUME NEW k \in Nat PROVE ~Holding(s, m, "backdrop", k)
      <4>1. PICK b : b = <<"showElement">>
        OBVIOUS
      <4>2. Waits(s, m, <<>>, <<>>, b)
        BY <3>1, <4>1
      <4>3. b[1] = "showElement" /\ (k \in 1 .. Len(b) => k = 1)
        BY <4>1, SingleElement, ShortSequences
      <4> QED
        BY <4>2, <4>3, ModalHolding
    <3> QED
      BY <2>1, <3>2, <3>3
  <2> QED
    BY <2>2, <2>3
<1> HIDE DEF again
<1>10. Holds(s) \ {<<m, "backdrop", 1>>} \subseteq Holds(t)
  <2>1. TokensStay(s, t, m, "backdrop", 1)
    BY <1>9 DEF TokensStay
  <2> QED
    BY <1>1, <1>7, <2>1, HoldsAfter
<1>11. Held(t, Holds(t))
  <2>1. CASE again
    <3>1. ~t.saved /\ (t.overflow <=> s.saved /\ s.overflow)
      BY <1>4, <1>6, <2>1 DEF SameBody
    <3> QED
      BY <1>1, <1>10, <3>1, HoldBack
  <2>2. CASE ~again
    <3>1. <<m, "backdrop", 1>> \notin Holds(s)
      BY <1>1, <1>9, <2>2, TokenOf
    <3>2. SameBody(s, t)
      BY <1>4, <1>6, <2>2 DEF SameBody
    <3> QED
      BY <1>1, <1>10, <3>1, <3>2, HoldKept
  <2> QED
    BY <2>1, <2>2
<1>12. t \in GoodScreens
  BY <1>7, <1>8, <1>11, ModalStep DEF ModalGood
<1> QED
  BY <1>12 DEF t

LEMMA ModalTransitionGood ==
    ASSUME NEW s \in GoodScreens, NEW m \in Modals, NEW place \in Places,
           s.queue[m][place] # <<>>
    PROVE  Ended(s, m, place) \in GoodScreens
<1>1. ModalGood(s, m)
  BY DEF GoodScreens
<1>2. CASE ModalOpening(s, m)
  <2>1. place = "inner"
    BY <1>2 DEF ModalOpening, Waits, Places
  <2> QED
    BY <1>2, <2>1, ModalOpeningEnds
<1>3. CASE ModalClosing(s, m)
  <2>1. place = "element"
    BY <1>3 DEF ModalClosing, Waits, Places
  <2> QED
    BY <1>3, <2>1, ModalClosingEnds
<1>4. CASE ModalDarkening(s, m)
  <2>1. place = "backdrop"
    BY <1>4 DEF ModalDarkening, Waits, Places
  <2> QED
    BY <1>4, <2>1, ModalDarkeningEnds
<1>5. CASE ModalDimming(s, m)
  <2>1. place = "backdrop"
    BY <1>5 DEF ModalDimming, Waits, Places
  <2> QED
    BY <1>5, <2>1, ModalDimmingEnds
<1>6. CASE ModalClosed(s, m) \/ ModalOpened(s, m)
  BY <1>6 DEF ModalClosed, ModalOpened, Waits, Places
<1> QED
  BY <1>1, <1>2, <1>3, <1>4, <1>5, <1>6 DEF ModalGood

-----------------------------------------------------------------------------
(* The panels: calls                                                       *)

\* The tokens of a panel
LEMMA PanelHolding ==
    ASSUME NEW s, NEW o \in Offcanvases
    PROVE  /\ \A k : Holding(s, o, "shown", k) <=>
                        o \notin Scrolling /\ k = 0 /\ o \in s.shown
           /\ \A k : Holding(s, o, "element", k) <=>
                        /\ o \notin Scrolling
                        /\ k \in 1 .. Len(s.queue[o]["element"])
                        /\ s.queue[o]["element"][k] = "hidden"
           /\ \A k : ~Holding(s, o, "backdrop", k)
BY DEF Holding

LEMMA PanelKeeps ==
    ASSUME NEW s \in GoodScreens, NEW t, NEW o \in Offcanvases,
           OnlyAt(s, t, o), TokensStay(s, t, o, "none", 0)
    PROVE  Holds(s) \subseteq Holds(t)
<1>1. Holds(s) \ {<<o, "none", 0>>} \subseteq Holds(t)
  BY HoldsAfter DEF DialogSet
<1> QED
  BY <1>1 DEF Holds, Tokens

LEMMA OffcanvasShowGood ==
    ASSUME NEW s \in GoodScreens, NEW o \in Offcanvases
    PROVE  OffcanvasShow(s, o) \in GoodScreens
<1>1. CASE o \in s.shown
  BY <1>1 DEF OffcanvasShow
<1>2. CASE o \notin s.shown
  <2> DEFINE t == OffcanvasShow(s, o)
             q == s.queue[o]["element"]
             r == t.queue[o]["element"]
  <2>1. /\ s \in ScreenStates /\ Held(s, Holds(s)) /\ PanelGood(s, o)
        /\ o \in DialogSet
    BY DEF GoodScreens, DialogSet
  <2>2. /\ OnlyAt(s, t, o) /\ o \in t.shown
        /\ t.modalOpen = s.modalOpen
        /\ t.drops \subseteq s.drops \union Dimming
        /\ t.queue[o]["inner"] = s.queue[o]["inner"]
        /\ t.queue[o]["backdrop"] = s.queue[o]["backdrop"]
        /\ r = Append(q, "shown")
        /\ IF o \in Scrolling THEN SameBody(s, t)
           ELSE t.overflow /\ (t.saved <=> s.saved \/ s.overflow)
    BY <1>2, <2>1, OffcanvasShowAt
  <2>3. q \in Seq(Callbacks) /\ "shown" \in Callbacks
    BY <2>1 DEF ScreenStates, Places, Callbacks
  <2>4. /\ Len(q) \in Nat /\ Len(r) = Len(q) + 1 /\ r[Len(r)] = "shown"
        /\ \A i \in 1 .. Len(q) : r[i] = q[i]
        /\ r # <<>>
    <3> HIDE DEF q, r, t
    <3> QED
      BY <2>2, <2>3, AppendProperties, LenProperties
  <2>5. PanelGood(t, o)
    <3>1. \A i \in 1 .. Len(r) : r[i] \in {"shown", "hidden"}
      <4>1. \A i \in 1 .. Len(q) : q[i] \in {"shown", "hidden"}
        BY <2>1 DEF PanelGood
      <4> HIDE DEF q, r, t
      <4>2. \A i \in 1 .. Len(r) : i \in 1 .. Len(q) \/ i = Len(r)
        BY <2>4
      <4> QED
        BY <2>4, <4>1, <4>2
    <3> HIDE DEF t
    <3> QED
      BY <2>1, <2>2, <2>4, <3>1 DEF PanelGood
  <2>6. Holds(s) \subseteq Holds(t)
    <3>1. ASSUME NEW k
          PROVE  Holding(s, o, "element", k) => Holding(t, o, "element", k)
      <4> SUFFICES ASSUME Holding(s, o, "element", k)
                   PROVE  Holding(t, o, "element", k)
        OBVIOUS
      <4>1. o \notin Scrolling /\ k \in 1 .. Len(q) /\ q[k] = "hidden"
        BY PanelHolding
      <4>2. k \in 1 .. Len(r) /\ r[k] = "hidden"
        <5> HIDE DEF q, r, t
        <5> QED
          BY <2>4, <4>1
      <4> QED
        BY <4>1, <4>2, PanelHolding
    <3>2. TokensStay(s, t, o, "none", 0)
      BY <1>2, <3>1, PanelHolding DEF TokensStay
    <3> QED
      BY <2>2, <3>2, PanelKeeps
  <2> HIDE DEF t
  <2>7. Held(t, Holds(t))
    <3>1. CASE o \in Scrolling
      BY <2>1, <2>2, <2>6, <3>1, HoldKept
    <3>2. CASE o \notin Scrolling
      <4>1. ~Holding(s, o, "shown", 0) /\ Holding(t, o, "shown", 0)
        BY <1>2, <2>2, <3>2, PanelHolding
      <4>2. <<o, "shown", 0>> \notin Holds(s) /\ <<o, "shown", 0>> \in Holds(t)
        BY <2>1, <4>1, TokenOf
      <4> QED
        BY <2>1, <2>2, <2>6, <3>2, <4>2, HoldAdded
    <3> QED
      BY <3>1, <3>2
  <2>8. t \in GoodScreens
    BY <2>2, <2>5, <2>7, PanelStep
  <2> QED
    BY <2>8 DEF t
<1> QED
  BY <1>1, <1>2

LEMMA OffcanvasHideGood ==
    ASSUME NEW s \in GoodScreens, NEW o \in Offcanvases
    PROVE  OffcanvasHide(s, o) \in GoodScreens
<1>1. CASE o \notin s.shown
  BY <1>1 DEF OffcanvasHide
<1>2. CASE o \in s.shown
  <2> DEFINE t == OffcanvasHide(s, o)
             q == s.queue[o]["element"]
             r == t.queue[o]["element"]
             b == s.queue[o]["backdrop"]
             c == t.queue[o]["backdrop"]
  <2>1. /\ s \in ScreenStates /\ Held(s, Holds(s)) /\ PanelGood(s, o)
        /\ o \in DialogSet
    BY DEF GoodScreens, DialogSet
  <2>2. /\ OnlyAt(s, t, o) /\ o \notin t.shown /\ SameBody(s, t)
        /\ t.drops = s.drops
        /\ t.queue[o]["inner"] = s.queue[o]["inner"]
        /\ c = IF o \in Dimming THEN Append(b, "hidden") ELSE b
        /\ r = Append(q, "hidden")
    BY <1>2, <2>1, OffcanvasHideAt
  <2>3. q \in Seq(Callbacks) /\ b \in Seq(Callbacks) /\ "hidden" \in Callbacks
    BY <2>1 DEF ScreenStates, Places, Callbacks
  <2>4. /\ Len(q) \in Nat /\ Len(r) = Len(q) + 1 /\ r[Len(r)] = "hidden"
        /\ \A i \in 1 .. Len(q) : r[i] = q[i]
        /\ r # <<>>
    <3> HIDE DEF q, r, t
    <3> QED
      BY <2>2, <2>3, AppendProperties, LenProperties
  <2>5. PanelGood(t, o)
    <3>1. \A i \in 1 .. Len(r) : r[i] \in {"shown", "hidden"}
      <4>1. \A i \in 1 .. Len(q) : q[i] \in {"shown", "hidden"}
        BY <2>1 DEF PanelGood
      <4> HIDE DEF q, r, t
      <4>2. \A i \in 1 .. Len(r) : i \in 1 .. Len(q) \/ i = Len(r)
        BY <2>4
      <4> QED
        BY <2>4, <4>1, <4>2
    <3>2. /\ \A i \in 1 .. Len(c) : c[i] = "hidden"
          /\ o \in Dimming => c # <<>>
      <4>1. \A i \in 1 .. Len(b) : b[i] = "hidden"
        BY <2>1 DEF PanelGood
      <4> HIDE DEF b, c, t
      <4>2. CASE o \in Dimming
        <5>1. /\ Len(b) \in Nat /\ Len(c) = Len(b) + 1 /\ c[Len(c)] = "hidden"
              /\ \A i \in 1 .. Len(b) : c[i] = b[i]
              /\ c # <<>>
          BY <2>2, <2>3, <4>2, AppendProperties, LenProperties
        <5>2. \A i \in 1 .. Len(c) : i \in 1 .. Len(b) \/ i = Len(c)
          BY <5>1
        <5> QED
          BY <4>1, <5>1, <5>2
      <4>3. CASE o \notin Dimming
        BY <2>2, <4>1, <4>3
      <4> QED
        BY <4>2, <4>3
    <3> HIDE DEF t
    <3> QED
      BY <2>1, <2>2, <2>4, <3>1, <3>2 DEF PanelGood
  <2>6. Holds(s) \ {<<o, "shown", 0>>} \subseteq Holds(t)
    <3>1. ASSUME NEW k
          PROVE  Holding(s, o, "element", k) => Holding(t, o, "element", k)
      <4> SUFFICES ASSUME Holding(s, o, "element", k)
                   PROVE  Holding(t, o, "element", k)
        OBVIOUS
      <4>1. o \notin Scrolling /\ k \in 1 .. Len(q) /\ q[k] = "hidden"
        BY PanelHolding
      <4>2. k \in 1 .. Len(r) /\ r[k] = "hidden"
        <5> HIDE DEF q, r, t
        <5> QED
          BY <2>4, <4>1
      <4> QED
        BY <4>1, <4>2, PanelHolding
    <3>2. TokensStay(s, t, o, "shown", 0)
      BY <3>1, PanelHolding DEF TokensStay
    <3> QED
      BY <2>1, <2>2, <3>2, HoldsAfter
  <2>7. Held(t, Holds(t))
    <3>1. CASE o \in Scrolling
      <4>1. <<o, "shown", 0>> \notin Holds(s)
        BY <2>1, <3>1, PanelHolding, TokenOf
      <4> HIDE DEF t
      <4> QED
        BY <2>1, <2>2, <2>6, <4>1, HoldKept
    <3>2. CASE o \notin Scrolling
      <4>1. /\ Len(r) \in 1 .. Len(r) /\ Len(r) \in Nat
            /\ Len(r) \notin 1 .. Len(q)
        <5> HIDE DEF q, r, t
        <5> QED
          BY <2>4
      <4>2. /\ Holding(t, o, "element", Len(r))
            /\ ~Holding(s, o, "element", Len(r))
        BY <2>4, <3>2, <4>1, PanelHolding
      <4>3. /\ <<o, "element", Len(r)>> \in Holds(t)
            /\ <<o, "element", Len(r)>> \notin Holds(s)
        <5> HIDE DEF r, t
        <5> QED
          BY <2>1, <4>1, <4>2, TokenOf
      <4> HIDE DEF t, r
      <4> QED
        BY <2>1, <2>2, <2>6, <4>3, HoldMoved
    <3> QED
      BY <3>1, <3>2
  <2> HIDE DEF t
  <2>8. t \in GoodScreens
    BY <2>2, <2>5, <2>7, PanelStep DEF SameBody
  <2> QED
    BY <2>8 DEF t
<1> QED
  BY <1>1, <1>2

-----------------------------------------------------------------------------
(* The panels: the end of a transition                                     *)

LEMMA HeldByMore ==
    ASSUME NEW s, NEW h, NEW more, Held(s, h), h \subseteq more
    PROVE  Held(s, more)
BY DEF Held

LEMMA HeldBack ==
    ASSUME NEW s, NEW t, NEW h, NEW rest, NEW a, Held(s, h),
           h \ {a} \subseteq rest,
           ~t.saved, t.overflow <=> s.saved /\ s.overflow
    PROVE  Held(t, rest)
BY DEF Held

\* The callbacks of a panel
LEMMA PanelCallbacks ==
    ASSUME NEW x, NEW o \in Offcanvases
    PROVE  /\ Callback(x, o, "element", "shown") = OffcanvasShown(x, o)
           /\ Callback(x, o, "element", "hidden") = OffcanvasHidden(x, o)
           /\ Callback(x, o, "backdrop", "hidden") = Disposed(x, o)
<1>1. o \notin Modals
  BY DialogsAssumption
<1>2. Callback(x, o, "element", "shown") = OffcanvasShown(x, o)
  BY <1>1 DEF Callback
<1>3. Callback(x, o, "element", "hidden") = OffcanvasHidden(x, o)
  BY <1>1 DEF Callback
<1>4. Callback(x, o, "backdrop", "hidden") = Disposed(x, o)
  BY <1>1 DEF Callback
<1> QED
  BY <1>2, <1>3, <1>4

\* What the first k callbacks of q, at the element of o, have made of u; they
\* have used up their tokens, of those in holds.
HoldsFrom(holds, o, k) ==
    {a \in holds : ~(a[1] = o /\ a[2] = "element" /\ a[3] \in 1 .. k)}

Unrolled(u, x, o, q, k, holds) ==
    /\ OnlyAt(u, x, o) /\ x.shown = u.shown /\ x.drops = u.drops
    /\ x.modalOpen = u.modalOpen /\ x.queue = u.queue
    /\ k >= 1 => /\ o \in x.lit <=> q[k] = "shown"
                 /\ q[k] = "hidden" => o \notin x.aria
    /\ Held(x, HoldsFrom(holds, o, k))

LEMMA PanelUnrolls ==
    ASSUME NEW u \in ScreenStates, NEW x, NEW o \in Offcanvases,
           NEW q, NEW k \in Nat \ {0}, NEW holds, NEW y,
           q[k] \in {"shown", "hidden"},
           \A a \in holds : a \in Tokens /\
               (a[1] = o /\ a[2] = "element" /\ a[3] = k
                   => o \notin Scrolling /\ q[k] = "hidden"
                      /\ a = <<o, "element", k>>),
           Unrolled(u, x, o, q, k - 1, holds),
           y = Callback(x, o, "element", q[k])
    PROVE  Unrolled(u, y, o, q, k, holds)
<1> DEFINE h == HoldsFrom(holds, o, k - 1)
           rest == HoldsFrom(holds, o, k)
<1>1. x \in ScreenStates /\ OnlyAt(u, x, o) /\ Held(x, h)
  BY DEF Unrolled, OnlyAt
<1>2. ASSUME NEW a \in h, a \notin rest
      PROVE  a[1] = o /\ a[2] = "element" /\ a[3] = k /\ a \in holds
  <2>1. /\ a \in holds /\ a[1] = o /\ a[2] = "element" /\ a[3] \in 1 .. k
        /\ ~(a[3] \in 1 .. (k - 1))
    BY <1>2 DEF HoldsFrom
  <2> QED
    BY <2>1
<1>3. CASE q[k] = "shown"
  <2>1. y = OffcanvasShown(x, o)
    BY <1>3, PanelCallbacks
  <2>2. /\ OnlyAt(x, y, o) /\ SameBody(x, y) /\ o \in y.lit
        /\ y.shown = x.shown /\ y.aria = x.aria /\ y.drops = x.drops
        /\ y.queue = x.queue
    BY <1>1, <2>1, OffcanvasShownAt
  <2>3. h \subseteq rest
    BY <1>2, <1>3
  <2>4. Held(y, rest)
    <3>1. Held(x, rest)
      BY <1>1, <2>3, HeldByMore
    <3> QED
      BY <2>2, <3>1 DEF Held, SameBody
  <2>5. OnlyAt(u, y, o)
    BY <1>1, <2>2, OnlyAtTrans
  <2> HIDE DEF rest
  <2> QED
    BY <1>3, <2>2, <2>4, <2>5 DEF Unrolled, SameBody, rest
<1>4. CASE q[k] = "hidden"
  <2>1. y = OffcanvasHidden(x, o)
    BY <1>4, PanelCallbacks
  <2>2. /\ OnlyAt(x, y, o) /\ o \notin y.lit /\ o \notin y.aria
        /\ y.shown = x.shown /\ y.drops = x.drops /\ y.queue = x.queue
        /\ y.modalOpen = x.modalOpen
        /\ IF o \in Scrolling THEN SameBody(x, y)
           ELSE ~y.saved /\ (y.overflow <=> x.saved /\ x.overflow)
    BY <1>1, <2>1, OffcanvasHiddenAt
  <2>3. Held(y, rest)
    <3>1. CASE o \in Scrolling
      <4>1. h \subseteq rest
        BY <1>2, <3>1
      <4>2. Held(x, rest)
        BY <1>1, <4>1, HeldByMore
      <4> QED
        BY <2>2, <3>1, <4>2 DEF Held, SameBody
    <3>2. CASE o \notin Scrolling
      <4>1. h \ {<<o, "element", k>>} \subseteq rest
        BY <1>2
      <4> HIDE DEF h, rest
      <4> QED
        BY <1>1, <2>2, <3>2, <4>1, HeldBack
    <3> QED
      BY <3>1, <3>2
  <2>4. OnlyAt(u, y, o)
    BY <1>1, <2>2, OnlyAtTrans
  <2> HIDE DEF rest
  <2> QED
    BY <1>4, <2>2, <2>3, <2>4 DEF Unrolled, rest
<1> QED
  BY <1>3, <1>4

LEMMA PanelElementEnds ==
    ASSUME NEW s \in GoodScreens, NEW o \in Offcanvases,
           s.queue[o]["element"] # <<>>
    PROVE  Ended(s, o, "element") \in GoodScreens
<1> DEFINE q == s.queue[o]["element"]
           n == Len(q)
           u == [s EXCEPT !.queue[o]["element"] = <<>>]
           t == Ended(s, o, "element")
           holds == Holds(s)
<1>1. /\ s \in ScreenStates /\ Held(s, holds) /\ PanelGood(s, o)
      /\ o \in DialogSet /\ "element" \in Places
  BY DEF GoodScreens, DialogSet, Places
<1>2. /\ u \in ScreenStates /\ SameBody(s, u) /\ OnlyAt(s, u, o)
      /\ Fields(u, s.shown, s.busy, s.lit, s.aria, s.drops, s.traps, u.queue)
      /\ \A p \in Places : u.queue[o][p] =
            IF p = "element" THEN <<>> ELSE s.queue[o][p]
  BY <1>1, EmptiedAt
<1>3. /\ q \in Seq(Callbacks) /\ q # <<>>
      /\ \A i \in 1 .. n : q[i] \in {"shown", "hidden"}
      /\ q[n] = "shown" <=> o \in s.shown
  BY <1>1 DEF ScreenStates, PanelGood
<1>4. n \in Nat /\ n >= 1
  <2> HIDE DEF q
  <2> QED
    BY <1>3, LenProperties, EmptySeq
<1>5. t = Ran(u, o, "element", q)
  BY DEF Ended
<1>6. PICK f : Runs(f, u, o, "element", q)
  <2>1. ASSUME NEW x \in ScreenStates, NEW i \in Indices(Len(q))
        PROVE  Callback(x, o, "element", q[i]) \in ScreenStates
    <3>1. q[i] \in {"shown", "hidden"}
      BY <1>3 DEF Indices
    <3>2. /\ OffcanvasShown(x, o) \in ScreenStates
          /\ OffcanvasHidden(x, o) \in ScreenStates
      BY OffcanvasShownAt, OffcanvasHiddenAt DEF OnlyAt
    <3> HIDE DEF q
    <3> QED
      BY <3>1, <3>2, PanelCallbacks
  <2> HIDE DEF q, u
  <2> QED
    BY <1>2, <1>3, <2>1, CallbacksRun
<1>7. ASSUME NEW a \in holds
      PROVE  /\ a \in Tokens
             /\ a = <<a[1], a[2], a[3]>>
             /\ a[1] = o /\ a[2] = "element" =>
                   /\ o \notin Scrolling /\ a[3] \in 1 .. n
                   /\ q[a[3]] = "hidden"
  <2>1. a \in Tokens /\ Holding(s, a[1], a[2], a[3])
    BY DEF Holds
  <2> QED
    BY <2>1, PanelHolding DEF Tokens
<1> DEFINE Done == {k \in Nat : Unrolled(u, f[k], o, q, k, holds)}
<1> HIDE DEF u, t, q, holds
<1>8. 0 \in Done
  <2>1. f[0] = u
    BY <1>6 DEF Runs
  <2>2. OnlyAt(u, u, o)
    BY <1>1, <1>2, FieldsAtOne
  <2>3. HoldsFrom(holds, o, 0) = holds
    BY DEF HoldsFrom
  <2>4. Held(u, holds)
    BY <1>1, <1>2 DEF Held, SameBody
  <2> QED
    BY <2>1, <2>2, <2>3, <2>4 DEF Unrolled
<1>9. ASSUME NEW k \in 1 .. n, k - 1 \in Done
      PROVE  k \in Done
  <2>1. k \in Nat \ {0} /\ k \in Indices(n) /\ q[k] \in {"shown", "hidden"}
    BY <1>3, <1>4 DEF Indices
  <2>2. f[k] = Callback(f[k - 1], o, "element", q[k])
    BY <1>6, <2>1 DEF Runs
  <2>3. Unrolled(u, f[k - 1], o, q, k - 1, holds)
    BY <1>9
  <2>4. \A a \in holds : a \in Tokens /\
            (a[1] = o /\ a[2] = "element" /\ a[3] = k
                => o \notin Scrolling /\ q[k] = "hidden"
                   /\ a = <<o, "element", k>>)
    BY <1>7
  <2>5. Unrolled(u, f[k], o, q, k, holds)
    BY <1>2, <2>1, <2>2, <2>3, <2>4, PanelUnrolls
  <2> QED
    BY <2>1, <2>5
<1>10. n \in Done
  <2> HIDE DEF Done, n
  <2>1. 0 .. n \subseteq Done
    BY <1>4, <1>8, <1>9, UpToInduction
  <2> QED
    BY <1>4, <2>1
<1>11. Unrolled(u, t, o, q, n, holds)
  BY <1>5, <1>6, <1>10 DEF Runs
<1>12. OnlyAt(s, t, o) /\ t.shown = s.shown /\ t.drops = s.drops
       /\ t.modalOpen = s.modalOpen /\ t.queue = u.queue
  BY <1>2, <1>11, OnlyAtTrans DEF Unrolled, Fields, SameBody
<1>13. HoldsFrom(holds, o, n) \subseteq Holds(t)
  <2> SUFFICES ASSUME NEW a \in HoldsFrom(holds, o, n)
               PROVE  a \in Holds(t)
    OBVIOUS
  <2>1. /\ a \in Tokens /\ a = <<a[1], a[2], a[3]>> /\ a \in Holds(s)
        /\ ~(a[1] = o /\ a[2] = "element")
    BY <1>7 DEF HoldsFrom, holds
  <2>2. Holding(s, a[1], a[2], a[3])
    BY <2>1 DEF Holds
  <2>3. a[1] \in DialogSet
    BY <2>1 DEF Tokens
  <2>4. Holding(t, a[1], a[2], a[3])
    <3>1. CASE a[1] = o
      BY <1>12, <2>1, <2>2, <3>1, PanelHolding DEF Tokens
    <3>2. CASE a[1] # o
      BY <1>1, <1>12, <2>2, <2>3, <3>2, FrameGood
    <3> QED
      BY <3>1, <3>2
  <2> QED
    BY <2>1, <2>4 DEF Holds
<1>14. Held(t, Holds(t))
  BY <1>11, <1>13, HeldByMore DEF Unrolled
<1>15. PanelGood(t, o)
  <2>1. /\ t.queue[o]["element"] = <<>>
        /\ t.queue[o]["inner"] = s.queue[o]["inner"]
        /\ t.queue[o]["backdrop"] = s.queue[o]["backdrop"]
    BY <1>2, <1>12 DEF Places
  <2>2. /\ o \in t.lit <=> o \in t.shown
        /\ o \in t.aria => o \in t.shown
    BY <1>3, <1>4, <1>11, <1>12 DEF Unrolled
  <2>3. \A i \in 1 .. Len(<<>>) : FALSE
    BY ShortSequences
  <2> QED
    BY <1>1, <1>12, <2>1, <2>2, <2>3 DEF PanelGood
<1>16. t \in GoodScreens
  BY <1>12, <1>14, <1>15, PanelStep
<1> QED
  BY <1>16 DEF t

Darkened(u, x, o, k) ==
    /\ OnlyAt(u, x, o) /\ SameBody(u, x) /\ x.shown = u.shown
    /\ x.lit = u.lit /\ x.aria = u.aria /\ x.queue = u.queue
    /\ k >= 1 => o \notin x.drops

LEMMA PanelBackdropEnds ==
    ASSUME NEW s \in GoodScreens, NEW o \in Offcanvases,
           s.queue[o]["backdrop"] # <<>>
    PROVE  Ended(s, o, "backdrop") \in GoodScreens
<1> DEFINE q == s.queue[o]["backdrop"]
           n == Len(q)
           u == [s EXCEPT !.queue[o]["backdrop"] = <<>>]
           t == Ended(s, o, "backdrop")
<1>1. /\ s \in ScreenStates /\ Held(s, Holds(s)) /\ PanelGood(s, o)
      /\ o \in DialogSet /\ "backdrop" \in Places
  BY DEF GoodScreens, DialogSet, Places
<1>2. /\ u \in ScreenStates /\ SameBody(s, u) /\ OnlyAt(s, u, o)
      /\ Fields(u, s.shown, s.busy, s.lit, s.aria, s.drops, s.traps, u.queue)
      /\ \A p \in Places : u.queue[o][p] =
            IF p = "backdrop" THEN <<>> ELSE s.queue[o][p]
  BY <1>1, EmptiedAt
<1>3. /\ q \in Seq(Callbacks) /\ q # <<>>
      /\ \A i \in 1 .. n : q[i] = "hidden"
  BY <1>1 DEF ScreenStates, PanelGood
<1>4. n \in Nat /\ n >= 1
  <2> HIDE DEF q
  <2> QED
    BY <1>3, LenProperties, EmptySeq
<1>5. t = Ran(u, o, "backdrop", q)
  BY DEF Ended
<1>6. PICK f : Runs(f, u, o, "backdrop", q)
  <2>1. ASSUME NEW x \in ScreenStates, NEW i \in Indices(Len(q))
        PROVE  Callback(x, o, "backdrop", q[i]) \in ScreenStates
    <3>1. q[i] = "hidden"
      BY <1>3 DEF Indices
    <3>2. Disposed(x, o) \in ScreenStates
      BY <1>1, DisposedAt
    <3> HIDE DEF q
    <3> QED
      BY <3>1, <3>2, PanelCallbacks
  <2> HIDE DEF q, u
  <2> QED
    BY <1>2, <1>3, <2>1, CallbacksRun
<1> DEFINE Done == {k \in Nat : Darkened(u, f[k], o, k)}
<1> HIDE DEF u, t, q
<1>7. 0 \in Done
  <2>1. f[0] = u
    BY <1>6 DEF Runs
  <2>2. OnlyAt(u, u, o)
    BY <1>1, <1>2, FieldsAtOne
  <2> QED
    BY <2>1, <2>2 DEF Darkened, SameBody
<1>8. ASSUME NEW k \in 1 .. n, k - 1 \in Done
      PROVE  k \in Done
  <2>1. k \in Nat \ {0} /\ k \in Indices(n) /\ q[k] = "hidden"
    BY <1>3, <1>4 DEF Indices
  <2>2. f[k] = Disposed(f[k - 1], o)
    BY <1>6, <2>1, PanelCallbacks DEF Runs
  <2>3. Darkened(u, f[k - 1], o, k - 1) /\ f[k - 1] \in ScreenStates
    BY <1>8 DEF Darkened, OnlyAt
  <2>4. /\ f[k] \in ScreenStates /\ SameBody(f[k - 1], f[k])
        /\ Fields(f[k], f[k - 1].shown, f[k - 1].busy, f[k - 1].lit,
                  f[k - 1].aria, f[k - 1].drops \ {o}, f[k - 1].traps,
                  f[k - 1].queue)
    BY <1>1, <2>2, <2>3, DisposedAt
  <2>5. OnlyAt(f[k - 1], f[k], o)
    BY <1>1, <2>3, <2>4, FieldsAtOne DEF Fields
  <2>6. Darkened(u, f[k], o, k)
    BY <2>3, <2>4, <2>5, OnlyAtTrans DEF Darkened, Fields, SameBody
  <2> QED
    BY <2>1, <2>6
<1>9. n \in Done
  <2> HIDE DEF Done, n
  <2>1. 0 .. n \subseteq Done
    BY <1>4, <1>7, <1>8, UpToInduction
  <2> QED
    BY <1>4, <2>1
<1>10. Darkened(u, t, o, n)
  BY <1>5, <1>6, <1>9 DEF Runs
<1>11. OnlyAt(s, t, o) /\ SameBody(s, t) /\ t.shown = s.shown
       /\ t.lit = s.lit /\ t.aria = s.aria /\ t.queue = u.queue
       /\ o \notin t.drops
  BY <1>2, <1>4, <1>10, OnlyAtTrans DEF Darkened, Fields, SameBody
<1>12. /\ t.queue[o]["element"] = s.queue[o]["element"]
       /\ t.queue[o]["inner"] = s.queue[o]["inner"]
       /\ t.queue[o]["backdrop"] = <<>>
  BY <1>2, <1>11 DEF Places
<1>13. PanelGood(t, o)
  <2>1. \A i \in 1 .. Len(<<>>) : FALSE
    BY ShortSequences
  <2> QED
    BY <1>1, <1>11, <1>12, <2>1 DEF PanelGood
<1>14. Held(t, Holds(t))
  <2>1. TokensStay(s, t, o, "none", 0)
    BY <1>11, <1>12, PanelHolding DEF TokensStay
  <2>2. Holds(s) \subseteq Holds(t)
    BY <1>11, <2>1, PanelKeeps
  <2> QED
    BY <1>1, <1>11, <2>2, HoldKept
<1>15. t \in GoodScreens
  BY <1>11, <1>13, <1>14, PanelStep DEF SameBody
<1> QED
  BY <1>15 DEF t

LEMMA TransitionGood ==
    ASSUME NEW s \in GoodScreens, NEW d \in DialogSet, NEW place \in Places,
           s.queue[d][place] # <<>>
    PROVE  Ended(s, d, place) \in GoodScreens
<1>1. CASE d \in Modals
  BY <1>1, ModalTransitionGood
<1>2. CASE d \in Offcanvases
  <2>1. s.queue[d]["inner"] = <<>>
    BY <1>2 DEF GoodScreens, PanelGood
  <2>2. place \in {"element", "backdrop"}
    BY <2>1 DEF Places
  <2> QED
    BY <1>2, <2>2, PanelElementEnds, PanelBackdropEnds
<1> QED
  BY <1>1, <1>2 DEF DialogSet

\* A resize hides some of the panels that claim to be modal, one by one.
LEMMA ResizeGood ==
    ASSUME NEW s \in GoodScreens,
           NEW wide \in SUBSET (s.aria \intersect Offcanvases)
    PROVE  FoldSet(LAMBDA o, x : OffcanvasHide(x, o), s, wide) \in GoodScreens
<1> DEFINE S == GoodScreens
           pick == [z \in SUBSET wide |-> CHOOSE x \in z : TRUE]
           step == [o \in wide |-> [x \in S |-> OffcanvasHide(x, o)]]
           iter[z \in SUBSET wide] ==
               IF z = {} THEN s
               ELSE OffcanvasHide(iter[z \ {CHOOSE x \in z : TRUE}],
                                  CHOOSE x \in z : TRUE)
<1>1. IsFiniteSet(wide)
  BY FS_Subset DEF GoodScreens
<1>2. \A z \in SUBSET wide : z # {} => pick[z] \in z
  OBVIOUS
<1>3. step \in [wide -> [S -> S]]
  BY OffcanvasHideGood
<1>4. PICK it : IsFold(it, wide, S, s, step, pick)
  <2> HIDE DEF S, step, pick
  <2>1. s \in S
    BY DEF S
  <2> QED
    BY <1>1, <1>2, <1>3, <2>1, FoldExists
<1>5. it = [z \in SUBSET wide |->
              IF z = {} THEN s
              ELSE OffcanvasHide(it[z \ {CHOOSE x \in z : TRUE}],
                                 CHOOSE x \in z : TRUE)]
  BY <1>2, <1>4 DEF IsFold
<1>6. iter = [z \in SUBSET wide |->
                IF z = {} THEN s
                ELSE OffcanvasHide(iter[z \ {CHOOSE x \in z : TRUE}],
                                   CHOOSE x \in z : TRUE)]
  BY <1>5
<1>7. FoldSet(LAMBDA o, x : OffcanvasHide(x, o), s, wide) = iter[wide]
  BY DEF FoldSet, MapThenFoldSet
<1>8. \A z \in SUBSET wide : iter[z] =
         IF z = {} THEN s ELSE OffcanvasHide(iter[z \ {pick[z]}], pick[z])
  <2> HIDE DEF iter
  <2> QED
    BY <1>6
<1> HIDE DEF iter, pick, step
<1>9. ASSUME NEW z \in SUBSET wide, z # {}, iter[z \ {pick[z]}] \in S
      PROVE  iter[z] \in S
  <2>1. pick[z] \in Offcanvases
    BY <1>2, <1>9
  <2> QED
    BY <1>8, <1>9, <2>1, OffcanvasHideGood
<1>10. iter[{}] \in S
  BY <1>8
<1>11. \A z \in SUBSET wide : iter[z] \in S
  <2> HIDE DEF S
  <2> QED
    BY <1>1, <1>2, <1>9, <1>10, FoldStays
<1> QED
  BY <1>7, <1>11

\* The inductive invariant of the dialogs.
DialogsInv == screen \in GoodScreens

LEMMA DialogsStart == DialogsInit => DialogsInv
<1> SUFFICES ASSUME DialogsInit PROVE screen \in GoodScreens
  BY DEF DialogsInv
<1>1. screen \in ScreenStates
  <2>1. <<>> \in Seq(Callbacks)
    BY EmptySeq
  <2> QED
    BY <2>1 DEF DialogsInit, ScreenStates
<1>2. /\ screen.shown = {} /\ screen.busy = {} /\ screen.lit = {}
      /\ screen.aria = {} /\ screen.drops = {} /\ screen.traps = {}
      /\ ~screen.overflow /\ ~screen.saved /\ ~screen.modalOpen
      /\ \A d \in DialogSet, place \in Places : screen.queue[d][place] = <<>>
  BY DEF DialogsInit
<1>3. ASSUME NEW m \in Modals PROVE ModalGood(screen, m)
  BY <1>2 DEF ModalGood, ModalClosed, Waits, DialogSet, Places
<1>4. ASSUME NEW o \in Offcanvases PROVE PanelGood(screen, o)
  <2>1. \A place \in Places : screen.queue[o][place] = <<>>
    BY <1>2 DEF DialogSet
  <2>2. \A i \in 1 .. Len(<<>>) : FALSE
    BY ShortSequences
  <2> QED
    BY <1>2, <2>1, <2>2 DEF PanelGood, Places
<1>5. Held(screen, Holds(screen)) /\ IsFiniteSet(screen.aria)
  BY <1>2, FS_EmptySet DEF Held
<1> QED
  BY <1>1, <1>2, <1>3, <1>4, <1>5 DEF GoodScreens

LEMMA DialogsStay == DialogsInv /\ [DialogsNext]_screen => DialogsInv'
<1> SUFFICES ASSUME screen \in GoodScreens, [DialogsNext]_screen
             PROVE  screen' \in GoodScreens
  BY DEF DialogsInv
<1>1. CASE CallShow
  BY <1>1, ModalShowGood, OffcanvasShowGood DEF CallShow, Step
<1>2. CASE CallModalHide
  BY <1>2, ModalHideGood DEF CallModalHide, Step
<1>3. CASE CallOffcanvasHide
  BY <1>3, OffcanvasHideGood DEF CallOffcanvasHide, Step
<1>4. CASE ClickModalToggler
  <2>1. ASSUME NEW s \in GoodScreens, NEW m \in Modals
        PROVE  ModalToggle(s, m) \in GoodScreens
    BY ModalShowGood, ModalHideGood DEF ModalToggle
  <2>2. \A first \in Modals : ModalHide(screen, first) \in GoodScreens
    BY ModalHideGood
  <2> QED
    BY <1>4, <2>1, <2>2 DEF ClickModalToggler, Step
<1>5. CASE ClickOffcanvasToggler
  <2>1. ASSUME NEW s \in GoodScreens, NEW o \in Offcanvases
        PROVE  OffcanvasToggle(s, o) \in GoodScreens
    BY OffcanvasShowGood, OffcanvasHideGood DEF OffcanvasToggle
  <2>2. \A first \in Offcanvases : OffcanvasHide(screen, first) \in GoodScreens
    BY OffcanvasHideGood
  <2> QED
    BY <1>5, <2>1, <2>2 DEF ClickOffcanvasToggler, Step
<1>6. CASE ResizeWindow
  BY <1>6, ResizeGood DEF ResizeWindow, Step
<1>7. ASSUME NEW d \in DialogSet, NEW place \in Places, TransitionEnd(d, place)
      PROVE  screen' \in GoodScreens
  <2>1. screen' = Ended(screen, d, place) /\ screen.queue[d][place] # <<>>
    BY <1>7 DEF TransitionEnd, Ended, Ran
  <2> QED
    BY <2>1, TransitionGood
<1>8. CASE UNCHANGED screen
  BY <1>8
<1> QED
  BY <1>1, <1>2, <1>3, <1>4, <1>5, <1>6, <1>7, <1>8 DEF DialogsNext

\* Settled, of a state
LEMMA SettledMeans ==
    ASSUME NEW d \in DialogSet, Settled(d), screen \in GoodScreens
    PROVE  /\ \A place \in Places : screen.queue[d][place] = <<>>
           /\ d \in Modals =>
                 ModalClosed(screen, d) \/ ModalOpened(screen, d)
           /\ d \in Offcanvases => PanelGood(screen, d)
<1>1. \A place \in Places : screen.queue[d][place] = <<>>
  BY DEF Settled
<1>2. d \in Modals => ModalClosed(screen, d) \/ ModalOpened(screen, d)
  BY <1>1, ShortSequences DEF GoodScreens, ModalGood, ModalDimming, ModalOpening,
     ModalClosing, ModalDarkening, Waits, Places
<1> QED
  BY <1>1, <1>2 DEF GoodScreens

LEMMA GoodShownSettles == DialogsInv => ShownSettles
<1> SUFFICES ASSUME screen \in GoodScreens, NEW d \in DialogSet, Settled(d)
             PROVE  /\ d \in screen.shown <=> d \in screen.lit
                    /\ d \notin screen.busy
                    /\ d \in Modals \intersect screen.shown =>
                          d \in screen.aria \intersect screen.traps
  BY DEF ShownSettles, DialogsInv
<1>1. CASE d \in Modals
  BY <1>1, SettledMeans DEF ModalClosed, ModalOpened
<1>2. CASE d \in Offcanvases
  <2>1. d \notin Modals /\ screen.busy \subseteq Modals
    BY <1>2, DialogsAssumption DEF GoodScreens, ScreenStates
  <2> QED
    BY <1>2, <2>1, SettledMeans DEF PanelGood, Places
<1> QED
  BY <1>1, <1>2 DEF DialogSet

LEMMA GoodBodyRestored == DialogsInv => BodyRestored
<1> SUFFICES ASSUME screen \in GoodScreens,
                    \A d \in DialogSet : Settled(d) /\ d \notin screen.shown
             PROVE  /\ ~screen.overflow /\ ~screen.saved /\ ~screen.modalOpen
                    /\ screen.drops = {} /\ screen.aria = {}
                    /\ screen.lit = {}
                    /\ screen.traps \intersect Modals = {}
  BY DEF BodyRestored, DialogsInv
<1>1. ASSUME NEW m \in Modals PROVE ModalClosed(screen, m)
  BY SettledMeans DEF DialogSet, ModalOpened
<1>2. ASSUME NEW o \in Offcanvases
      PROVE  o \notin screen.drops /\ o \notin screen.aria /\ o \notin screen.lit
  BY SettledMeans DEF DialogSet, PanelGood, Places
<1>3. Holds(screen) = {}
  <2> SUFFICES ASSUME NEW d \in DialogSet,
                      NEW at \in {"shown", "element", "backdrop"}, NEW i \in Nat,
                      Holding(screen, d, at, i)
               PROVE  FALSE
    BY DEF Holds, Tokens
  <2>1. at # "shown" => screen.queue[d][at] = <<>>
    BY SettledMeans DEF Places
  <2> QED
    BY <2>1, ShortSequences DEF Holding
<1>4. ~screen.overflow /\ ~screen.saved
  <2>1. Held(screen, Holds(screen)) /\ screen \in ScreenStates
    BY DEF GoodScreens
  <2> QED
    BY <1>3, <2>1 DEF Held
<1>5. ~screen.modalOpen
  BY SettledMeans DEF GoodScreens, DialogSet
<1>6. /\ screen.drops \subseteq DialogSet /\ screen.aria \subseteq DialogSet
      /\ screen.lit \subseteq DialogSet
  BY DEF GoodScreens, ScreenStates
<1> QED
  BY <1>1, <1>2, <1>4, <1>5, <1>6 DEF ModalClosed, DialogSet

\* Every modal is in one of its phases, every panel's last callback does what
\* was asked last, and the body is held, whatever calls, clicks, resizes and
\* ends of transitions come in whatever order.
THEOREM ScreensStayGood == DialogsSpec => []DialogsInv
<1> QED
  BY DialogsStart, DialogsStay, PTL DEF DialogsSpec

\* Once every dialog is closed and settled nobody holds the body, so nothing of
\* the dialogs is left on it.
THEOREM PageRestored == DialogsSpec => []BodyRestored
<1> QED
  BY ScreensStayGood, GoodBodyRestored, PTL

\* A dialog whose transitions are over shows what was asked of it last.
THEOREM DialogsSettle == DialogsSpec => []ShownSettles
<1> QED
  BY ScreensStayGood, GoodShownSettles, PTL
=============================================================================
