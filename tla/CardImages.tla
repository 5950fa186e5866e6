----------------------------- MODULE CardImages -----------------------------
(***************************************************************************)
(* The images of the link cards on a page of the public site.  When the    *)
(* document is ready the scripts of the page run in the order in which     *)
(* they were registered: App watches the lazy images, Home and LinksIndex  *)
(* have LinkCards rewrite their data-src.  Only after that the browser     *)
(* tells the observer which images have entered the window, and they get   *)
(* their src.  The cards' sizes and the pager are left out.                *)
(*                                                                         *)
(* The cards that the views render today carry no data-src, and the page   *)
(* of links loads no bundle: this is what the scripts do with cards that   *)
(* are rendered the way the scripts expect.                                *)
(***************************************************************************)
EXTENDS Naturals, Sequences

CONSTANT CardCount

ASSUME CardAssumption == CardCount \in Nat

Cards == 1 .. CardCount

\* An address: "http" of an image of one's own, "known" of a site that has a
\* logo here (http too), "logo" and "path" of a file of this site, "none".
Address(kind, of) == [kind |-> kind, of |-> of]
Nowhere == Address("none", 0)

VARIABLES
    page,       \* the page; chosen at the start
    handlers,   \* the scripts that still wait for DOMContentLoaded
    dataSrc,    \* data-src of each image
    src,        \* src of each image
    unseen,     \* the images the observer watches
    original    \* data-src as the page was rendered

cardVars == <<page, handlers, dataSrc, src, unseen, original>>

\* links-index registers LinksIndex, and so does the script that imports it.
CardsInit ==
    /\ page \in {"home", "links"}
    /\ handlers = IF page = "home"
                  THEN <<"App", "LinkCards">>
                  ELSE <<"App", "LinkCards", "LinkCards">>
    /\ \E kinds \in [Cards -> {"http", "known", "path", "none"}] :
          original = [card \in Cards |->
                         IF kinds[card] = "none"
                         THEN Nowhere ELSE Address(kinds[card], card)]
    /\ dataSrc = original
    /\ src = [card \in Cards |-> Nowhere]
    /\ unseen = {}

\* Mutant: without the last alternative, as in the script of the module home.
CleansedAddressKnownOnly(address, last) ==
    CASE address.kind = "known" -> Address("logo", address.of)
      [] OTHER -> last

\* What newSrc is after an image, given what it was before.
CleansedAddress(address, last) ==
    CASE address.kind = "http" -> address
      [] address.kind = "known" -> Address("logo", address.of)
      [] OTHER -> last

\* newSrc is declared outside the loop: what is not http gets the address of
\* the image before it.
CleanseImages ==
    LET newSrc[card \in 0 .. CardCount] ==
            IF card = 0 THEN Nowhere
            ELSE IF dataSrc[card] = Nowhere THEN newSrc[card - 1]
            ELSE CleansedAddress(dataSrc[card], newSrc[card - 1])
    IN  [card \in Cards |-> IF dataSrc[card] = Nowhere
                            THEN Nowhere ELSE newSrc[card]]

LinkCards ==
    /\ handlers # <<>> /\ Head(handlers) = "LinkCards"
    /\ handlers' = Tail(handlers)
    /\ dataSrc' = CleanseImages
    /\ UNCHANGED <<page, src, unseen, original>>

LazyLoad ==
    /\ handlers # <<>> /\ Head(handlers) = "App"
    /\ handlers' = Tail(handlers)
    /\ unseen' = Cards
    /\ UNCHANGED <<page, dataSrc, src, original>>

\* The observer's callback, for an image that has entered the window
CardEnters ==
    /\ handlers = <<>>
    /\ \E card \in unseen :
          /\ unseen' = unseen \ {card}
          /\ src' = IF dataSrc[card] = Nowhere THEN src
                    ELSE [src EXCEPT ![card] = dataSrc[card]]
    /\ UNCHANGED <<page, handlers, dataSrc, original>>

CardsNext == LazyLoad \/ LinkCards \/ CardEnters

CardsSpec == CardsInit /\ [][CardsNext]_cardVars

-----------------------------------------------------------------------------

\* An image of a site without a logo shows itself, whatever cards come before
\* it and however often the page runs LinkCards; on the home page, where
\* LinkCards runs once, an image of a site with a logo shows that site's logo.
\* (On the page of links the second run takes the logo for an image that is
\* not http, and gives it the address before it.)
CardsShowTheirOwn ==
    \A card \in Cards :
        handlers = <<>> /\ card \notin unseen =>
            /\ original[card].kind = "http" => src[card] = original[card]
            /\ original[card].kind = "known" /\ page = "home" =>
                  src[card] = Address("logo", card)
=============================================================================
