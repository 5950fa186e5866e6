---------------------------- MODULE LazyLoading ----------------------------
(***************************************************************************)
(* LazyLoadImage and LazyLoadVideo of the admin site: every call makes an  *)
(* observer of its own for the elements it finds.  The browser tells an    *)
(* observer when one of its elements enters the window; calls, those       *)
(* callbacks and the clicks on covers come in any order.  What may be done *)
(* again is stopped by the data attributes alone, which the first observer *)
(* strips.  Sizes, css classes and the text of the addresses are left out; *)
(* a browser without IntersectionObserver too.                             *)
(*                                                                         *)
(* No page of the repository calls the two functions yet.                  *)
(***************************************************************************)
EXTENDS Naturals, Sequences

CONSTANTS
    Images,     \* the img elements with the class lazy
    Videos,     \* the div elements with the class lazy-video
    Blank,      \* those of either with an empty data-src or data-id
    MaxCalls    \* bound: the calls of each function

LazyElements == Images \union Videos

ASSUME LazyAssumption ==
    /\ Images \intersect Videos = {}
    /\ Blank \subseteq LazyElements
    /\ MaxCalls \in Nat

VARIABLES
    dataset,    \* the elements that have their data attributes
    loaded,     \* the images with a src: they have lost the class lazy
    content,    \* what each div holds: covers, and frames that play
    observed,   \* <<observer, element>>: one observer for each call
    calls       \* how often each function was called

lazyVars == <<dataset, loaded, content, observed, calls>>

LazyInit ==
    /\ dataset = LazyElements \ Blank
    /\ loaded = {}
    /\ content = [video \in Videos |-> <<>>]
    /\ observed = {}
    /\ calls = [image |-> 0, video |-> 0]

LazyLoadImage ==
    /\ calls.image < MaxCalls
    /\ calls' = [calls EXCEPT !.image = @ + 1]
    /\ observed' = observed \union ({calls.image} \X (Images \ loaded))
    /\ UNCHANGED <<dataset, loaded, content>>

LazyLoadVideo ==
    /\ calls.video < MaxCalls
    /\ calls' = [calls EXCEPT !.video = @ + 1]
    /\ observed' = observed \union ({calls.video} \X Videos)
    /\ UNCHANGED <<dataset, loaded, content>>

\* Mutant: only images lose their attributes.
StripImagesOnly(element) == dataset \ ({element} \intersect Images)

StripDataAttributes(element) == dataset \ {element}

\* lazyLoadImage; the observer lets go of the image whatever it had.
ImageEnters ==
    \E image \in Images, observer \in 0 .. MaxCalls - 1 :
        /\ <<observer, image>> \in observed
        /\ observed' = observed \ {<<observer, image>>}
        /\ IF image \in dataset
           THEN /\ loaded' = loaded \union {image}
                /\ dataset' = StripDataAttributes(image)
           ELSE UNCHANGED <<loaded, dataset>>
        /\ UNCHANGED <<content, calls>>

\* startLazyLoadVideoMode: a cover is put into the div.
VideoEnters ==
    \E video \in Videos, observer \in 0 .. MaxCalls - 1 :
        /\ <<observer, video>> \in observed
        /\ observed' = observed \ {<<observer, video>>}
        /\ IF video \in dataset
           THEN /\ content' = [content EXCEPT ![video] = Append(@, "cover")]
                /\ dataset' = StripDataAttributes(video)
           ELSE UNCHANGED <<content, dataset>>
        /\ UNCHANGED <<loaded, calls>>

\* setVideoIframe: the cover that was clicked is replaced.
ClickCover ==
    \E video \in Videos : \E i \in DOMAIN content[video] :
        /\ content[video][i] = "cover"
        /\ content' = [content EXCEPT ![video][i] = "frame"]
        /\ UNCHANGED <<dataset, loaded, observed, calls>>

LazyNext ==
    \/ LazyLoadImage \/ LazyLoadVideo
    \/ ImageEnters \/ VideoEnters \/ ClickCover

LazySpec == LazyInit /\ [][LazyNext]_lazyVars

-----------------------------------------------------------------------------

\* However often LazyLoadVideo is called and however its observers and the
\* clicks mix, a div gets one cover at most and plays one video at most: the
\* observer that comes second finds no data-id.
OneVideoEach ==
    \A video \in Videos :
        /\ Len(content[video]) <= 1
        /\ (content[video] = <<>>) <=> (video \in dataset \union Blank)
=============================================================================
