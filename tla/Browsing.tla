------------------------------ MODULE Browsing ------------------------------
(***************************************************************************)
(* A user turns the pages of the public site and of the admin list, while  *)
(* links come and go.  A page is built from two answers of the store, the  *)
(* number of matching links and then the links of one page.                *)
(*                                                                         *)
(* A list looks at the state, the title and the domain of a link: a link   *)
(* joins it when it is added, restored, activated or edited, in the middle *)
(* of the order for all but the first, and leaves it in the same ways.     *)
(***************************************************************************)
EXTENDS Paging, SequencesExt

CONSTANTS
    MaxId,      \* bound: the ids of links
    PageSize,   \* the default page size
    MaxSize,    \* bound: a size in a typed address
    MaxPage,    \* bound: a page in a typed address
    NoRequest

ASSUME BrowsingAssumption ==
    /\ MaxId \in Nat /\ PageSize \in Nat \ {0}
    /\ MaxSize \in Nat /\ MaxPage \in Nat

VARIABLES
    matching,   \* the ids a list shows, without a filter and with one
    view,       \* the page the browser shows
    request,    \* the request under way or NoRequest
    walk        \* history: the admin list read from its first page by Next alone

browsingVars == <<matching, view, request, walk>>

Ids == 1 .. MaxId

\* home ("/") and links ("/links") of the public site, adminHome and
\* oldAdminHome of the two admin sites, list ("/links") of the admin site.
Places == {"home", "links", "adminHome", "oldAdminHome", "list"}
Url(place, page, size, filtered) ==
    [place |-> place, page |-> page, size |-> size, filtered |-> filtered]

\* What is typed or clicked: only the list reads a size, only the home pages
\* read nothing.  A filter is a term or a domain of the admin list (the
\* repository does not look at its tags), a tag of the public site's links.
Addresses ==
    {Url(place, 1, PageSize, FALSE) :
        place \in {"home", "adminHome", "oldAdminHome"}}
    \union {Url("links", page, PageSize, filtered) :
               page \in 0 .. MaxPage, filtered \in BOOLEAN}
    \union {Url("list", page, size, filtered) :
               page \in 0 .. MaxPage, size \in (0 .. MaxSize) \union {PageSize},
               filtered \in BOOLEAN}

Matching(url) == matching[url.filtered]

\* The k-th id is the one up to which there are k.
Sorted(ids) ==
    [k \in 1 .. Cardinality(ids) |->
        CHOOSE id \in ids : Cardinality({other \in ids : other <= id}) = k]

-----------------------------------------------------------------------------
(* The pages                                                               *)

\* HomeController.Index takes no page and no filter; neither site's links page
\* lets a page or a size below 1 pass.
Served(url) ==
    CASE url.place = "home"  -> Url("home", 1, PageSize, FALSE)
      [] url.place = "links" -> [url EXCEPT !.size = PageSize]
      [] OTHER -> url

Refused(url) == Served(url).page < 1 \/ Served(url).size < 1

NoList(url) == url.place \in {"adminHome", "oldAdminHome"}

Page(url, total) == [url |-> url, total |-> total]

\* The anchors of the pager on a page.
PagerOn(shown) ==
    LET pages == TotalPages(shown.total, shown.url.size)
    IN  CASE shown.url.place \in {"home", "links"} ->
                SitePager(shown.url.page, pages)
          [] shown.url.place = "adminHome" -> HomePager
          [] shown.url.place = "oldAdminHome" -> OldHomePager
          [] OTHER -> PagerTagHelper(shown.url.page, pages)

\* Where an anchor leads.  The tag helper keeps the path and the query but for
\* page and size; the public pager keeps nothing.
Target(shown, anchor) ==
    IF shown.url.place = "list"
    THEN Url("list", anchor.page, PageSize, shown.url.filtered)
    ELSE Url("home", anchor.page, PageSize, FALSE)

\* A request, and whether it is one for the next page.
Request(url, next) ==
    [url |-> url, next |-> next, at |-> "count", counted |-> {}]

\* The ids a walk has seen in order, those it is owed (they were there at the
\* first page), and those that came late for the page shown last, between its
\* count and its fetch.
NoWalk == [on |-> FALSE, seen |-> <<>>, owed |-> {}, late |-> {}]

Late(shown) == Matching(shown.url) \ request.counted

\* A list page that arrives begins a walk, goes on with it, or ends it.
Walked(next, shown, items) ==
    IF shown.url = Url("list", 1, PageSize, shown.url.filtered)
    THEN [on   |-> TRUE,
          seen |-> items,
          owed |-> (request.counted \intersect Matching(shown.url))
                       \ ToSet(items),
          late |-> Late(shown)]
    ELSE IF next /\ walk.on
         THEN [on   |-> TRUE,
               seen |-> walk.seen \o items,
               owed |-> walk.owed \ ToSet(items),
               late |-> Late(shown)]
         ELSE NoWalk

BrowsingInit ==
    /\ matching \in [BOOLEAN -> SUBSET Ids]
    /\ matching[TRUE] \subseteq matching[FALSE]
    /\ view = Page(Url("adminHome", 1, PageSize, FALSE), 0)
    /\ request = NoRequest
    /\ walk = NoWalk

-----------------------------------------------------------------------------
(* The user                                                                *)

\* A click on an anchor of the pager.  A request under way is given up.
Follow ==
    /\ \E anchor \in PagerOn(view) :
          request' = Request(Target(view, anchor), anchor.label = "Next")
    /\ UNCHANGED <<matching, view, walk>>

\* Any other way to a page: "More", a tag, the menu, a typed address.
Open ==
    /\ \E url \in Addresses : request' = Request(url, FALSE)
    /\ UNCHANGED <<matching, view, walk>>

-----------------------------------------------------------------------------
(* The server                                                              *)

\* Of the links of a page, only the walk keeps a record.
Show(shown, items) ==
    /\ view' = shown
    /\ request' = NoRequest
    /\ walk' = Walked(request.next, shown, items)
    /\ UNCHANGED matching

\* BadRequest; or a page without a list.
ShowNoList ==
    /\ request # NoRequest /\ request.at = "count"
    /\ Refused(request.url) \/ NoList(request.url)
    /\ Show(Page(Url("adminHome", 1, PageSize, FALSE), 0), <<>>)

\* CountDocumentsAsync; no links at all make an empty result at once.
Count ==
    /\ request # NoRequest /\ request.at = "count"
    /\ ~Refused(request.url) /\ ~NoList(request.url)
    /\ LET url == Served(request.url)
       IN  IF Matching(url) = {}
           THEN Show(Page(url, 0), <<>>)
           ELSE /\ request' = [request EXCEPT !.at = "fetch", !.url = url,
                                  !.counted = Matching(url)]
                /\ UNCHANGED <<matching, view, walk>>

\* Collection.FindAsync
Fetch ==
    /\ request # NoRequest /\ request.at = "fetch"
    /\ LET url == request.url
       IN  Show(Page(url, Cardinality(request.counted)),
                PageOf(Sorted(Matching(url)), url.page, url.size))

-----------------------------------------------------------------------------
(* Other users                                                             *)

\* Of ids in order those ahead of one.
Ahead(ids, id) == SubSeq(ids, 1, Cardinality({i \in DOMAIN ids : ids[i] < id}))

\* A link that joins the list moves those behind it, which may be seen again;
\* one that leaves moves those behind it, which may be missed.
Met(id, before, after) ==
    [walk EXCEPT
        !.seen = IF id \in after \ before THEN Ahead(@, id) ELSE @,
        !.owed = IF id \in before \ after THEN {x \in @ : x < id} ELSE @]

\* A link is added, replaced or removed: from now on every list shows it, the
\* list without a filter does, or none.  The id of a link that is added may be
\* smaller than others in the collection, too: it is given before the insert,
\* by the process that inserts.
LinkChanges ==
    \E id \in Ids, showing \in {{}, {FALSE}, BOOLEAN} :
        /\ matching' = [filtered \in BOOLEAN |->
                           IF filtered \in showing
                           THEN matching[filtered] \union {id}
                           ELSE matching[filtered] \ {id}]
        /\ walk' = IF walk.on
                   THEN Met(id, Matching(view.url), matching'[view.url.filtered])
                   ELSE walk
        /\ UNCHANGED <<view, request>>

BrowsingNext ==
    Follow \/ Open \/ ShowNoList \/ Count \/ Fetch \/ LinkChanges

BrowsingSpec == BrowsingInit /\ [][BrowsingNext]_browsingVars

-----------------------------------------------------------------------------

BrowsingTypeOK ==
    /\ matching \in [BOOLEAN -> SUBSET Ids]
    /\ view.url.place \in Places
    /\ view.total \in 0 .. MaxId
    /\ request = NoRequest \/ request.at \in {"count", "fetch"}
    /\ walk.on \in BOOLEAN /\ walk.owed \union walk.late \subseteq Ids

\* Who reads the list from its first page by Next alone sees the links in the
\* order of their ids, and none twice but those behind a link that joined the
\* list after they were seen.  And where there is no Next, every link that was
\* there at the first page has been seen, but those behind one that left and
\* those behind one that came between the count and the fetch of that page.
\* (FindAsync sorts by id, and counts and fetches in two calls; the tag helper
\* keeps the filter from page to page.)
WalkSeesEachOnce ==
    walk.on =>
        /\ \A i, j \in DOMAIN walk.seen : i < j => walk.seen[i] < walk.seen[j]
        /\ \/ \E anchor \in PagerOn(view) : anchor.label = "Next"
           \/ \A id \in walk.owed : \E other \in walk.late : other < id

\* From a page that is one of the pages it counts, every anchor leads to a
\* page that shows links, unless there are fewer links by now than the page
\* was told; and no anchor ever leads to an address that is refused.  (An
\* address typed with a size is left out: its pages are counted by that size,
\* and its anchors lead to pages of the default size.)
AnchorsLeadToLinks ==
    \A anchor \in PagerOn(view) :
        LET url == Served(Target(view, anchor))
        IN  /\ ~Refused(url)
            /\ /\ view.url.size = PageSize
               /\ view.url.page <= TotalPages(view.total, PageSize)
               /\ Cardinality(Matching(url)) >= view.total
               => PageOf(Sorted(Matching(url)), url.page, url.size) # <<>>

=============================================================================
