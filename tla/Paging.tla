------------------------------- MODULE Paging -------------------------------
(***************************************************************************)
(* Pages of a result and the anchors that lead from one to another: what   *)
(* the repository computes, and what the pagers of the sites draw from it. *)
(* An anchor is its label and the page of its address; a disabled one,     *)
(* which takes no click, is left out.                                      *)
(***************************************************************************)
EXTENDS Integers, Sequences, FiniteSets

\* PagedResults.TotalPages: Math.Ceiling(count / size), none without a size.
TotalPages(count, size) ==
    IF size > 0 THEN (count + size - 1) \div size ELSE 0

\* Mutant: the pages are counted from zero.
PageOfFromZero(docs, pageNo, size) ==
    LET skip == pageNo * size
    IN  SubSeq(docs, skip + 1,
               IF skip + size < Len(docs) THEN skip + size ELSE Len(docs))

\* Skip and Limit of MongoRepository.FindAsync, over documents in the order
\* of their ids.
PageOf(docs, pageNo, size) ==
    LET skip == (pageNo - 1) * size
    IN  SubSeq(docs, skip + 1,
               IF skip + size < Len(docs) THEN skip + size ELSE Len(docs))

Anchor(label, page) == [label |-> label, page |-> page]

\* Mutant: the last page offers Next.
TurnsPastEnd(pageNo, totalPages) ==
    {Anchor("First", 1), Anchor("Previous", pageNo - 1)}
        \union {Anchor("Next", pageNo + 1), Anchor("Last", totalPages)}

\* The four anchors of a pager.  First has no page in its address.
Turns(pageNo, totalPages) ==
    (IF pageNo > 1
     THEN {Anchor("First", 1), Anchor("Previous", pageNo - 1)} ELSE {})
    \union
    (IF pageNo < totalPages
     THEN {Anchor("Next", pageNo + 1), Anchor("Last", totalPages)} ELSE {})

\* The React component draws nothing for a single page.
PagerComponent(pageNo, totalPages) ==
    IF totalPages > 1 THEN Turns(pageNo, totalPages) ELSE {}

\* The copy of the component in the older admin site.
OldPagerComponent(pageNo, totalPages) ==
    IF totalPages > 1 THEN Turns(pageNo, totalPages) ELSE {}

\* The public site's component reads the data attributes of its container
\* itself, and no data-base-url: its anchors lead to "/".
SitePager(pageNo, totalPages) ==
    IF totalPages > 1 THEN Turns(pageNo, totalPages) ELSE {}

\* The container of the admin home pages has no data attributes: both numbers
\* are 0.
HomePager    == PagerComponent(0, 0)
OldHomePager == OldPagerComponent(0, 0)

\* The admin list's tag helper draws a pager whatever the number of pages.
PagerTagHelper(pageNo, totalPages) == Turns(pageNo, totalPages)
=============================================================================
