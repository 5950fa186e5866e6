---------------------------- MODULE MCAdminSites ----------------------------
(* A browser window on one of the two admin sites, chosen at the start.    *)
(* The sites share no page, no script and no state of a page, and their    *)
(* servers are modelled apart: one of the two moves, the other stands      *)
(* still.  The links and the calls of a window are interchangeable.        *)
EXTENDS AdminPages, OldAdminPages, TLC

VARIABLE site

siteVars == <<vars, oldVars, site>>

SiteInit ==
    /\ site \in {"admin", "older"}
    /\ Init
    /\ OldInit
    /\ site = "admin" => activeShown = TRUE

SiteNext ==
    /\ UNCHANGED site
    /\ \/ site = "admin" /\ Next /\ UNCHANGED oldVars
       \/ site = "older" /\ OldNext /\ UNCHANGED vars

SiteSpec == SiteInit /\ [][SiteNext]_siteVars

\* Both sites take their links and their calls from the same sets.
SiteSymmetry == Permutations(Calls) \union Permutations(Links)
=============================================================================
