# Delisc.io: a TLA+ verification project

Delisc.io is a social bookmarking service: users submit links, links are
verified, fetched, tagged and stored in MongoDB; administrators edit, flag,
activate, delete and restore them and manage users and roles on a web site whose
pages call the server from scripts; visitors turn the pages of the public site.
This directory holds TLA+ modules that model the parts of the C# solution and of
its JavaScript and TypeScript in which state changes, TLC configurations that
check them on small instances, and TLAPS proofs of results that hold for every
instance. `PROJECT.json` maps each definition to the lines of source it
translates.

## 1. The system

| Part | State | Operations | Talks to |
|---|---|---|---|
| **Link aggregate** (`Links/Domain/Links/Link.cs`) | one link: title, description, tags, counters, `IsActive`, `IsFlagged`, the soft-delete triple `IsDeleted` / `DeletedById` / `DateDeleted`; domain events | `New`, `Delete`, `UnDelete`, `Edit`, `UpdateTags`, `SetActiveState`, `SetFlaggedState`, `SetLikesCount`, `SetSavesCount`, `Map` to and from the document | tags, command handlers |
| **Link tags** (`Domain/LinkTags`) | a sorted list of (name, count, weight) | `Add` (one, many), `Delete`, the count methods, the merge of `Link.UpdateTags`, conversion to and from the document | aggregate |
| **Link commands** (`Application/Commands/*`, `LinksRepository`, admin `LinksController`) | documents of the links collection; per request the object loaded and the report of a batch | the six handlers: load, change in memory, reread, copy fields, replace | aggregate, Mongo, admin site |
| **Link queries** (`LinksRepository.FindLinksAsync`, `MongoRepository.FindAsync`, `PagedResults`) | none | count, then fetch a page | Mongo, both sites |
| **Link submission** (`LinksManager.SubmitLinkAsync`, `QueuedLinksService`, verifier, harvester, tagger) | links collection; per submission the `QueuedLink` and its state | look up, verify, fetch, tag, add | the web, the links module |
| **Accounts** (`AuthService`, `UserProfilesService`, admin `UsersController`, `RolesController`) | `Auth_Users`, `Auth_Roles`, `User_Profiles`; per request the roles its `AuthService` read | create a user with roles and a profile; show a profile and create a missing one; list roles and create the default ones | ASP.NET Identity, Mongo |
| **Admin pages** (`Deliscio.Web.Admin/wwwroot/tsx`) | one window: the list with its filter, rows, ticks and delete button, or a link's form; the calls under way | search, open, tick, delete a batch, activate, delete, restore, save; what to do with each answer | `LinksController` over fetch |
| **Older admin site** (`ui/admin/mvc/Deliscio.Admin`) | the message panel, the rows, the search boxes; the requests under way | edit and delete a link, delete a batch, search | a controller whose handlers are commented out |
| **Page components** (Bootstrap 5.3.2 sources under `wwwroot/libs` of the older site; `lazyload`, `link-cards`, pagers of the sites) | classes, attributes, queues of callbacks and timers of the elements of a page | show and hide dialogs, slide, fold, switch tabs, toast, load images and videos, draw anchors | the user, transitions, timers, observers |
| **Backlog links**, **User links**, **Queue and worker**, caching, building blocks, tools, consoles | see section 6 | | |

Two kinds of concurrency. On the *server* each HTTP request runs a controller
action and, through MediatR, one handler; handlers of different requests
interleave at every `await`. What they share is MongoDB: a driver call is atomic
on one document, nothing is atomic across calls, there are no transactions and
no version checks, and no unique index is declared. A call may throw before or
after its effect. In a *page* one handler runs at a time, but answers of fetch,
ends of transitions, timers and observer callbacks come between any two of them
and in any order, and the user does not wait.

Hard to test, and therefore what the properties are about:

* load, change, reread, replace in the command handlers, with another request in
  between; the batch delete, which does so once per link and reports on all;
* soft deletion spread over four fields that must agree in every version;
* two submissions of one URL, and a retry after a lost answer; the state of a
  queued link, which one stage overwrites and a later one needs;
* tag names compared in one form and stored in another, over rounds of saving;
* a user whose roles or profile fail after the user has been stored, and a
  profile page that creates the profile at the same time; default roles created
  by several pages at once, results ignored;
* a page of results made of two reads with writers in between;
* answers that overtake each other, are lost, or reach a page that was left;
  controls turned before the answer is there; one panel written by two scripts;
* callbacks queued behind a transition that the user does not wait for; one saved
  value shared by all dialogs of a page; timers set over timers.

`PROJECT.json` lists these one by one ("hazards") with the property that covers
each, or the reason why none does.

## 2. The modules

Server:

| Module | Models | EXTENDS / INSTANCE |
|---|---|---|
| `LinkTags` | the tag list as pure operators on sequences: constructor with sort and weights, `Add`, `Delete`, `MergeTags`, `ToEntities` | `SequencesExt` |
| `LinkTagCollection` | a link's collection as a state machine: every call, and a save and load | `LinkTags` |
| `Link` | the `Link` methods as pure operators on a record | |
| `LinkAggregate` | one `Link` object with its events: any sequence of method calls and saves | `Link`, `LinkTags` |
| `LinkRequests` | what the admin controller can ask for, the documents, and what a command does to one | `Link` |
| `AtomicLinks` | **abstract**: each command acts on a stored document in one step | `LinkRequests` |
| `LinkCommands` | **detailed**: the handlers, call by call, with faults and removals | `LinkRequests`; `Atomic == INSTANCE AtomicLinks WITH ...` |
| `LinkSubmission` | submissions through verifier, harvester and tagger | |
| `Accounts` | creating users, showing profiles, listing roles | |

Pages:

| Module | Models | EXTENDS |
|---|---|---|
| `Paging` | pure: what `FindAsync` and `PagedResults` compute and what four pagers draw of it | |
| `Browsing` | a user turning pages while links join and leave the list, also between count and fetch | `Paging` |
| `ApiHelper` | pure: what `apiRequest` makes of an answer, and what each wrapper sends | |
| `AdminPages` | one window of the admin site with its calls, and `LinksController` behind it | `LinkRequests`, `ApiHelper` |
| `OldAdminPages` | the older admin site's pages for links | |
| `Dialogs` | modals and offcanvas panels, their backdrops, focus traps and the scroll bar they share | |
| `Carousel`, `Collapse`, `Tabs`, `Toast` | the Bootstrap component of that name | |
| `LazyLoading` | `LazyLoadImage` and `LazyLoadVideo` with their observers | |
| `CardImages` | the images of the link cards, over the page's start scripts and the observer | |

`MC*` modules give constants and put modules that share nothing into one run:
`MCLinkObject` (`LinkAggregate`, `LinkTagCollection`), `MCAdminSites` (`AdminPages`,
`OldAdminPages`), `MCPageScripts` (the page components). In these one part,
chosen at the start, moves and the others stand still.

Theorems are in modules of their own: `LinkObject_proofs` (`LinkAggregate`, `LinkTagCollection`), `LinkCommands_proofs`,
`PublicSite_proofs` (`LinkSubmission`, `Browsing`), `Accounts_proofs`, `AdminSites_proofs` (`AdminPages`, `OldAdminPages`),
`PageScripts_proofs` (`Carousel`, `Tabs`, `LazyLoading`, `CardImages`, `Collapse`), `Dialogs_proofs`, and `FoldTheorems`, the lemmas on numbers and folds
that the others share.

### How state and actions correspond to the code

**LinkTags / LinkTagCollection.** A tag is a record [name, count, weight]; a name
is a natural number, and `Dashed` maps a name to the name the document gets:
`LinkTagEntity` replaces every `/` by `-`, so that in the runs name 2 is
`a/b` and name 1 is `a-b`. Weights are in thousandths, rounded to the nearest with
ties to the even one, as `decimal.Round(..., 3)` does. Sorting is by name and stable,
as in the constructor; a weight is recalculated by the calls that recalculate it and is
stale in between, as `LinkTag`'s own methods leave it.

**Link / LinkAggregate.** Each method is an operator from the old object to the
new one, early returns included: `Edit`, `SetActiveState` and `SetFlaggedState`
give the object back unchanged when it is deleted. Title and description are one
value, dates are set or not set. Events are collected and dropped on save, as
nothing dispatches them.

**LinkRequests / LinkCommands.** The tags of a link are the set of their names here,
and `MergeNames` is what `MergeKeepsNamedAndLast` shows of the merged list.
`pc[r]` is the call a handler waits for, `command[r]` what it was asked, `ids[r]` the
links still to do, `copy[r]` the object it loaded and changed, `deletedIds[r]` what
`DeleteLinks` has collected, `reply[r]` its last answer. `Begin` and `Refuse` are the
controller action with its early returns, `GetLink` loads and changes the object,
`Reread` is the first half of `UpdateLinkAsync`, `Replace` its last call, `Fault` an
exception in any of them (a replacement may have happened all the same), `Remove` takes a
document out of the collection, as the repository can. `NextLink` and `Finish` are the
loop of `DeleteLinks` and the answer. `Updated` has the one difference between
handlers that matters: `SetActiveState`, `SetFlaggedState` and `DeleteLinks` look
at the result of the update, `Edit`, `Delete` and `UnDelete` do not.

**LinkSubmission.** `state[s]` is `QueuedLink.State`, with the intermediate states
that no other process can see left out; `links[u]` counts the documents with a
URL. The order of the verifier (exists, banned host, protocol), the state that
tagging overwrites and `ProcessNewLinkAsync` restores, and every way out of the
harvester are kept. The links module behind MediatR is external: its handlers
need an `ILinksService` the repository no longer implements.

**Accounts.** `page[r]` is what a request is doing: the call it waits for, the
form, the user it is about, the roles left to assign or to create, and
`AuthService._availableRoles` as the constructor read it. One action per await,
except that `FindByIdAsync` and `AddToRoleAsync` of one round of the loop are one
action (no role is ever removed) and that the two reads of `GetUserAsync` are
one (nothing else changes that user's roles while it matters). ASP.NET Identity is
external: it finds, inserts and refuses. `RoleManager.CreateAsync` refuses only a name it
finds; `UserManager.CreateAsync` may refuse for any reason. The pages require the
Admin role; that the role store can be empty while an administrator is signed in
follows from the cookie, which carries the role for 30 days.

**Paging / Browsing.** `PageOf`, the totals and the anchors are the arithmetic of
`MongoRepository.FindAsync`, `PagedResults` and the four pagers (the tag helper of the admin
list, the React component of the public site, and its copies on the home pages of the two
admin sites, which read no numbers there and draw for 0 pages), each with the anchors it
draws at either end. `Browsing` keeps a user's place, the page
asked for and what the first of the two reads gave. `matching` is what a list shows, without a filter and
with one, which shows less: term and domain on the admin list, a tag on the public site; `FindLinksAsync`
ignores tags, `IsFlagged` and offset, and so does the model. The repository's filter looks at the state, the title and the
domain of a link, which change; `LinkChanges` is any change after which the lists show a link or do not: an insert, a
replacement or a removal. The id may stand anywhere in the order. `walk` is a history: what a reader who pages on by
Next has seen, is owed, and what came too late to be counted; `Met` says what a change takes out of it.

**ApiHelper / AdminPages.** `call[c]` is a request in the hands of the network: what
it asks, whether it carries the token, what the server wrote for it and answered, and
whether the page that made it is still there to listen. `Serve` is the controller,
which refuses a request without the header; it carries a command out in one step, as
`LinkCommands` does for requests that share no link. `Lose` loses a request or an
answer. `Settle` is everything from `apiRequest` to the callback of the page,
alerts and the reload included. The clicks are the handlers of the two pages.
`Elsewhere` is another user. Scripts' habits are kept: a failure takes back nothing, a
success turns the field again, the list's failure callback throws.

**OldAdminPages.** `panel` is the class list of `#message` (`.hide` wins over
`.show`, as in the style sheet), `oldCall[c]` a request under way. The answers are free
(part or all of a batch, an edit without a message, an error), since the handlers
behind the controller are commented out. `panelText` is the wording, and `written`, a history, the outcome for which a handler
wrote it: the two differ, as the answer to a delete always says that the link was deleted, and the page
of an edit says "successfully saved" when an answer has no message.

**Dialogs, Carousel, Collapse, Tabs, Toast.** The state of a component is what its
instance and its element keep: classes, `_isShown`, `_isTransitioning`, `_interval`,
timers, and the callbacks that `executeAfterTransition` has queued at an element. One
end of a transition runs everything queued there, because every handler listens to the same event.
Calls are made by the data API (clicks, keys) and by scripts.
In `Collapse` the history `together` records the panels that were opened within one another's transition: a panel in
transition has `collapsing` and not `collapse`, so that `.collapse.show, .collapse.collapsing` does not find it, and the
check of `show` for a sibling in transition (kept in `ShowPanel`) never holds.
`Dialogs` composes `Modal`, `Offcanvas`, `Backdrop`, `FocusTrap` and `ScrollBarHelper`
over one body.

**LazyLoading, CardImages.** Every call makes an observer of its own; what may happen
again is stopped by the data attributes alone. `CardImages` runs the start scripts in the order
in which they were registered, then lets images enter the window in any order; the address that
lives on from one turn of the loop to the next is a field of the state.

## 3. The runs

Every configuration finishes in under three minutes with two workers.

| Run | Instance | Shows |
|---|---|---|
| `link_object` | a `Link` with 2 users, 3 tag names of which two are one when stored, counts 0 and 1, at most 2 events before a save; or a collection of at most 3 tags, counts to 2, batches to 2 | `DeletionFieldsAgree`, `EventsTellHistory`, `DeletedLinkFrozen`; `CleanNamesDistinct`, `RoundTripSettles`, `WeightsFollowCounts`, `MergeKeepsNamedAndLast` |
| `commands_overlap` | 2 requests, 1 link, 2 users (symmetric), 1 title, 1 tag name, all six commands, batches that name the link up to twice | `TypeOK`, `Inv`, `RemovedStaysRemoved`, `ReportedAreDeleted`, `CheckedOkMeansWritten` |
| `commands_disjoint` | 2 requests, one over 2 links and one over a third, 1 user, no tags, `Edit`, `UnDelete`, `SetActive` and `DeleteLinks` of up to 2, with fairness | `CopiesCurrent`, the refinement `AtomicSpec`, `DeletedFrozen`, `EveryCommandAnswered` |
| `submission_own` | 2 clients, 4 URLs, one banned and one with a bad protocol, with fairness | `UniqueInv`, `UnwantedNeverAdded`, `EverySubmissionAnswered` |
| `accounts` | 2 requests, 2 ids, 3 names, 3 emails, 4 forms, with fairness | `AccountsInv`, `UniqueInv`, `CreatedIsComplete`, `RolesAnswered`, `EveryPageAnswered` |
| `admin_sites` | 2 links, 2 calls under way, on either site (links and calls symmetric) | `ControlsAgree`, `ToldMeansDone`; `VisiblePanelAgrees`, `StruckRowsDeleted` |
| `browsing` | at most 4 links, any of them found by the filter, 2 to a page, 5 places, typed addresses of page 0 or 1 and of size 0 or the default | `WalkSeesEachOnce`, `AnchorsLeadToLinks` |
| `page_scripts` | 2 modals and 2 offcanvas panels; 3 carousel items; 4 panels and 5 triggers; 4 tabs, one disabled and one that does not fade; 3 shows of a toast; 2 images, 2 videos, 2 calls; 4 cards | `BodyRestored`, `ShownSettles`, `TransitionsEnd`; `ActiveAgrees`, `JumpsServed`; `PanelsAgree`; `PanelsSettle`; `ToastLeaves`; `OneVideoEach`; `CardsShowTheirOwn` |
| `tags_removed`, `commands_edit_deleted`, `submission_shared`, `admin_delete` | as above, smaller where that suffices | the divergences of section 5, one property each |

Why the bounds are enough. The tag operators look at names only for equality and
at counts only through sums and order; three names give every pattern of an equal, an
equal-when-stored and a different name, and `MergeTags`, whose loop stops one
short, has its edge cases at zero to three tags. Interference between handlers is
pairwise: a handler can only be disturbed between its load and its replacement, and a
second handler that repeats covers everything several others could write there; the
theorems then remove the bound. In `commands_disjoint` a batch has two links and its
neighbour one. The submission and account properties speak of one URL, or of two users,
so two actors exhibit them; the ids of `accounts` suffice because the forms of one client
share a name or an email, so that each client can get at most one user stored. Two calls are
enough for one to overtake the other, and the controls of a page depend on one answer at a time;
again the theorems remove the bound. Four links at two to a page are two pages, with the first, the full and the partly filled
last one, and a page past the end, which Next reaches when links leave; a middle page is left to
the theorems. Of dialogs two of each
kind are enough to open one over one another of either kind, and with `MaxQueue` two callbacks
of the same kind wait at an element; a carousel of three items has a next that is not also the
previous, and three handlers wait while a fourth could only repeat one of them.

**Fairness.** `LinkCommands`, `LinkSubmission` and `Accounts` state weak fairness of
each request's own `Step`, and of nothing else: the code awaits calls of the
MongoDB driver, which time out, and of an `HttpClient` with a timeout of ten
seconds, so a call under way always ends. `Fault` is a way for it to end, and new
requests and removals are never assumed to come. For the page components weak fairness holds of
the end of a transition (`DialogsFairness`, `Slid`, `ToastTransitionEnd`) and of a timer that
runs (`ToastTimeout`): `executeAfterTransition` sets a timer that dispatches
`transitionend` when the browser gives none, and `setTimeout` fires. Clicks, the mouse
and the interval of a carousel are never assumed to come. `AdminPages` and
`Browsing` claim no liveness: an answer may never come.

**Deadlock** is checked in every run but `page_scripts`: a request that is idle can
always begin again, an object can always be saved, a page can always be left. A page whose start
scripts have run and whose images are loaded has nothing left to do.

**Refinement.** `LinkCommands` implements `AtomicLinks` for requests that share no link:
`store` maps to `store`, and the command of a request is pending in the abstract
specification from `Begin` until the replacement of its object. Checked by `commands_disjoint`, and proved.

## 4. What is proved

TLAPS checks the following for every value of the constants: every invariant and every action property of the passing
runs, and the refinement, is a theorem. Eight modules hold theorems and the lemmas they rest on.

*One link* (`LinkObject_proofs`, about `LinkAggregate` and `LinkTagCollection`).

* `DeletionAgrees` and `DeletedStays` come from an invariant that says in which of two ways the soft-delete fields
  of a link can be set (`DeletedBySomebody`, `NotDeleted`), and one lemma per method: what it makes of such a link
  is one again, and of a link that was and is deleted only the tags differ.
* `EventsTell`, from `EventsInv`: each call appends at most one event, or a save drops them all, and an event that is
  appended begins where the last one of its counter ended.
* The tags of a list (`TagsInv`, the list is one of tags and `CleanOnce`): `NamesStayDistinct` goes through every call. A call on many
  names is a fold, and the proof follows it entry by entry: an added name is new, a deleted one takes places away, sorting is a
  bijection of places (the place of an entry is its rank, and ranks are shown to be all different), a save keeps the places
  and changes no name that is stored as it is.
* `TagsSettle`: the list of a first round trip is sorted, its names are stored as they are, its weights are a function of
  its counts, so that a second has nothing left to do.
* `WeightsAreRight`: rounding misses a share by half a thousandth at most (`RoundedShareIs`, from division with
  remainder), and the sum of n weights by n halves, by induction along the sums of the first k entries.
* `MergeKeepsTags`: the loop of `MergeTags` keeps, at each step, the tags that the caller names or that it has not come to yet
  (`Picks` and `Left` of `LinkObject_proofs`), each at the place that counts those before it.

*LinkCommands* (`LinkCommands_proofs`). `TypeCorrect`; `DocumentsConsistent`: no
stored document mixes the soft-delete fields of two versions. It
is not inductive on stored documents alone, since a handler writes an object it loaded
long ago; `Inv` therefore also says that every object in a handler's hands is consistent and
that a handler that waits for the replacement has one. `RemovalIsFinal`,
`CheckedAnswersAreTrue` and `ReportIsTrue` are action properties that follow from it.
The results on atomicity in the same module assume `Disjoint`: no two
requests have a link in common. Without it they are false, as
`commands_edit_deleted` shows. `CopiesStayCurrent`: the object a handler holds is
what its command makes of the document as it is stored now. With it, each step is
shown to be a step of `AtomicLinks` or a stutter
(`DisjointRequestsAreAtomic`), the replacement being the step that acts. `DeletedStaysFrozen`
is a property of `AtomicLinks` carried over by this result.

*Submissions and pages of links* (`PublicSite_proofs`, about `LinkSubmission` and `Browsing`).

* `TypeCorrect`; `UniqueWhenAlone`, if no two clients share a URL, by `UniqueInv`: a submission past its lookup still has no
  document; `UnwantedStaysOut`, shared URLs included.
* `WalksSeeEachOnce` speaks of ranks. The rank of an id is the number of matching ids up to it; `Sorted` puts each id at its rank, and a
  page shows the ids of its ranks (`PageIs`). Links join and leave anywhere, and with them the ranks move, but only of the ids behind
  them (`RankStays`), up for one that joins and down for one that leaves (`RankGrows`). `BrowsingInv` therefore speaks of ranks as they are
  now: an id that was seen has one up to the end of the page shown, an id that is owed has one beyond it, and there is a further page
  for what is owed, but for what stands behind an id that came too late to be counted. For a request under way it says that a Next of the walk asks for the next page with the same
  filter and has counted all that is owed. What joins behind an id that was seen leaves its rank, what joins before it takes it out of
  what must not come again; what leaves is the other way round for what is owed (`MetKeeps`). A page without Next ends at or after the total
  (`TotalIs`), so nothing is owed but what came late.
* `AnchorsAlwaysLead`: by `TotalIs` a page up to the last begins before the end of what was counted.
* `BrowsingTypes` (`BrowsingTypeOK`) follows from `BrowsingInv`; no run repeats it.

*Accounts* (`Accounts_proofs`). `TypeCorrect`, which has to be proved together with
`UsersStayKnown`, because granting a role to a user that is not there would not have
a type. `AccountsConsistent`: profiles have users, users have stored roles, by an
induction that also needs that two requests never create the same user
(`CreatedAlone`) and that what a page has read or created of the roles stays there
(`RolesStayThere`). `NamesUniqueWhenAlone`, if no two requests ask for
the same name or email (`Disjoint`), by `FreeStaysFree`. `CreatedUsersAreComplete`
and `RolesAreAnswered` follow from `AccountsConsistent`.

*The admin sites* (`AdminSites_proofs`). `ControlsFollow` is inductive once the form is known to be a
record. `SuccessIsDone` needs `CallsInv`: a call that has been answered, and whose answer has not
been lost, carries what the controller says of what it wrote for this call. The invariant holds through
lost and overtaken answers because the page changes nothing of a call but whether it listens; the theorem then
runs an answer through `ApiRequest`. On the older site `PanelAgrees` is inductive as it stands: each handler ends with the
panel out of sight or with the classes of the outcome it wrote for, whatever its words. `StruckAreDeleted` needs that what a
request reports as done has been deleted, also while its answer is on the way.

*Scripts of a page* (`PageScripts_proofs`). `ItemAgrees` (carousel) is inductive as it stands, for any length
and any number of waiting handlers. `PanelsFollowTabs` needs `WaitingSettles`: the last callback that waits at a panel
agrees with its tab. `OneVideo` needs that an empty `data-id` never becomes one. `CardsShow` (`CardsInv`) follows the loop of
`LinkCards` from card to card: after each run an image with an address of its own carries that or, on the home page and once, its logo's.
`PanelsStayInAgreement` (`CollapseInv`) folds over the panels of a trigger: a call that shows a panel closes every panel that is shown, so that only those that are opening stay beside it (`Paired`), and
the history records these at once; without a
parent an opening panel already has its instance, so that no constructor takes it for a closed one and undoes its trigger.

*Dialogs* (`Dialogs_proofs`). `ScreensStayGood` is the invariant `GoodScreens`. A modal is in one of six phases, told by its flags and by which callbacks
wait at which of its elements; a panel may be called at any time, and of its callbacks the last decides. The rest is about the body: `ScrollBarHelper`
saves one value whatever the number of dialogs, and a second hide over a hidden body saves "hidden". The invariant shows why the page gets its
scrolling back all the same: the helper counts to two. Overflow is hidden only while somebody holds the body (a dialog that is shown, or a
callback that waits to reset it), and a value is saved only while two do, so the last to let go finds nothing saved and
takes the style away. `PageRestored` and `DialogsSettle` follow.

*Induction over data.* No installed prover can instantiate the library's induction rules, which take an operator.
`FoldTheorems` therefore states its own without one: a set stands where a rule has a predicate (`NumbersInduction`, `UpToInduction`,
`IndicesInduction`), and a function where it has a step (`FoldExists`, `FoldLeftExists`: `MapThenFoldSet` and `FoldLeft`
of the community modules are what their equations say). They rest on the library's well-foundedness of inclusion among finite sets.
With them the theorems above hold for lists of any length. `SelectSeq` and `SortSeq` have no definition the provers know; where a proof needs a
sorted or filtered list the model says by rank or by place what it is (`Sorted` and `Ahead` in `Browsing`, the sort of `LinkTags`, `MergeKeeps`).

*Assumptions.* Those on constants only say that the constants have the right shape, and that `NoUser`, `NoLink`
and `None` are not among the values they stand apart from. A page size is at least 1, as in the code.
The bounds (`MaxBatch`, `MaxEvents`, `MaxTags`, `MaxId`, `MaxDeferred`, `MaxQueue`, `MaxPending`, `MaxCalls` and the like) may be any numbers;
that of `LinkTagCollection` and `Browsing` have to be numbers (`BoundsAssumption`, `BrowsingAssumption`).

**Only model-checked**: liveness (`EveryCommandAnswered`, `EverySubmissionAnswered`, `EveryPageAnswered`, `TransitionsEnd`,
`JumpsServed`, `ToastLeaves`), because the prover does not handle fairness and ENABLED; and the violations of section 5, which are
counterexamples. `Toast` alone has no theorem: what it promises is liveness.

## 5. Where code and text disagree

Each of these has a run in which TLC finds the violation.

1. `Link.MergeTags` never removes the last tag (`Link.cs:309`), against the doc of `UpdateTags`.
2. An edit that loaded a link before its deletion writes over the deletion (`LinksRepository.cs:350`).
3. Two submissions of one URL store it twice (`LinksManager.cs:207`), after which its lookup fails.
4. The delete button of the admin site's details page never deletes: the token is passed as the body
   (`api-helpers-async.ts:171`).

Read off the code, and modelled as the code has them, without a run of their own.

Server:

* A tag whose name contains `/` is stored under another name than it is compared by
  (`LinkTagEntity.cs:39`), so `Add` doubles it; `CleanNamesDistinct` says what remains.
* `LinkTagCollection.AddTag` neither adds nor counts a tag that is there; the increment is commented out
  (`LinkTagCollection.cs:157`), while the docs of `Add` (`LinkTagCollection.cs:38`, `:57`) and a test's comment
  (`LinkTagCollectionTests.cs:144`) say that the count is incremented. `MergeKeepsNamedAndLast` says nothing of counts.
* `Edit`, `Delete` and `UnDelete` answer Ok when the update failed (`DeleteLinkCommandHandler.cs:34`).
* Activating a deleted link does nothing and is acknowledged (`Link.cs:249`, `LinksController.cs:148`); the event of
  an activation change carries a constant `true` (`Link.cs:259`); domain events have no dispatcher that is called.
* "Could not create the user" (`UsersController.cs:122`) is the answer when the user has been created;
  a retry is refused. The profile page creates a missing profile and answers BadRequest (`UsersController.cs:95-102`).
* Default roles are created only when there are none, so that an interruption after "Admin" leaves "User" missing
  (`AuthService.cs:363-371`).
* `FindLinksAsync` ignores the tags, the flag and the offset it is given.
* A link that is restored, activated or edited comes back to a list with its old id: who pages on sees a link of the page before
  again. One that leaves makes the reader miss a link, and one that joins between the count and the fetch of a page can make
  that page, though links follow, the last (`MongoRepository.cs:112`, `LinksRepository.cs:66`). Ids are given before the insert
  (`Link.cs:129`), so an added one need not be the largest either.

Pages:

* After an activation that succeeded, `isActive` of the form is turned a second time, so that field and button offer the
  state the link already has until the page is loaded again; after one that failed nothing is taken back. After a delete
  that failed the field stays `true`, so the next click restores instead.
* The failure callback of the admin list throws, twice: nobody is told. "Select all" throws on an empty list.
* The anchors of the public home page's pager lead to `/?page=n`, and `HomeController.Index` takes no page.
* On the older site "Unable to delete the link" is written into a panel that keeps the class `hide`
  (`link-delete.mjs:71`); its search boxes, once ticked, add an `undefined` id to a batch; a change of a
  box sets its value to false whatever the tick.
* On the older site a red panel may say that the link was deleted or saved: the controller's answer to a delete always carries "was
  deleted" (`LinksController.cs:148`), and a failed edit without a message is told as saved (`link-edit.mjs:132`).
* Two quick clicks open two panels of an accordion: `collapse.js:42` looks for `.collapse.collapsing`, and a panel in
  transition has lost `collapse`.
* An offcanvas panel hidden before it has opened sets its focus trap after `hide` has deactivated it, and keeps it (`offcanvas.js:117`);
  `BodyRestored` leaves the traps of panels out. A trap takes the listeners of all traps away (`focustrap.js:71`):
  `ShownSettles` speaks of a trap's own flag.
* In an accordion a trigger may stay marked as collapsed while its panel opens. A toast's second timer replaces the known one
  and leaves it running; a show during the fade-out is undone by it. A modal shown again while its backdrop fades out has none.
* A video's frame has no title, and a thumbnail without sizes gets width and height 0.

## 6. Not modelled

* **Backlog links**: called by the CSV importer alone, one call after the other; nothing interleaves. **User links**: one
  insert that reads nothing, and reads.
* **Queue and worker**: bypassed by `SubmitLinkAsync`, and the consumer throws on every message
  (`AddNewQueuedLinkConsumer.cs:31`). **Links MediatR**: handlers that forward to an interface without implementation.
* Sign-in and passwords (ASP.NET Identity's own), views, hosting configuration, one-off import tools, consoles, the React studies,
  and the Redis wrapper, which keeps no state of its own.
* Of Bootstrap: tooltips, popovers and dropdowns (their work is Popper's geometry), scrollspy, alerts, buttons, and the registries of events and data.
  The sources that are modelled are third-party code kept in the repository; the pages of the older
  site load a build of version 5.2.3 from a CDN. They are modelled because the scripts of the pages rest on them.
* `LazyLoading` and `CardImages` model code that is there but idle today: no page calls the two functions, the rendered cards carry
  no `data-src`, and the page of links loads no bundle.
* In `AdminPages`: the meta panel and the wording of alerts and questions, and the pages that show users and the home
  page's scripts.

## 7. Running it

    tlc -workers 2 -config LinkCommands_overlap.cfg MCLinkCommands
    tlc -workers 2 -config AdminSites.cfg MCAdminSites
    tlapm LinkCommands_proofs.tla
    tlapm PublicSite_proofs.tla

`PROJECT.json` names the module and the configuration of every run, and for each property a mutant of the
code under which TLC finds the property violated (the definitions marked "Mutant" in the modules).
