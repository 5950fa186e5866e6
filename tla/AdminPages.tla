----------------------------- MODULE AdminPages -----------------------------
(***************************************************************************)
(* One browser window on the pages of the admin site that act on links,    *)
(* and the site's LinksController behind them.  The window shows the list  *)
(* of links (LinksPage) or one link (LinksDetailsPage).  A click on a page *)
(* calls the server with fetch and goes on; what the server answers is     *)
(* dealt with later, between two other clicks, unless the page has been    *)
(* left by then.  Calls overtake each other, and one may be lost before or *)
(* after the server has carried it out.                                    *)
(*                                                                         *)
(* The server carries out a command in one step, as LinkCommands does for  *)
(* requests that share no link.  A page is loaded in one step too.  An     *)
(* alert or a confirm, which stop the page until they are answered, are    *)
(* part of the step that opens them.                                       *)
(***************************************************************************)
EXTENDS LinkRequests, ApiHelper, FiniteSets

CONSTANTS
    Calls,      \* bound: the calls of one window that are under way at a time
    NoLink,     \* no document has this id; no link is shown
    NoCall

VARIABLES
    store,      \* the links collection: id -> document or NoLink
    page,       \* "list" or "details"
    boxes,      \* SearchLinksForm: the check boxes isActive and isDeleted
    rows,       \* LinksPage: the links in the table
    checked,    \* LinksPage: the rows whose check box is ticked
    deleteDisabled, \* LinksPage: deleteLinksButton.disabled
    shown,      \* LinksDetailsPage: the link
    form,       \* LinkEditForm: its fields and the captions of two buttons
    call,       \* call[c]: a call under way or NoCall
    told        \* what the user was told in the last step

listPage == <<boxes, rows, checked, deleteDisabled>>
detailsPage == <<shown, form>>
window == <<page, listPage, detailsPage>>
vars == <<store, window, call, told>>

Present == {id \in Links : store[id] # NoLink}

NoForm == [isActive |-> FALSE, isDeleted |-> FALSE,
           saysDeactivate |-> FALSE, saysUnDelete |-> FALSE]
\* LinksSearchQueryRequest: what /links without a query asks for.
DefaultBoxes == [isActive |-> FALSE, isDeleted |-> FALSE]

NothingTold == [kind |-> "nothing", ids |-> {}]

\* A step in which no dialog opens.
Quiet == told' = NothingTold

\* A call in the hands of the network: what it asks, what the server has
\* written for it, and whether the page that made it is still there.
Sent(request, command) ==
    [request |-> request, command |-> command, at |-> "sent",
     response |-> Lost, written |-> {}, listening |-> TRUE]

-----------------------------------------------------------------------------
(* Loading a page                                                          *)

\* FindLinksAsync by the check boxes: isFlagged is not looked at.
Matching(filter) ==
    {id \in Present : /\ store[id].isActive = filter.isActive
                      /\ store[id].isDeleted = filter.isDeleted}

\* The calls of a page that is left are still made; nobody listens.
Leave == call' = [c \in Calls |-> IF call[c] = NoCall
                                  THEN NoCall
                                  ELSE [call[c] EXCEPT !.listening = FALSE]]

\* Links() finds #links-list-container: the constructors of LinksPage and
\* SearchLinksForm.
LoadList(filter) ==
    /\ page' = "list"
    /\ boxes' = filter
    /\ rows' = Matching(filter)
    /\ checked' = {}
    /\ deleteDisabled' = TRUE
    /\ shown' = NoLink
    /\ form' = NoForm

\* The constructors of LinksDetailsPage and LinkEditForm: the fields are the
\* data attributes of the form, the captions follow them.
LoadDetails(id) ==
    /\ page' = "details"
    /\ shown' = id
    /\ LET link == store[id]
       IN  form' = [isActive |-> link.isActive, isDeleted |-> link.isDeleted,
                    saysDeactivate |-> link.isActive,
                    saysUnDelete |-> link.isDeleted]
    /\ boxes' = DefaultBoxes
    /\ rows' = {}
    /\ checked' = {}
    /\ deleteDisabled' = TRUE

\* WindowReload.  A link that is gone gives NotFound: the user goes back to
\* the list.
Reload ==
    IF page = "list"
    THEN LoadList(boxes)
    ELSE IF shown \in Present
         THEN LoadDetails(shown)
         ELSE LoadList(DefaultBoxes)

Init ==
    /\ store \in [Links -> {NewLink(title, {}) : title \in Titles}]
    /\ page = "list"
    /\ boxes = DefaultBoxes
    /\ rows = Matching(boxes)
    /\ checked = {}
    /\ deleteDisabled = TRUE
    /\ shown = NoLink
    /\ form = NoForm
    /\ call = [c \in Calls |-> NoCall]
    /\ told = NothingTold

\* SearchLinksForm: the search button takes the check boxes, kept in their
\* value by onChkChanged; the clear button goes to /links with the defaults.
Search ==
    /\ page = "list"
    /\ \E filter \in [isActive : BOOLEAN, isDeleted : BOOLEAN] :
          LoadList(filter)
    /\ Leave
    /\ UNCHANGED store
    /\ Quiet

OpenDetails ==
    /\ page = "list"
    /\ \E id \in rows \intersect Present : LoadDetails(id)
    /\ Leave
    /\ UNCHANGED store
    /\ Quiet

\* The cancel button of the edit form.
Cancel ==
    /\ page = "details"
    /\ Reload
    /\ Leave
    /\ UNCHANGED store
    /\ Quiet

-----------------------------------------------------------------------------
(* LinksPage                                                               *)

\* toggleDeleteButtonDisabledState
DeleteDisabledFor(ticked) == ticked = {}

\* handleOnSingleCheckBoxClicked
ClickCheckBox(id) ==
    /\ page = "list" /\ id \in rows
    /\ checked' = IF id \in checked THEN checked \ {id} ELSE checked \union {id}
    /\ deleteDisabled' = DeleteDisabledFor(checked')
    /\ UNCHANGED <<store, page, boxes, rows, detailsPage, call>>
    /\ Quiet

\* Mutant: the delete button is left as it is.
ClickSelectAllOnly(first) ==
    /\ page = "list" /\ first \in rows
    /\ checked' = IF first \in checked THEN {} ELSE rows
    /\ UNCHANGED <<store, page, boxes, rows, deleteDisabled, detailsPage,
                   call>>
    /\ Quiet

\* handleOnSelectAllCheckboxesClicked: toggleCheckboxes sets every box to what
\* the first one is not.  With no row at all it throws.
ClickSelectAll(first) ==
    /\ page = "list" /\ first \in rows
    /\ checked' = IF first \in checked THEN {} ELSE rows
    /\ deleteDisabled' = DeleteDisabledFor(checked')
    /\ UNCHANGED <<store, page, boxes, rows, detailsPage, call>>
    /\ Quiet

\* Sends a command from the page, over a slot that is free.
Send(request, command) ==
    \E c \in Calls :
        /\ call[c] = NoCall
        /\ call' = [call EXCEPT ![c] = Sent(request, command)]

\* handleOnDeleteButtonClicked, confirmed: deleteLinksAsync.
ClickDeleteLinks ==
    /\ page = "list" /\ ~deleteDisabled
    /\ LET batch == CHOOSE ids \in [1..Cardinality(checked) -> checked] :
                         {ids[i] : i \in DOMAIN ids} = checked
       IN  \E user \in Users :
              Send(Deletes(TRUE),
                   [op |-> "DeleteLinks", ids |-> batch, user |-> user])
    /\ UNCHANGED <<store, window>>
    /\ Quiet

-----------------------------------------------------------------------------
(* LinksDetailsPage: the clicks of LinkEditForm                            *)

\* handleOnActivateClick: the request goes out, and the button shows at once
\* what was asked for.
ClickActivate ==
    /\ page = "details"
    /\ LET isNowActive == ~form.isActive
       IN  /\ \E user \in Users :
                 Send(Post(TRUE), [op |-> "SetActive", ids |-> <<shown>>,
                                   user |-> user, flag |-> isNowActive])
           /\ form' = [form EXCEPT !.isActive = isNowActive,
                                   !.saysDeactivate = isNowActive]
    /\ UNCHANGED <<store, page, listPage, shown>>
    /\ Quiet

\* handleOnDeleteClick: the field is turned at once, the caption is not.
ClickDelete ==
    /\ page = "details"
    /\ LET isNowDeleted == ~form.isDeleted
       IN  /\ \E user \in Users :
                 IF isNowDeleted
                 THEN Send(DeleteWithTwoArguments,
                           [op |-> "Delete", ids |-> <<shown>>, user |-> user])
                 ELSE Send(Post(TRUE),
                           [op |-> "UnDelete", ids |-> <<shown>>,
                            user |-> user])
           /\ form' = [form EXCEPT !.isDeleted = isNowDeleted]
    /\ UNCHANGED <<store, page, listPage, shown>>
    /\ Quiet

\* handleOnSaveClick with a title: validateForm stops it without one.
ClickSave ==
    /\ page = "details"
    /\ \E user \in Users, title \in Titles, names \in SUBSET Names :
          Send(Post(TRUE), [op |-> "Edit", ids |-> <<shown>>, user |-> user,
                            title |-> title, names |-> names])
    /\ UNCHANGED <<store, window>>
    /\ Quiet

-----------------------------------------------------------------------------
(* LinksController                                                         *)

Named(command) == {command.ids[i] : i \in DOMAIN command.ids}

\* What the handlers make of the named links, all of them written.
Performed(command, written) ==
    [id \in Links |-> IF id \in written THEN Perform(command, store[id])
                                        ELSE store[id]]

\* UpdateLinkAsync fails for a link that is missing, and may say so of one
\* that it leaves as it was.
MayBeWritten(command) ==
    {written \in SUBSET (Named(command) \intersect Present) :
        \A id \in Named(command) \ written :
            id \in Present => Perform(command, store[id]) = store[id]}

\* What the controller answers.  Only Deletes answers with data; the handlers
\* of Edit, Delete and UnDelete look only at whether the link was found.
Reply(command, written) ==
    CASE command.op = "DeleteLinks" ->
            IF written = {} THEN Response(FALSE, FALSE, NoData)
                            ELSE Response(TRUE, TRUE, written)
      [] command.op = "SetActive" ->
            Response(written # {}, TRUE, NoData)
      [] OTHER ->
            Response(Named(command) \subseteq Present, TRUE, NoData)

\* [ValidateAntiForgeryToken] refuses a request without the header; its body
\* is JSON and no form.
Serve(c) ==
    /\ call[c] # NoCall /\ call[c].at = "sent"
    /\ LET command == call[c].command
       IN  IF ~call[c].request.hasToken
           THEN /\ call' = [call EXCEPT
                              ![c].at = "answered",
                              ![c].response = Response(FALSE, FALSE, NoData)]
                /\ UNCHANGED store
           ELSE \E written \in MayBeWritten(command) :
                   /\ store' = Performed(command, written)
                   /\ call' = [call EXCEPT
                                 ![c].at = "answered",
                                 ![c].written = written,
                                 ![c].response = Reply(command, written)]
    /\ UNCHANGED window
    /\ Quiet

\* The request or the response is lost: fetch rejects.
Lose(c) ==
    /\ call[c] # NoCall
    /\ call[c].at = "sent" \/ call[c].response # Lost
    /\ call' = [call EXCEPT ![c].at = "answered", ![c].response = Lost]
    /\ UNCHANGED <<store, window>>
    /\ Quiet

\* Somebody else removes a document, or deletes or undeletes the link.
Elsewhere ==
    /\ \E id \in Present, user \in Users :
          \E document \in {NoLink, Deleted(store[id], user),
                           UnDeleted(store[id], user)} :
             store' = [store EXCEPT ![id] = document]
    /\ UNCHANGED <<window, call>>
    /\ Quiet

-----------------------------------------------------------------------------
(* What the pages do with an answer                                        *)

\* onActivateSuccess turns the field that the click has turned already.
AfterActivate == [form EXCEPT !.isActive = ~form.isActive,
                              !.saysDeactivate = ~form.isActive]

\* handleOnDeleteSuccess sets what handleOnUnDeleteSuccess sets.
AfterDelete == [form EXCEPT !.isDeleted = FALSE, !.saysUnDelete = FALSE]

AfterSuccess(op) ==
    CASE op = "SetActive"             -> AfterActivate
      [] op \in {"Delete", "UnDelete"} -> AfterDelete
      [] OTHER                        -> form

\* handleOnEditChanged and onDeleteLinksSuccess: the user is told, and the
\* page is reloaded (on the details page only when the user confirms).
Succeed(c) ==
    LET op == call[c].command.op
    IN  /\ told' = [kind |-> "success",
                    ids |-> IF op = "DeleteLinks" THEN call[c].response.data
                                                  ELSE Named(call[c].command)]
        /\ \/ /\ Reload
              /\ call' = [d \in Calls |->
                            IF d = c \/ call[d] = NoCall
                            THEN NoCall
                            ELSE [call[d] EXCEPT !.listening = FALSE]]
           \/ /\ op # "DeleteLinks"
              /\ form' = AfterSuccess(op)
              /\ call' = [call EXCEPT ![c] = NoCall]
              /\ UNCHANGED <<page, listPage, shown>>

\* The failure callbacks of the details page tell the user and take nothing
\* back.  The one of the list page throws, is called again by the catch of
\* deleteLinksAsync and throws again: nobody is told.
Fail(c) ==
    /\ told' = [kind |-> IF call[c].command.op = "DeleteLinks"
                         THEN "unhandled" ELSE "failure",
                ids |-> Named(call[c].command)]
    /\ call' = [call EXCEPT ![c] = NoCall]
    /\ UNCHANGED window

Settle(c) ==
    /\ call[c] # NoCall /\ call[c].at = "answered"
    /\ IF ~call[c].listening
       THEN /\ call' = [call EXCEPT ![c] = NoCall]
            /\ Quiet
            /\ UNCHANGED window
       ELSE IF ApiRequest(call[c].response).isSuccess THEN Succeed(c)
                                                      ELSE Fail(c)
    /\ UNCHANGED store

-----------------------------------------------------------------------------

User ==
    \/ Search \/ OpenDetails \/ Cancel
    \/ \E id \in Links : ClickCheckBox(id) \/ ClickSelectAll(id)
    \/ ClickDeleteLinks \/ ClickActivate \/ ClickDelete \/ ClickSave

Next ==
    \/ User
    \/ \E c \in Calls : Serve(c) \/ Lose(c) \/ Settle(c)
    \/ Elsewhere

Spec == Init /\ [][Next]_vars

-----------------------------------------------------------------------------

TypeOK ==
    /\ store \in [Links -> Documents \union {NoLink}]
    /\ page \in {"list", "details"}
    /\ boxes \in [isActive : BOOLEAN, isDeleted : BOOLEAN]
    /\ rows \subseteq Links /\ checked \subseteq rows
    /\ deleteDisabled \in BOOLEAN
    /\ shown \in Links \union {NoLink}
    /\ form \in [isActive : BOOLEAN, isDeleted : BOOLEAN,
                 saysDeactivate : BOOLEAN, saysUnDelete : BOOLEAN]

\* Through every click and every late answer the controls agree with what they
\* control: the delete button of the list is disabled exactly while no row is
\* ticked, and the activate button offers the opposite of isActive.
\* (toggleDeleteButtonDisabledState and setActiveButtonState are called by
\* every handler that changes what they follow.)
ControlsAgree ==
    /\ page = "list" => (deleteDisabled <=> checked = {})
    /\ page = "details" => form.saysDeactivate = form.isActive

\* A success the user is told of is one of the server: the call carried the
\* token, and the links the user is told of are exactly those that were
\* written for it, however late the answer.  (Edit and UnDelete answer ok for
\* what was not written, see LinkCommands; apiRequest turns every rejected
\* fetch into a failure.)
ToldMeansDone ==
    [][\A c \in Calls :
          Settle(c) /\ call[c].listening /\ told'.kind = "success" =>
              /\ call[c].request.hasToken
              /\ call[c].command.op \in {"DeleteLinks", "SetActive"} =>
                    told'.ids = call[c].written /\ told'.ids # {}]_vars

-----------------------------------------------------------------------------
(* What the documentation says, and the code does not do.                  *)

\* "Handles both Delete and Undelete actions." (_link-edit-form.ts:111): a
\* delete that the server answers for a link it has leaves the link deleted.
DeleteCallDeletes ==
    [][\A c \in Calls :
          /\ call[c] # NoCall /\ call[c].at = "sent"
          /\ call[c].command.op = "Delete"
          /\ call'[c] # NoCall /\ call'[c].at = "answered"
          /\ call'[c].response # Lost
          => \A id \in Named(call[c].command) \intersect Present :
                store'[id] # NoLink /\ store'[id].isDeleted]_vars
=============================================================================
