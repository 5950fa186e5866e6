--------------------------- MODULE OldAdminPages ---------------------------
(***************************************************************************)
(* The older admin site: the page of one link, where DeleteLink and        *)
(* EditLink each send a request and both write into one message panel, and *)
(* the list of links, where DeleteLinks sends a batch and SearchLinks      *)
(* builds the address of the next list.  Answers come back between clicks, *)
(* in any order.                                                           *)
(*                                                                         *)
(* The handlers behind this site's controller are not in the repository    *)
(* any more (they are commented out): a link is deleted or not, and an     *)
(* edit succeeds or fails, with a message, an empty one or none.  The      *)
(* answer to DeleteLink has the same text, "was deleted", for both.        *)
(***************************************************************************)
EXTENDS FiniteSets

CONSTANTS
    OldLinks,
    OldCalls,   \* bound: the requests of the window under way at a time
    NoOldCall

VARIABLES
    deleted,    \* the links the server has deleted
    oldPage,    \* "list", or the link whose page is shown
    panel,      \* #message: its classes
    panelText,  \* #message: what its text says, true or not
    written,    \* history: the outcome of what #message was last written for
    activeShown,\* EditLink: isLinkActive, the field and the caption with it
    ticked,     \* DeleteLinks: the rows whose check box is ticked
    struck,     \* DeleteLinks: the rows struck through
    filterBoxes,\* SearchLinks: each box's tick and value
    oldCall     \* oldCall[c]: a request under way or NoOldCall

message == <<panel, panelText, written>>

oldVars == <<deleted, oldPage, message, activeShown, ticked, struck,
             filterBoxes, oldCall>>

Classes == {"hide", "show", "alert-success", "alert-danger"}
Says == {"nothing", "success", "failure"}
Boxes == {"isActive", "isFlagged", "isDeleted"}

\* .hide follows .show in the style sheet, and both are !important.
Visible == "show" \in panel /\ "hide" \notin panel

\* An id that is not one: the data-id of a check box of the search form.
NoId == "undefined"

OldRequest(op, ids) == [op |-> op, ids |-> ids, answer |-> "none",
                        done |-> {}, listening |-> TRUE]

\* The classes and the text of the message panel, for an outcome.
Write(classes, text, result) ==
    panel' = classes /\ panelText' = text /\ written' = result

-----------------------------------------------------------------------------
(* Loading a page                                                          *)

\* SearchLinks: the view renders no check box ticked; isActive takes its tick
\* from its value, the other two take their value from their tick.
LoadedBoxes(isActive) ==
    [box \in Boxes |-> IF box = "isActive"
                       THEN [checked |-> isActive, value |-> isActive]
                       ELSE [checked |-> FALSE, value |-> FALSE]]

OldInit ==
    /\ deleted = {}
    /\ oldPage = "list"
    /\ panel = {"hide"} /\ panelText = "nothing" /\ written = "nothing"
    /\ activeShown \in BOOLEAN
    /\ ticked = {} /\ struck = {}
    /\ filterBoxes = LoadedBoxes(TRUE)
    /\ oldCall = [c \in OldCalls |-> NoOldCall]

\* The other page, or the same again; the answers to come find no listener.
Load(pageNow, isActive) ==
    /\ oldPage' = pageNow
    /\ Write({"hide"}, "nothing", "nothing")
    /\ activeShown' \in BOOLEAN
    /\ ticked' = {} /\ struck' = {}
    /\ filterBoxes' = LoadedBoxes(isActive)
    /\ oldCall' = [c \in OldCalls |->
                     IF oldCall[c] = NoOldCall THEN NoOldCall
                     ELSE [oldCall[c] EXCEPT !.listening = FALSE]]
    /\ UNCHANGED deleted

OldOpen == \E pageNow \in OldLinks \union {"list"} : Load(pageNow, TRUE)

\* onBtnSearchClick puts the values of the boxes into the address.
OldSearch ==
    /\ oldPage = "list"
    /\ Load("list", filterBoxes["isActive"].value)

-----------------------------------------------------------------------------
(* Clicks on the list                                                      *)

\* onChkChanged reads checked of the event, which has none: the value is false
\* from the first change on, whatever the tick.
OldChkChanged(box) ==
    /\ oldPage = "list"
    /\ filterBoxes' = [filterBoxes EXCEPT ![box].checked = ~@,
                                          ![box].value = FALSE]
    /\ UNCHANGED <<deleted, oldPage, message, activeShown, ticked,
                   struck, oldCall>>

TickRow(id) ==
    /\ oldPage = "list"
    /\ ticked' = (ticked \ {id}) \union ({id} \ ticked)
    /\ UNCHANGED <<deleted, oldPage, message, activeShown, struck,
                   filterBoxes, oldCall>>

\* onSelectAllClick turns every box over.
OldSelectAll ==
    /\ oldPage = "list"
    /\ ticked' = OldLinks \ ticked
    /\ UNCHANGED <<deleted, oldPage, message, activeShown, struck,
                   filterBoxes, oldCall>>

OldSend(request) ==
    \E c \in OldCalls :
        oldCall[c] = NoOldCall /\ oldCall' = [oldCall EXCEPT ![c] = request]

\* onDeletesSubmitForm, confirmed, takes every check box of the page that is
\* ticked: the rows, which may be none, and those of the search form.
SubmitDeletes ==
    /\ oldPage = "list"
    /\ OldSend(OldRequest("deletes",
                  IF \E box \in Boxes : filterBoxes[box].checked
                  THEN ticked \union {NoId} ELSE ticked))
    /\ UNCHANGED <<deleted, oldPage, message, activeShown, ticked,
                   struck, filterBoxes>>

-----------------------------------------------------------------------------
(* Clicks on the page of a link                                            *)

\* setActiveButton
ClickActive ==
    /\ oldPage # "list"
    /\ activeShown' = ~activeShown
    /\ UNCHANGED <<deleted, oldPage, message, ticked, struck,
                   filterBoxes, oldCall>>

\* The panel as onDelete and onSubmitForm leave it before they send.
Hidden == (panel \union {"hide", "alert-success"}) \ {"show", "alert-danger"}

\* onDelete of DeleteLink
OldDelete ==
    /\ oldPage # "list"
    /\ panel' = Hidden
    /\ OldSend(OldRequest("delete", {oldPage}))
    /\ UNCHANGED <<deleted, oldPage, panelText, written, activeShown, ticked,
                   struck, filterBoxes>>

\* onSubmitForm of EditLink: a title is missing, or submitUpdate.
SubmitEdit ==
    /\ oldPage # "list"
    /\ \/ /\ Write(Hidden \union {"alert-danger", "show"}, "failure", "failure")
          /\ UNCHANGED oldCall
       \/ /\ panel' = Hidden
          /\ OldSend(OldRequest("edit", {oldPage}))
          /\ UNCHANGED <<panelText, written>>
    /\ UNCHANGED <<deleted, oldPage, activeShown, ticked, struck, filterBoxes>>

-----------------------------------------------------------------------------
(* The server and the network                                              *)

Answer(c, answer, done) ==
    /\ deleted' = deleted \union done
    /\ oldCall' = [oldCall EXCEPT ![c].answer = answer, ![c].done = done]

\* The answers: ok with isSuccess TRUE or FALSE, or an error.  A batch fails
\* when none of it was deleted, and at once when its first id is undefined
\* (the search form comes before the rows): new Guid throws.  An edit answers
\* with the message of its result, which may be empty or null.
OldServe(c) ==
    /\ oldCall[c] # NoOldCall /\ oldCall[c].answer = "none"
    /\ CASE oldCall[c].op = "deletes" ->
               \E done \in IF NoId \in oldCall[c].ids THEN {{}}
                            ELSE SUBSET oldCall[c].ids :
                  Answer(c, IF done = {} THEN "error" ELSE "success", done)
         [] oldCall[c].op = "delete" ->
               \/ Answer(c, "success", oldCall[c].ids)
               \/ Answer(c, "failure", {})
         [] OTHER ->
               \E answer \in {"success", "failure", "emptyFailure", "noMessage"} :
                  Answer(c, answer, {})
    /\ UNCHANGED <<oldPage, message, activeShown, ticked, struck,
                   filterBoxes>>

\* The request, or what the server has answered, is lost.
OldLose(c) ==
    /\ oldCall[c] # NoOldCall /\ oldCall[c].answer # "error"
    /\ oldCall' = [oldCall EXCEPT ![c].answer = "error"]
    /\ UNCHANGED <<deleted, oldPage, message, activeShown, ticked,
                   struck, filterBoxes>>

-----------------------------------------------------------------------------
(* What the pages do with an answer                                        *)

\* onDeleteSuccess and onEditSuccess, a success and a failure: only a success
\* takes hide away.
Succeeded == (panel \union {"alert-success", "show"}) \ {"hide", "alert-danger"}
Failed == (panel \union {"alert-danger", "show"}) \ {"alert-success"}

\* Mutant: the failure keeps the colour of the click.
DeleteAnsweredGreen(answer) ==
    CASE answer = "success" -> Write(Succeeded, "success", "success")
      [] answer = "failure" -> Write(panel \union {"show"}, "success", "failure")
      [] OTHER -> Write(panel \union {"show"}, "failure", "failure")

\* DeleteLink: the message of an answer is never empty and is taken as it is,
\* also for a failure, where it says that the link was deleted.  An error is
\* written by onDeleteFail.
DeleteAnswered(answer) ==
    CASE answer = "success" -> Write(Succeeded, "success", "success")
      [] answer = "failure" -> Write(Failed, "success", "failure")
      [] OTHER -> Write(Failed, "failure", "failure")

\* EditLink: "Link successfully saved" takes the place of an empty message,
\* also for a failure.  An error, and a message that is null, end in the
\* console.
EditAnswered(answer) ==
    CASE answer = "success" -> Write(Succeeded, "success", "success")
      [] answer = "failure" -> Write(Failed, "failure", "failure")
      [] answer = "emptyFailure" -> Write(Failed, "success", "failure")
      [] OTHER -> UNCHANGED message

\* Mutant: what was asked for is struck through.
StrikeAsked(request) == request.ids

\* onDeletesSuccess strikes the rows of the ids in the answer.
Strike(request) == request.done

OldSettle(c) ==
    /\ oldCall[c] # NoOldCall /\ oldCall[c].answer # "none"
    /\ oldCall' = [oldCall EXCEPT ![c] = NoOldCall]
    /\ LET request == oldCall[c]
       IN  IF ~request.listening
           THEN UNCHANGED <<message, struck>>
           ELSE CASE request.op = "deletes" ->
                        /\ struck' = IF request.answer = "success"
                                     THEN struck \union Strike(request)
                                     ELSE struck
                        /\ UNCHANGED message
                  [] request.op = "delete" ->
                        DeleteAnswered(request.answer) /\ UNCHANGED struck
                  [] OTHER ->
                        EditAnswered(request.answer) /\ UNCHANGED struck
    /\ UNCHANGED <<deleted, oldPage, activeShown, ticked, filterBoxes>>

-----------------------------------------------------------------------------

OldNext ==
    \/ OldOpen \/ OldSearch \/ OldSelectAll \/ SubmitDeletes
    \/ ClickActive \/ OldDelete \/ SubmitEdit
    \/ \E box \in Boxes : OldChkChanged(box)
    \/ \E id \in OldLinks : TickRow(id)
    \/ \E c \in OldCalls : OldServe(c) \/ OldLose(c) \/ OldSettle(c)

OldSpec == OldInit /\ [][OldNext]_oldVars

-----------------------------------------------------------------------------

OldTypeOK ==
    /\ deleted \subseteq OldLinks /\ ticked \subseteq OldLinks
    /\ oldPage \in OldLinks \union {"list"}
    /\ panel \subseteq Classes
    /\ panelText \in Says /\ written \in Says
    /\ activeShown \in BOOLEAN
    /\ filterBoxes \in [Boxes -> [checked : BOOLEAN, value : BOOLEAN]]

\* Although an edit and a delete write into the panel in any order, and one
\* click hides what the other wrote, a panel that can be seen has one colour,
\* that of the outcome it was last written for: it is never green after a
\* failure, nor empty.  Each handler adds and removes single classes, so that
\* a hidden panel may have both colours.  The colour alone tells the outcome:
\* a red panel may say that the link was deleted or saved.
VisiblePanelAgrees ==
    Visible =>
        /\ written # "nothing"
        /\ "alert-danger" \in panel <=> written = "failure"
        /\ "alert-success" \in panel <=> written = "success"
        /\ written = "success" => panelText = "success"

\* A row is struck through only if the server has deleted its link, part of a
\* batch, a late answer or not.  (The ids are those of the answer.)
StruckRowsDeleted == struck \subseteq deleted

=============================================================================
