------------------------- MODULE AdminSites_proofs -------------------------
(***************************************************************************)
(* Theorems about AdminPages and OldAdminPages, for any number of links,   *)
(* users, calls and requests.  Nothing is assumed of the constants: where  *)
(* a value like Lost might be one of the responses, the scripts take it    *)
(* for Lost, and so do we.                                                 *)
(***************************************************************************)
EXTENDS AdminPages, OldAdminPages, TLAPS

-----------------------------------------------------------------------------
(* ControlsAgree                                                           *)

\* The form is a record, so that an EXCEPT changes its fields.
FormShape ==
    form = [isActive |-> form.isActive, isDeleted |-> form.isDeleted,
            saysDeactivate |-> form.saysDeactivate,
            saysUnDelete |-> form.saysUnDelete]

ControlsInv == ControlsAgree /\ FormShape /\ page \in {"list", "details"}

\* A page that is loaded agrees, whatever was there before.
LEMMA ListAgrees ==
    ASSUME NEW filter, LoadList(filter)
    PROVE  ControlsInv'
<1>1. page' = "list" /\ deleteDisabled' = TRUE /\ checked' = {}
      /\ form' = NoForm
  BY DEF LoadList
<1> QED
  BY <1>1 DEF NoForm, ControlsInv, ControlsAgree, FormShape

LEMMA DetailsAgree ==
    ASSUME NEW id, LoadDetails(id), page' = "details"
    PROVE  ControlsInv'
<1>1. form' = [isActive |-> store[id].isActive,
               isDeleted |-> store[id].isDeleted,
               saysDeactivate |-> store[id].isActive,
               saysUnDelete |-> store[id].isDeleted]
  BY DEF LoadDetails
<1> QED
  BY <1>1 DEF ControlsInv, ControlsAgree, FormShape

LEMMA ReloadedAgrees ==
    ASSUME ControlsInv, Reload
    PROVE  ControlsInv'
<1>1. CASE page = "list"
  <2>1. LoadList(boxes)
    BY <1>1 DEF Reload
  <2> QED
    BY <2>1, ListAgrees
<1>2. CASE page = "details" /\ shown \in Present
  <2>1. LoadDetails(shown) /\ page' = page
    BY <1>2 DEF Reload, LoadDetails
  <2> QED
    BY <1>2, <2>1, DetailsAgree
<1>3. CASE page = "details" /\ shown \notin Present
  <2>1. LoadList(DefaultBoxes)
    BY <1>3 DEF Reload
  <2> QED
    BY <2>1, ListAgrees
<1> QED
  BY <1>1, <1>2, <1>3 DEF ControlsInv

\* What neither loads a page nor touches a control.
LEMMA WindowAgrees ==
    ASSUME ControlsInv, UNCHANGED <<page, checked, deleteDisabled, form>>
    PROVE  ControlsInv'
BY DEF ControlsInv, ControlsAgree, FormShape

\* On the page of a link only the form counts.
LEMMA FormAgrees ==
    ASSUME ControlsInv, UNCHANGED <<page, checked, deleteDisabled>>,
           FormShape', form'.saysDeactivate = form'.isActive
    PROVE  ControlsInv'
BY DEF ControlsInv, ControlsAgree

LEMMA ActivateAgrees ==
    ASSUME ControlsInv, NEW now, UNCHANGED <<page, checked, deleteDisabled>>,
           form' = [form EXCEPT !.isActive = now, !.saysDeactivate = now]
    PROVE  ControlsInv'
<1>1. form' = [isActive |-> now, isDeleted |-> form.isDeleted,
               saysDeactivate |-> now, saysUnDelete |-> form.saysUnDelete]
  BY DEF ControlsInv, FormShape
<1>2. FormShape' /\ form'.saysDeactivate = form'.isActive
  BY <1>1 DEF FormShape
<1> QED
  BY <1>2, FormAgrees

LEMMA SucceedAgrees ==
    ASSUME ControlsInv, NEW c, Succeed(c)
    PROVE  ControlsInv'
<1>1. CASE Reload
  BY <1>1, ReloadedAgrees
<1>2. CASE form' = AfterSuccess(call[c].command.op)
           /\ UNCHANGED <<page, listPage, shown>>
  <2>1. UNCHANGED <<page, checked, deleteDisabled>>
    BY <1>2 DEF listPage
  <2>2. CASE call[c].command.op = "SetActive"
    BY <1>2, <2>1, <2>2, ActivateAgrees DEF AfterSuccess, AfterActivate
  <2>3. CASE call[c].command.op \in {"Delete", "UnDelete"}
    <3>1. form' = [form EXCEPT !.isDeleted = FALSE, !.saysUnDelete = FALSE]
      BY <1>2, <2>3 DEF AfterSuccess, AfterDelete
    <3>2. FormShape' /\ form'.saysDeactivate = form.saysDeactivate
          /\ form'.isActive = form.isActive
      BY <3>1 DEF FormShape, ControlsInv
    <3> QED
      BY <2>1, <3>2 DEF ControlsInv, ControlsAgree
  <2>4. CASE call[c].command.op \notin {"SetActive", "Delete", "UnDelete"}
    <3>1. form' = form
      BY <1>2, <2>4 DEF AfterSuccess
    <3> QED
      BY <2>1, <3>1, WindowAgrees
  <2> QED
    BY <2>2, <2>3, <2>4
<1> QED
  BY <1>1, <1>2 DEF Succeed

\* No click and no answer, however late, parts a control from what it controls.
THEOREM ControlsFollow == Spec => []ControlsAgree
<1>1. Init => ControlsInv
  BY DEF Init, NoForm, ControlsInv, ControlsAgree, FormShape
<1>2. ControlsInv /\ [Next]_vars => ControlsInv'
  <2> SUFFICES ASSUME ControlsInv, [Next]_vars PROVE ControlsInv'
    OBVIOUS
  <2>1. CASE Search
    BY <2>1, ListAgrees DEF Search
  <2>2. CASE OpenDetails
    <3>1. PICK id : LoadDetails(id)
      BY <2>2 DEF OpenDetails
    <3> QED
      BY <3>1, DetailsAgree DEF LoadDetails
  <2>3. CASE Cancel
    BY <2>3, ReloadedAgrees DEF Cancel
  <2>4. ASSUME NEW id \in Links, ClickCheckBox(id) \/ ClickSelectAll(id)
        PROVE  ControlsInv'
    <3>1. /\ page' = page /\ form' = form
          /\ deleteDisabled' <=> checked' = {}
      BY <2>4 DEF ClickCheckBox, ClickSelectAll, DeleteDisabledFor, detailsPage
    <3> QED
      BY <3>1 DEF ControlsInv, ControlsAgree, FormShape
  <2>5. CASE ClickActivate
    <3>1. /\ form' = [form EXCEPT !.isActive = ~form.isActive,
                                  !.saysDeactivate = ~form.isActive]
          /\ UNCHANGED <<page, checked, deleteDisabled>>
      BY <2>5 DEF ClickActivate, listPage
    <3> QED
      BY <3>1, ActivateAgrees
  <2>6. CASE ClickDelete
    <3>1. form' = [form EXCEPT !.isDeleted = ~form.isDeleted]
          /\ page = "details"
          /\ UNCHANGED <<page, checked, deleteDisabled>>
      BY <2>6 DEF ClickDelete, listPage
    <3>2. FormShape' /\ form'.saysDeactivate = form.saysDeactivate
          /\ form'.isActive = form.isActive
      BY <3>1 DEF FormShape, ControlsInv
    <3> QED
      BY <3>1, <3>2 DEF ControlsInv, ControlsAgree
  <2>7. CASE ClickDeleteLinks \/ ClickSave \/ Elsewhere
             \/ \E c \in Calls : Serve(c) \/ Lose(c)
    <3>1. UNCHANGED window
      BY <2>7 DEF ClickDeleteLinks, ClickSave, Elsewhere, Serve, Lose
    <3> QED
      BY <3>1, WindowAgrees DEF window, listPage, detailsPage
  <2>8. ASSUME NEW c \in Calls, Settle(c)
        PROVE  ControlsInv'
    <3>1. UNCHANGED window \/ Succeed(c)
      BY <2>8 DEF Settle, Fail
    <3> QED
      BY <3>1, WindowAgrees, SucceedAgrees DEF window, listPage, detailsPage
  <2>9. CASE UNCHANGED vars
    BY <2>9, WindowAgrees DEF vars, window, listPage, detailsPage
  <2> QED
    BY <2>1, <2>2, <2>3, <2>4, <2>5, <2>6, <2>7, <2>8, <2>9 DEF Next, User
<1>3. ControlsInv => ControlsAgree
  BY DEF ControlsInv
<1> QED
  BY <1>1, <1>2, <1>3, PTL DEF Spec

-----------------------------------------------------------------------------
(* ToldMeansDone                                                           *)

\* What the controller has answered, against what it has written.
Answered(k) ==
    IF k.request.hasToken
    THEN /\ k.command.op = "DeleteLinks" =>
               k.response = IF k.written = {}
                            THEN Response(FALSE, FALSE, NoData)
                            ELSE Response(TRUE, TRUE, k.written)
         /\ k.command.op = "SetActive" =>
               /\ k.written \subseteq Named(k.command)
               /\ \E id : Named(k.command) = {id}
               /\ k.response = Response(k.written # {}, TRUE, NoData)
    ELSE k.response = Response(FALSE, FALSE, NoData)

\* A call has its fields.
IsCall(k) ==
    k = [request |-> k.request, command |-> k.command, at |-> k.at,
         response |-> k.response, written |-> k.written,
         listening |-> k.listening]

\* A call is a record, an activation names one link, and an answer that has
\* not been lost is the controller's.
CallOK(k) ==
    /\ IsCall(k)
    /\ k.command.op = "SetActive" => \E id : Named(k.command) = {id}
    /\ k.at = "sent" \/ k.response = Lost \/ Answered(k)

CallsInv ==
    /\ call = [c \in Calls |-> call[c]]
    /\ \A c \in Calls : call[c] # NoCall => CallOK(call[c])

\* One call changes, the others are as they were.
LEMMA OneCallChanges ==
    ASSUME CallsInv, NEW c \in Calls, NEW k, call' = [call EXCEPT ![c] = k],
           k # NoCall => CallOK(k)
    PROVE  CallsInv'
BY DEF CallsInv

LEMMA NobodyListens ==
    ASSUME NEW k, CallOK(k), NEW after, after = [k EXCEPT !.listening = FALSE]
    PROVE  CallOK(after)
<1>1. IsCall(k)
  BY DEF CallOK
<1>2. after = [request |-> k.request, command |-> k.command,
               at |-> k.at, response |-> k.response,
               written |-> k.written, listening |-> FALSE]
  BY <1>1 DEF IsCall
<1> QED
  BY <1>2 DEF CallOK, IsCall, Answered

\* Leaving the page, for all calls or for all but one.
LEMMA LeaveKeeps ==
    ASSUME CallsInv, NEW gone,
           call' = [c \in Calls |-> IF c = gone \/ call[c] = NoCall
                                    THEN NoCall
                                    ELSE [call[c] EXCEPT !.listening = FALSE]]
    PROVE  CallsInv'
<1>1. ASSUME NEW c \in Calls, call'[c] # NoCall
      PROVE  CallOK(call'[c])
  <2>1. call[c] # NoCall /\ call'[c] = [call[c] EXCEPT !.listening = FALSE]
    BY <1>1
  <2> QED
    BY <2>1, NobodyListens DEF CallsInv
<1>2. call' = [c \in Calls |-> call'[c]]
  OBVIOUS
<1> QED
  BY <1>1, <1>2 DEF CallsInv

LEMMA PageLeft ==
    ASSUME CallsInv, Leave
    PROVE  CallsInv'
<1>1. ASSUME NEW c \in Calls, call'[c] # NoCall
      PROVE  CallOK(call'[c])
  <2>1. call[c] # NoCall /\ call'[c] = [call[c] EXCEPT !.listening = FALSE]
    BY <1>1 DEF Leave
  <2> QED
    BY <2>1, NobodyListens DEF CallsInv
<1>2. call' = [c \in Calls |-> call'[c]]
  BY DEF Leave
<1> QED
  BY <1>1, <1>2 DEF CallsInv

LEMMA SentOK ==
    ASSUME NEW request, NEW command,
           command.op = "SetActive" => \E id : Named(command) = {id}
    PROVE  CallOK(Sent(request, command))
BY DEF CallOK, IsCall, Sent

LEMMA SendKeeps ==
    ASSUME CallsInv, NEW request, NEW command, Send(request, command),
           command.op = "SetActive" => \E id : Named(command) = {id}
    PROVE  CallsInv'
<1>1. PICK c \in Calls : call' = [call EXCEPT ![c] = Sent(request, command)]
  BY DEF Send
<1> QED
  BY <1>1, SentOK, OneCallChanges

LEMMA ClickKeeps ==
    ASSUME CallsInv,
           ClickDeleteLinks \/ ClickActivate \/ ClickDelete \/ ClickSave
    PROVE  CallsInv'
<1>1. CASE ClickDeleteLinks
  <2>1. PICK batch, user :
           Send(Deletes(TRUE),
                [op |-> "DeleteLinks", ids |-> batch, user |-> user])
    BY <1>1 DEF ClickDeleteLinks
  <2> QED
    BY <2>1, SendKeeps
<1>2. CASE ClickActivate
  <2>1. PICK user, flag :
           Send(Post(TRUE), [op |-> "SetActive", ids |-> <<shown>>,
                             user |-> user, flag |-> flag])
    BY <1>2 DEF ClickActivate
  <2>2. \A command : command.ids = <<shown>> => Named(command) = {shown}
    BY DEF Named
  <2> QED
    BY <2>1, <2>2, SendKeeps
<1>3. CASE ClickDelete
  <2>1. PICK user :
           \/ Send(DeleteWithTwoArguments,
                   [op |-> "Delete", ids |-> <<shown>>, user |-> user])
           \/ Send(Post(TRUE),
                   [op |-> "UnDelete", ids |-> <<shown>>, user |-> user])
    BY <1>3 DEF ClickDelete
  <2> QED
    BY <2>1, SendKeeps
<1>4. CASE ClickSave
  <2>1. PICK user, title, names :
           Send(Post(TRUE), [op |-> "Edit", ids |-> <<shown>>, user |-> user,
                             title |-> title, names |-> names])
    BY <1>4 DEF ClickSave
  <2> QED
    BY <2>1, SendKeeps
<1> QED
  BY <1>1, <1>2, <1>3, <1>4

LEMMA ServeKeeps ==
    ASSUME CallsInv, NEW c \in Calls, Serve(c)
    PROVE  CallsInv'
<1> DEFINE k == call[c]
<1>1. k # NoCall /\ CallOK(k)
  BY DEF CallsInv, Serve
<1>2. IsCall(k)
  BY <1>1 DEF CallOK
<1>3. CASE ~k.request.hasToken
  <2>1. PICK after : after = [k EXCEPT !.at = "answered",
                                !.response = Response(FALSE, FALSE, NoData)]
    OBVIOUS
  <2>2. call' = [call EXCEPT ![c] = after]
    BY <1>3, <2>1 DEF Serve, CallsInv
  <2>3. after = [request |-> k.request, command |-> k.command,
                 at |-> "answered",
                 response |-> Response(FALSE, FALSE, NoData),
                 written |-> k.written, listening |-> k.listening]
    BY <1>2, <2>1 DEF IsCall
  <2>4. CallOK(after)
    BY <1>1, <1>3, <2>3 DEF CallOK, IsCall, Answered
  <2> QED
    BY <2>2, <2>4, OneCallChanges
<1>4. CASE k.request.hasToken
  <2>1. PICK links \in MayBeWritten(k.command) :
           call' = [call EXCEPT ![c].at = "answered",
                                ![c].written = links,
                                ![c].response = Reply(k.command, links)]
    BY <1>4 DEF Serve
  <2>2. PICK reply : reply = Reply(k.command, links)
    OBVIOUS
  <2>3. PICK after : after = [k EXCEPT !.at = "answered", !.written = links,
                                !.response = reply]
    OBVIOUS
  <2>4. call' = [call EXCEPT ![c] = after]
    BY <2>1, <2>2, <2>3 DEF CallsInv
  <2>5. links \subseteq Named(k.command)
    BY DEF MayBeWritten
  <2>6. CallOK(after)
    <3>1. after = [request |-> k.request, command |-> k.command,
                   at |-> "answered", response |-> reply,
                   written |-> links, listening |-> k.listening]
      BY <1>2, <2>3 DEF IsCall
    <3>2. Answered(after)
      BY <1>1, <1>4, <2>2, <2>5, <3>1 DEF CallOK, Answered, Reply
    <3> QED
      BY <1>1, <3>1, <3>2 DEF CallOK, IsCall
  <2> QED
    BY <2>4, <2>6, OneCallChanges
<1> QED
  BY <1>3, <1>4

LEMMA LoseKeeps ==
    ASSUME CallsInv, NEW c \in Calls, Lose(c)
    PROVE  CallsInv'
<1>1. CallOK(call[c]) /\ IsCall(call[c])
  BY DEF CallsInv, Lose, CallOK
<1>2. PICK after : after = [call[c] EXCEPT !.at = "answered",
                                          !.response = Lost]
  OBVIOUS
<1>3. call' = [call EXCEPT ![c] = after]
  BY <1>2 DEF Lose, CallsInv
<1>4. after = [request |-> call[c].request, command |-> call[c].command,
               at |-> "answered", response |-> Lost,
               written |-> call[c].written, listening |-> call[c].listening]
  BY <1>1, <1>2 DEF IsCall
<1>5. CallOK(after)
  BY <1>1, <1>4 DEF CallOK, IsCall
<1> QED
  BY <1>3, <1>5, OneCallChanges

LEMMA SettleKeeps ==
    ASSUME CallsInv, NEW c \in Calls, Settle(c)
    PROVE  CallsInv'
<1>1. \/ call' = [call EXCEPT ![c] = NoCall]
      \/ call' = [d \in Calls |-> IF d = c \/ call[d] = NoCall
                                  THEN NoCall
                                  ELSE [call[d] EXCEPT !.listening = FALSE]]
  BY DEF Settle, Succeed, Fail
<1> QED
  BY <1>1, OneCallChanges, LeaveKeeps

LEMMA CallsAnswered == Spec => []CallsInv
<1>1. Init => CallsInv
  BY DEF Init, CallsInv
<1>2. CallsInv /\ [Next]_vars => CallsInv'
  <2> SUFFICES ASSUME CallsInv, [Next]_vars PROVE CallsInv'
    OBVIOUS
  <2>1. CASE Search \/ OpenDetails \/ Cancel
    BY <2>1, PageLeft DEF Search, OpenDetails, Cancel
  <2>2. CASE ClickDeleteLinks \/ ClickActivate \/ ClickDelete \/ ClickSave
    BY <2>2, ClickKeeps
  <2>3. CASE \E c \in Calls : Serve(c) \/ Lose(c) \/ Settle(c)
    BY <2>3, ServeKeeps, LoseKeeps, SettleKeeps
  <2>4. CASE \/ \E id \in Links : ClickCheckBox(id) \/ ClickSelectAll(id)
             \/ Elsewhere \/ UNCHANGED vars
    <3>1. call' = call
      BY <2>4 DEF ClickCheckBox, ClickSelectAll, Elsewhere, vars
    <3> QED
      BY <3>1 DEF CallsInv
  <2> QED
    BY <2>1, <2>2, <2>3, <2>4 DEF Next, User
<1> QED
  BY <1>1, <1>2, PTL DEF Spec

\* What a success answers to a batch and to an activation.
LEMMA SuccessMeansWritten ==
    ASSUME NEW k, Answered(k), k.response # Lost,
           ApiRequest(k.response).isSuccess = TRUE
    PROVE  /\ k.request.hasToken
           /\ k.command.op = "DeleteLinks" =>
                 k.written # {} /\ k.response.data = k.written
           /\ k.command.op = "SetActive" =>
                 k.written # {} /\ Named(k.command) = k.written
<1>1. ~ApiRequest(Response(FALSE, FALSE, NoData)).isSuccess
      \/ Response(FALSE, FALSE, NoData) = Lost
  BY DEF ApiRequest, IsApiDataResponse, Response
<1>2. k.request.hasToken
  BY <1>1 DEF Answered
<1>3. ASSUME k.command.op = "DeleteLinks"
      PROVE  k.written # {} /\ k.response.data = k.written
  <2>1. CASE k.written = {}
    BY <1>1, <1>2, <1>3, <2>1 DEF Answered
  <2>2. CASE k.written # {}
    BY <1>2, <1>3, <2>2 DEF Answered, Response
  <2> QED
    BY <2>1, <2>2
<1>4. ASSUME k.command.op = "SetActive"
      PROVE  k.written # {} /\ Named(k.command) = k.written
  <2>1. k.response = Response(k.written # {}, TRUE, NoData)
    BY <1>2, <1>4 DEF Answered
  <2>2. ASSUME k.written = {} PROVE FALSE
    <3>1. k.response = Response(FALSE, TRUE, NoData)
      BY <2>1, <2>2
    <3>2. ~IsApiDataResponse(k.response) /\ k.response.ok = FALSE
      BY <3>1 DEF IsApiDataResponse, Response
    <3> QED
      BY <3>2 DEF ApiRequest
  <2> QED
    BY <1>2, <1>4, <2>2 DEF Answered
<1> QED
  BY <1>2, <1>3, <1>4

\* A success the user is told of is one the server wrote.
THEOREM SuccessIsDone == Spec => ToldMeansDone
<1>1. CallsInv =>
        \A c \in Calls :
          Settle(c) /\ call[c].listening /\ told'.kind = "success" =>
              /\ call[c].request.hasToken
              /\ call[c].command.op \in {"DeleteLinks", "SetActive"} =>
                    told'.ids = call[c].written /\ told'.ids # {}
  <2> SUFFICES ASSUME CallsInv, NEW c \in Calls,
                      Settle(c), call[c].listening, told'.kind = "success"
               PROVE  /\ call[c].request.hasToken
                      /\ call[c].command.op \in {"DeleteLinks", "SetActive"} =>
                            told'.ids = call[c].written /\ told'.ids # {}
    OBVIOUS
  <2>1. ApiRequest(call[c].response).isSuccess /\ Succeed(c)
    BY DEF Settle, Fail
  <2>2. call[c].response # Lost
    BY <2>1 DEF ApiRequest
  <2>3. CallOK(call[c]) /\ call[c].at = "answered"
    BY DEF CallsInv, Settle
  <2>4. Answered(call[c])
    BY <2>2, <2>3 DEF CallOK
  <2>5. told'.ids = IF call[c].command.op = "DeleteLinks"
                    THEN call[c].response.data ELSE Named(call[c].command)
    BY <2>1 DEF Succeed
  <2> QED
    BY <2>1, <2>2, <2>4, <2>5, SuccessMeansWritten
<1> QED
  BY <1>1, CallsAnswered, PTL DEF ToldMeansDone

-----------------------------------------------------------------------------
(* The older site                                                          *)

-----------------------------------------------------------------------------
(* The message panel: VisiblePanelAgrees is inductive as it stands         *)

\* A panel with the class hide is out of sight whatever its other classes.
LEMMA HiddenAgrees ==
    ASSUME "hide" \in panel'
    PROVE  VisiblePanelAgrees'
BY DEF VisiblePanelAgrees, Visible

\* A success that is written is shown in green.  A failure, whatever it says,
\* is written in red.
LEMMA AnsweredAgrees ==
    ASSUME \/ Write(Succeeded, "success", "success")
           \/ \E text : Write(Failed, text, "failure")
    PROVE  VisiblePanelAgrees'
BY DEF VisiblePanelAgrees, Visible, Write, Succeeded, Failed

LEMMA PanelSettles ==
    ASSUME VisiblePanelAgrees, NEW c \in OldCalls, OldSettle(c)
    PROVE  VisiblePanelAgrees'
<1>1. \/ UNCHANGED message
      \/ Write(Succeeded, "success", "success")
      \/ \E text : Write(Failed, text, "failure")
  BY DEF OldSettle, DeleteAnswered, EditAnswered, message
<1>2. CASE UNCHANGED message
  BY <1>2 DEF VisiblePanelAgrees, Visible, message
<1> QED
  BY <1>1, <1>2, AnsweredAgrees

\* The panel the user sees has the colour of the outcome it was written for.
THEOREM PanelAgrees == OldSpec => []VisiblePanelAgrees
<1>1. OldInit => VisiblePanelAgrees
  BY DEF OldInit, VisiblePanelAgrees, Visible
<1>2. VisiblePanelAgrees /\ [OldNext]_oldVars => VisiblePanelAgrees'
  <2> SUFFICES ASSUME VisiblePanelAgrees, [OldNext]_oldVars
               PROVE  VisiblePanelAgrees'
    OBVIOUS
  <2>1. CASE OldOpen \/ OldSearch \/ OldDelete \/ SubmitEdit
    <3>1. "hide" \in panel'
      BY <2>1 DEF OldOpen, OldSearch, Load, OldDelete, SubmitEdit, Hidden,
                  Write
    <3> QED
      BY <3>1, HiddenAgrees
  <2>2. CASE \E c \in OldCalls : OldSettle(c)
    BY <2>2, PanelSettles
  <2>3. CASE \/ OldSelectAll \/ SubmitDeletes \/ ClickActive
             \/ \E box \in Boxes : OldChkChanged(box)
             \/ \E id \in OldLinks : TickRow(id)
             \/ \E c \in OldCalls : OldServe(c) \/ OldLose(c)
             \/ UNCHANGED oldVars
    <3>1. UNCHANGED message
      BY <2>3 DEF OldSelectAll, SubmitDeletes, ClickActive, OldChkChanged,
                  TickRow, OldServe, OldLose, oldVars
    <3> QED
      BY <3>1 DEF VisiblePanelAgrees, Visible, message
  <2> QED
    BY <2>1, <2>2, <2>3 DEF OldNext
<1> QED
  BY <1>1, <1>2, PTL DEF OldSpec

-----------------------------------------------------------------------------
(* The rows struck through                                                 *)

\* A request has its fields, and the server has deleted what it says it has
\* done, before the answer arrives and when it never does.
OldCallOK(k) ==
    /\ k = [op |-> k.op, ids |-> k.ids, answer |-> k.answer, done |-> k.done,
            listening |-> k.listening]
    /\ k.done \subseteq deleted

StruckInv ==
    /\ oldCall = [c \in OldCalls |-> oldCall[c]]
    /\ \A c \in OldCalls : oldCall[c] # NoOldCall => OldCallOK(oldCall[c])
    /\ StruckRowsDeleted

LEMMA OneRequestChanges ==
    ASSUME StruckInv, deleted \subseteq deleted', struck' \subseteq deleted',
           NEW c \in OldCalls, NEW k, oldCall' = [oldCall EXCEPT ![c] = k],
           k # NoOldCall => OldCallOK(k)'
    PROVE  StruckInv'
<1>1. ASSUME NEW d \in OldCalls, oldCall'[d] # NoOldCall
      PROVE  OldCallOK(oldCall[d])'
  <2>1. CASE d = c
    BY <1>1, <2>1 DEF StruckInv
  <2>2. CASE d # c
    <3>1. oldCall'[d] = oldCall[d]
      BY <2>2 DEF StruckInv
    <3> QED
      BY <1>1, <3>1 DEF StruckInv, OldCallOK
  <2> QED
    BY <2>1, <2>2
<1>2. oldCall' = [d \in OldCalls |-> oldCall'[d]]
  BY DEF StruckInv
<1> QED
  BY <1>1, <1>2 DEF StruckInv, StruckRowsDeleted

\* Leaving a page: nothing is struck through on the next one.
LEMMA LoadKeeps ==
    ASSUME StruckInv, NEW pageNow, NEW isActive, Load(pageNow, isActive)
    PROVE  StruckInv'
<1>1. ASSUME NEW c \in OldCalls, oldCall'[c] # NoOldCall
      PROVE  OldCallOK(oldCall[c])'
  <2>1. oldCall[c] # NoOldCall
        /\ oldCall'[c] = [oldCall[c] EXCEPT !.listening = FALSE]
    BY <1>1 DEF Load
  <2>2. OldCallOK(oldCall[c])
    BY <2>1 DEF StruckInv
  <2>3. oldCall'[c] = [op |-> oldCall[c].op, ids |-> oldCall[c].ids,
                       answer |-> oldCall[c].answer,
                       done |-> oldCall[c].done, listening |-> FALSE]
    BY <2>1, <2>2 DEF OldCallOK
  <2> QED
    BY <2>2, <2>3 DEF OldCallOK, Load
<1>2. oldCall' = [c \in OldCalls |-> oldCall'[c]]
  BY DEF Load
<1>3. StruckRowsDeleted'
  BY DEF Load, StruckRowsDeleted
<1> QED
  BY <1>1, <1>2, <1>3 DEF StruckInv

LEMMA OldSendKeeps ==
    ASSUME StruckInv, NEW op, NEW ids, OldSend(OldRequest(op, ids)),
           UNCHANGED <<deleted, struck>>
    PROVE  StruckInv'
<1>1. PICK c \in OldCalls :
         oldCall' = [oldCall EXCEPT ![c] = OldRequest(op, ids)]
  BY DEF OldSend
<1>2. OldCallOK(OldRequest(op, ids))'
  BY DEF OldCallOK, OldRequest
<1> QED
  BY <1>1, <1>2, OneRequestChanges DEF StruckInv, StruckRowsDeleted

\* The server deletes, and says what.
LEMMA OldServeKeeps ==
    ASSUME StruckInv, NEW c \in OldCalls, OldServe(c)
    PROVE  StruckInv'
<1>1. PICK answer, done : Answer(c, answer, done)
  BY DEF OldServe
<1>2. PICK k : k = oldCall[c]
  OBVIOUS
<1>3. OldCallOK(k)
  BY <1>2 DEF OldServe, StruckInv
<1>4. PICK after : after = [k EXCEPT !.answer = answer, !.done = done]
  OBVIOUS
<1>5. oldCall' = [oldCall EXCEPT ![c] = after]
  BY <1>1, <1>2, <1>4 DEF Answer, StruckInv
<1>6. after = [op |-> k.op, ids |-> k.ids, answer |-> answer, done |-> done,
               listening |-> k.listening]
  BY <1>3, <1>4 DEF OldCallOK
<1>7. deleted' = deleted \union done /\ struck' = struck
  BY <1>1 DEF Answer, OldServe
<1>8. OldCallOK(after)'
  BY <1>6, <1>7 DEF OldCallOK
<1> QED
  BY <1>5, <1>7, <1>8, OneRequestChanges DEF StruckInv, StruckRowsDeleted

\* What was deleted stays deleted when the answer is lost.
LEMMA OldLoseKeeps ==
    ASSUME StruckInv, NEW c \in OldCalls, OldLose(c)
    PROVE  StruckInv'
<1>1. PICK k : k = oldCall[c]
  OBVIOUS
<1>2. OldCallOK(k)
  BY <1>1 DEF OldLose, StruckInv
<1>3. PICK after : after = [k EXCEPT !.answer = "error"]
  OBVIOUS
<1>4. oldCall' = [oldCall EXCEPT ![c] = after]
  BY <1>1, <1>3 DEF OldLose, StruckInv
<1>5. after = [op |-> k.op, ids |-> k.ids, answer |-> "error",
               done |-> k.done, listening |-> k.listening]
  BY <1>2, <1>3 DEF OldCallOK
<1>6. UNCHANGED <<deleted, struck>>
  BY DEF OldLose
<1>7. OldCallOK(after)'
  BY <1>2, <1>5, <1>6 DEF OldCallOK
<1> QED
  BY <1>4, <1>6, <1>7, OneRequestChanges DEF StruckInv, StruckRowsDeleted

LEMMA OldSettleKeeps ==
    ASSUME StruckInv, NEW c \in OldCalls, OldSettle(c)
    PROVE  StruckInv'
<1>1. /\ oldCall[c] # NoOldCall /\ UNCHANGED deleted
      /\ oldCall' = [oldCall EXCEPT ![c] = NoOldCall]
      /\ struck' \in {struck, struck \union oldCall[c].done}
  BY DEF OldSettle, Strike, DeleteAnswered, EditAnswered
<1>2. struck' \subseteq deleted'
  BY <1>1 DEF StruckInv, StruckRowsDeleted, OldCallOK
<1> QED
  BY <1>1, <1>2, OneRequestChanges

\* No row is struck through whose link the server has not deleted.
THEOREM StruckAreDeleted == OldSpec => []StruckRowsDeleted
<1>1. OldInit => StruckInv
  BY DEF OldInit, StruckInv, StruckRowsDeleted
<1>2. StruckInv /\ [OldNext]_oldVars => StruckInv'
  <2> SUFFICES ASSUME StruckInv, [OldNext]_oldVars PROVE StruckInv'
    OBVIOUS
  <2>1. CASE OldOpen \/ OldSearch
    BY <2>1, LoadKeeps DEF OldOpen, OldSearch
  <2>2. CASE SubmitDeletes
    BY <2>2, OldSendKeeps DEF SubmitDeletes
  <2>3. CASE OldDelete
    BY <2>3, OldSendKeeps DEF OldDelete
  <2>4. CASE SubmitEdit /\ oldCall' # oldCall
    BY <2>4, OldSendKeeps DEF SubmitEdit
  <2>5. ASSUME NEW c \in OldCalls, OldServe(c) \/ OldLose(c) \/ OldSettle(c)
        PROVE  StruckInv'
    BY <2>5, OldServeKeeps, OldLoseKeeps, OldSettleKeeps
  <2>6. CASE \/ SubmitEdit /\ oldCall' = oldCall
             \/ OldSelectAll \/ ClickActive \/ UNCHANGED oldVars
             \/ \E box \in Boxes : OldChkChanged(box)
             \/ \E id \in OldLinks : TickRow(id)
    <3>1. UNCHANGED <<oldCall, deleted, struck>>
      BY <2>6 DEF SubmitEdit, OldSelectAll, ClickActive, OldChkChanged,
                  TickRow, oldVars
    <3> QED
      BY <3>1 DEF StruckInv, OldCallOK, StruckRowsDeleted
  <2> QED
    BY <2>1, <2>2, <2>3, <2>4, <2>5, <2>6 DEF OldNext
<1>3. StruckInv => StruckRowsDeleted
  BY DEF StruckInv
<1> QED
  BY <1>1, <1>2, <1>3, PTL DEF OldSpec
=============================================================================
