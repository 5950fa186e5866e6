----------------------------- MODULE ApiHelper -----------------------------
(***************************************************************************)
(* The client side of a call of the admin site: what apiRequest makes of   *)
(* what fetch gives it, and what the wrappers of the verbs put into the    *)
(* request.                                                                *)
(*                                                                         *)
(* A response is reduced to its status (ok), whether it is JSON and the    *)
(* data property of the JSON (NoData when there is none or it is null).    *)
(* The body of a request is reduced to nothing: the server takes what it   *)
(* needs from the route, or from ids that are part of the command.         *)
(***************************************************************************)
CONSTANTS
    NoData,     \* no data property, or null
    Lost        \* fetch rejects: no connection, a response cut off

Response(ok, isJson, data) == [ok |-> ok, isJson |-> isJson, data |-> data]

-----------------------------------------------------------------------------
\* isApiDataResponse: a JSON object whose data is not null.
IsApiDataResponse(response) == response.isJson /\ response.data # NoData

\* Mutant: a rejected fetch counts as a success.
ApiRequestLostSucceeds(response) ==
    IF response = Lost
    THEN [isSuccess |-> TRUE, data |-> NoData]
    ELSE [isSuccess |-> response.ok,
          data |-> IF IsApiDataResponse(response) THEN response.data
                                                  ELSE NoData]

\* A response with data is handed on as it is, and every one the server makes
\* says isSuccess; of any other only the status is looked at, so that what the
\* server writes into isSuccess and message is dropped.
ApiRequest(response) ==
    IF response = Lost
    THEN [isSuccess |-> FALSE, data |-> NoData]
    ELSE IF IsApiDataResponse(response)
         THEN [isSuccess |-> TRUE, data |-> response.data]
         ELSE [isSuccess |-> response.ok, data |-> NoData]

\* The wrappers differ in the verb and in what arrives as the token: a token
\* that is empty or not passed sets no header.
Request(method, hasToken) == [method |-> method, hasToken |-> hasToken]

Post(hasToken)    == Request("POST", hasToken)
Deletes(hasToken) == Request("DELETE", hasToken)

\* delete(url, data, token) is called with two arguments: the token becomes the
\* body and no header is set.
DeleteWithTwoArguments == Request("DELETE", FALSE)
=============================================================================
