--------------------------- MODULE LinkSubmission ---------------------------
(***************************************************************************)
(* Submitting links: LinksManager.SubmitLinkAsync runs the new link through*)
(* QueuedLinksService (verify, harvest, tag) and adds it to the links      *)
(* collection, or finds that it is there already.  Submissions run         *)
(* concurrently; nothing but the lookup in the verifier keeps one URL from *)
(* being stored twice.                                                     *)
(*                                                                         *)
(* The queue itself is bypassed (LinksManager.cs:187) and its consumer only*)
(* throws.  Titles, meta data and tags are left out: no decision depends   *)
(* on them.  ILinksService, which looks up and adds links, is external: the*)
(* repository has its callers and, for the lookup, the query behind it.    *)
(***************************************************************************)
EXTENDS Naturals

CONSTANTS
    Submitters,     \* clients, each with one submission at a time
    Urls,
    UrlsOf,         \* UrlsOf[s]: the URLs that s submits
    BannedHosts,    \* the URLs on a banned host
    BadProtocols    \* the URLs that are neither http: nor https:

ASSUME UrlsAssumption ==
    /\ UrlsOf \in [Submitters -> SUBSET Urls]
    /\ BannedHosts \subseteq Urls
    /\ BadProtocols \subseteq Urls

VARIABLES
    links,  \* links[u]: how many documents of the links collection have URL u
    pc,     \* pc[s]: the call the submission of s waits for, or "idle"
    url,    \* url[s]: QueuedLink.Url of the submission
    state,  \* state[s]: QueuedLink.State
    reply   \* reply[s]: what SubmitLinkAsync last returned to s

submission == <<pc, url, state, reply>>
vars == <<links, submission>>

NoUrl == "no url"

\* The states a submission can be seen in between two awaits, or end in.
States == {"New", "Verifying", "VerifyingCompleted", "FetchingData", "Finished",
           "Exists", "Rejected", "Error"}

Init ==
    /\ links \in [Urls -> 0..1]
    /\ pc = [s \in Submitters |-> "idle"]
    /\ url = [s \in Submitters |-> NoUrl]
    /\ state = [s \in Submitters |-> "New"]
    /\ reply = [s \in Submitters |-> "none"]

-----------------------------------------------------------------------------
(* The stages of ProcessNewLinkAsync                                       *)

\* Mutant: only a banned host with a bad protocol is rejected.
VerifiedLax(u, exists) ==
    IF exists THEN "Exists"
    ELSE IF u \in BannedHosts /\ u \in BadProtocols THEN "Rejected"
    ELSE "VerifyingCompleted"

\* VerifyProcessor.ExecuteAsync: an existing link is not judged again.
Verified(u, exists) ==
    IF exists THEN "Exists"
    ELSE IF u \in BannedHosts \/ u \in BadProtocols THEN "Rejected"
    ELSE "VerifyingCompleted"

\* Mutant: every tagged link is finished.
TaggedAlwaysFinished(previous) == "Finished"

\* Tagging leaves a state of its own; the state from before decides which of
\* the two final states replaces it.
Tagged(previous) == IF previous = "Exists" THEN "Exists" ELSE "Finished"

WaitFor(s, call, now) ==
    /\ pc' = [pc EXCEPT ![s] = call]
    /\ state' = [state EXCEPT ![s] = now]
    /\ UNCHANGED <<url, reply>>

\* SubmitLinkAsync: a finished link is added, an existing one is looked up.
Conclude(s, final) ==
    WaitFor(s, IF final = "Finished" THEN "add" ELSE "getById", final)

Return(s, answer, last) ==
    /\ pc' = [pc EXCEPT ![s] = "idle"]
    /\ state' = [state EXCEPT ![s] = last]
    /\ reply' = [reply EXCEPT ![s] = answer]
    /\ UNCHANGED url

-----------------------------------------------------------------------------

Submit(s, u) ==
    /\ pc[s] = "idle"
    /\ pc' = [pc EXCEPT ![s] = "getByUrl"]
    /\ url' = [url EXCEPT ![s] = u]
    /\ state' = [state EXCEPT ![s] = "Verifying"]
    /\ reply' = [reply EXCEPT ![s] = "none"]
    /\ UNCHANGED links

\* Of several documents with one URL the repository gives none
\* (GetLinkByUrlAsync fails): to the verifier the link is missing.
Verify(s) ==
    /\ pc[s] = "getByUrl"
    /\ LET verified == Verified(url[s], links[url[s]] = 1)
       IN  CASE verified = "Exists" ->
                   Conclude(s, Tagged("Exists"))
             [] verified = "VerifyingCompleted" ->
                   WaitFor(s, "fetch", "FetchingData")
             [] verified = "Rejected" ->
                   Return(s, "rejected", "Rejected")
    /\ UNCHANGED links

\* The page is fetched, and the link is tagged and about to be added.
Harvest(s) ==
    /\ pc[s] = "fetch"
    /\ Conclude(s, Tagged("FetchingDataCompleted"))
    /\ UNCHANGED links

\* Mutant: a page that cannot be fetched sends the link round again.
HarvestFailsAgain(s) ==
    /\ pc[s] = "fetch"
    /\ WaitFor(s, "getByUrl", "Verifying")
    /\ UNCHANGED links

\* The page cannot be fetched within the 10 seconds of the HttpClient, whatever
\* the reason, or reading its meta data throws: both are answers, not errors.
HarvestFails(s) ==
    /\ pc[s] = "fetch"
    /\ \E last \in {"Error", "VerifyingCompleted"} :
          Return(s, "not fetched", last)
    /\ UNCHANGED links

AddLink(s) ==
    /\ pc[s] = "add"
    /\ links' = [links EXCEPT ![url[s]] = @ + 1]
    /\ Return(s, "processed", state[s])

\* GetLinkByIdQuery for a link that exists: the answer is not used.
GetExisting(s) ==
    /\ pc[s] = "getById"
    /\ Return(s, "processed", state[s])
    /\ UNCHANGED links

Step(s) ==
    Verify(s) \/ Harvest(s) \/ HarvestFails(s) \/ AddLink(s) \/ GetExisting(s)

\* An exception out of a call to the links module.  The link may have been
\* added all the same.
Fault(s) ==
    /\ pc[s] \in {"getByUrl", "getById", "add"}
    /\ Return(s, "exception", state[s])
    /\ \/ UNCHANGED links
       \/ pc[s] = "add" /\ links' = [links EXCEPT ![url[s]] = @ + 1]

\* A document is removed from the links collection.
RemoveDocument(u) ==
    /\ links[u] > 0
    /\ links' = [links EXCEPT ![u] = @ - 1]
    /\ UNCHANGED submission

Next ==
    \/ \E s \in Submitters :
          \/ \E u \in UrlsOf[s] : Submit(s, u)
          \/ Step(s)
          \/ Fault(s)
    \/ \E u \in Urls : RemoveDocument(u)

Spec == Init /\ [][Next]_vars

\* Every call is answered: the database driver and the HttpClient time out.
FairSpec == Spec /\ \A s \in Submitters : WF_vars(Step(s))

-----------------------------------------------------------------------------

SubmissionOK ==
    /\ pc \in [Submitters -> {"idle", "getByUrl", "fetch", "add", "getById"}]
    /\ url \in [Submitters -> Urls \union {NoUrl}]
    /\ state \in [Submitters -> States]
    /\ reply \in [Submitters -> {"none", "processed", "rejected",
                                 "not fetched", "exception"}]
    /\ \A s \in Submitters : pc[s] # "idle" => url[s] \in UrlsOf[s]

TypeOK == links \in [Urls -> Nat] /\ SubmissionOK

\* No interleaving stores a link that the verifier rejects.  (VerifyProcessor
\* judges the host and the protocol only of links it did not find.)
UnwantedNeverAdded ==
    [][\A u \in BannedHosts \union BadProtocols : links'[u] <= links[u]]_links

\* No two clients submit the same URL.
Disjoint ==
    \A s, t \in Submitters : s # t => UrlsOf[s] \intersect UrlsOf[t] = {}

\* "in case there are more than one result for the url (which should not
\* happen)" (LinksRepository.cs:120).  Two submissions of one URL that overlap
\* make it happen: both find the URL missing and both add it.
UrlsUnique == \A u \in Urls : links[u] <= 1

\* A client that is alone with its URLs never stores one of them twice,
\* however often it submits it, whatever answers it lost, and whatever is
\* removed meanwhile.  The invariant behind it: a submission past the lookup
\* still has no document.  (SubmitLinkAsync; ProcessNewLinkAsync, which must
\* keep "Exists" through the tagging.)
MissingStaysMissing ==
    \A s \in Submitters : pc[s] \in {"fetch", "add"} => links[url[s]] = 0

UniqueInv == UrlsUnique /\ MissingStaysMissing

\* Every submission is answered.
EverySubmissionAnswered ==
    \A s \in Submitters : pc[s] # "idle" ~> pc[s] = "idle"
=============================================================================
