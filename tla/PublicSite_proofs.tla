------------------------- MODULE PublicSite_proofs -------------------------
(***************************************************************************)
(* What holds of the public side for every number of users, addresses and  *)
(* links: of the submissions (LinkSubmission), that an address is added    *)
(* once and an unwanted one never; of the pages (Browsing), that the list  *)
(* read by Next alone shows every link once but for what moves while it is *)
(* read, and that every anchor of a pager leads to a page with links.      *)
(***************************************************************************)
EXTENDS LinkSubmission, Browsing, FoldTheorems

-----------------------------------------------------------------------------
(* Submissions                                                             *)

\* The only states in which a final state is decided.
LEMMA TaggedFinal ==
    /\ Tagged("Exists") = "Exists"
    /\ Tagged("FetchingDataCompleted") = "Finished"
BY DEF Tagged

\* The lookup and the judgement of the verifier, case by case.
LEMMA VerifyCases ==
    ASSUME NEW s \in Submitters, Verify(s)
    PROVE  \/ links[url[s]] = 1 /\ WaitFor(s, "getById", "Exists")
           \/ /\ links[url[s]] # 1
              /\ url[s] \notin BannedHosts \union BadProtocols
              /\ WaitFor(s, "fetch", "FetchingData")
           \/ Return(s, "rejected", "Rejected")
BY TaggedFinal DEF Verify, Verified, Conclude

\* The URL of a submission under way.
LEMMA CurrentUrl ==
    ASSUME TypeOK, NEW s \in Submitters, pc[s] # "idle"
    PROVE  /\ url[s] \in UrlsOf[s] /\ url[s] \in Urls
           /\ links[url[s]] \in Nat
BY UrlsAssumption DEF TypeOK, SubmissionOK

LEMMA WaitForType ==
    ASSUME SubmissionOK, NEW s \in Submitters, pc[s] # "idle",
           NEW call \in {"fetch", "add", "getById"}, NEW now \in States,
           WaitFor(s, call, now)
    PROVE  SubmissionOK'
BY DEF SubmissionOK, WaitFor

LEMMA ReturnType ==
    ASSUME SubmissionOK, NEW s \in Submitters, pc[s] # "idle",
           NEW answer \in {"processed", "rejected", "not fetched",
                           "exception"},
           NEW last \in States, Return(s, answer, last)
    PROVE  SubmissionOK'
BY DEF SubmissionOK, Return

\* Every reachable state has the types of TypeOK.
THEOREM TypeCorrect == Spec => []TypeOK
<1>1. Init => TypeOK
  BY DEF Init, TypeOK, SubmissionOK, States
<1>2. TypeOK /\ [Next]_vars => TypeOK'
  <2> SUFFICES ASSUME TypeOK, [Next]_vars PROVE TypeOK'
    OBVIOUS
  <2>1. SubmissionOK /\ links \in [Urls -> Nat]
    BY DEF TypeOK
  <2>2. \A s \in Submitters : state[s] \in States
    BY DEF TypeOK, SubmissionOK
  <2>3. ASSUME NEW s \in Submitters, NEW u \in UrlsOf[s], Submit(s, u)
        PROVE  TypeOK'
    BY <2>3, UrlsAssumption DEF Submit, TypeOK, SubmissionOK, States
  <2>4. ASSUME NEW s \in Submitters, Verify(s)
        PROVE  TypeOK'
    <3>1. pc[s] # "idle" /\ UNCHANGED links
      BY <2>4 DEF Verify
    <3>2. {"Exists", "FetchingData", "Rejected"} \subseteq States
      BY DEF States
    <3>3. SubmissionOK'
      BY <2>1, <2>4, <3>1, <3>2, VerifyCases, WaitForType, ReturnType
    <3> QED BY <2>1, <3>1, <3>3 DEF TypeOK
  <2>5. ASSUME NEW s \in Submitters, Harvest(s) \/ HarvestFails(s)
        PROVE  TypeOK'
    <3>1. pc[s] # "idle" /\ UNCHANGED links
      BY <2>5 DEF Harvest, HarvestFails
    <3>2. {"Finished", "Error", "VerifyingCompleted"} \subseteq States
      BY DEF States
    <3>3. CASE Harvest(s)
      BY <2>1, <3>1, <3>2, <3>3, TaggedFinal, WaitForType
         DEF Harvest, Conclude, TypeOK
    <3>4. CASE HarvestFails(s)
      BY <2>1, <3>1, <3>2, <3>4, ReturnType DEF HarvestFails, TypeOK
    <3> QED BY <2>5, <3>3, <3>4
  <2>6. ASSUME NEW s \in Submitters, AddLink(s) \/ GetExisting(s) \/ Fault(s)
        PROVE  TypeOK'
    <3>1. pc[s] # "idle"
      BY <2>6 DEF AddLink, GetExisting, Fault
    <3>2. SubmissionOK'
      BY <2>1, <2>2, <2>6, <3>1, ReturnType DEF AddLink, GetExisting, Fault
    <3>3. links' \in [Urls -> Nat]
      BY <2>1, <2>6, <3>1, CurrentUrl DEF AddLink, GetExisting, Fault
    <3> QED BY <3>2, <3>3 DEF TypeOK
  <2>7. ASSUME NEW u \in Urls, RemoveDocument(u)
        PROVE  TypeOK'
    <3>1. links[u] \in Nat /\ links[u] - 1 \in Nat
      BY <2>1, <2>7 DEF RemoveDocument
    <3> QED
      BY <2>1, <2>7, <3>1
         DEF RemoveDocument, submission, TypeOK, SubmissionOK
  <2>8. CASE UNCHANGED vars
    BY <2>8 DEF vars, submission, TypeOK, SubmissionOK
  <2> QED
    BY <2>3, <2>4, <2>5, <2>6, <2>7, <2>8 DEF Next, Step
<1> QED
  BY <1>1, <1>2, PTL DEF Spec

-----------------------------------------------------------------------------

\* Clients that share no URL store none twice.
THEOREM UniqueWhenAlone ==
    ASSUME Disjoint
    PROVE  Spec => []UniqueInv
<1>1. Init => UniqueInv
  BY DEF Init, UniqueInv, UrlsUnique, MissingStaysMissing
<1>2. TypeOK /\ UniqueInv /\ [Next]_vars => UniqueInv'
  <2> SUFFICES ASSUME TypeOK, UniqueInv, [Next]_vars PROVE UniqueInv'
    OBVIOUS
  <2> USE DEF UniqueInv
  <2>1. links \in [Urls -> {0, 1}]
    BY DEF TypeOK, UrlsUnique
  <2>2. \A s \in Submitters : pc[s] # "idle" =>
            url[s] \in UrlsOf[s] /\ url[s] \in Urls /\ links[url[s]] \in {0, 1}
    BY <2>1, CurrentUrl
  <2>3. \A s \in Submitters :
            pc[s] \in {"fetch", "add"} => links[url[s]] = 0
    BY DEF MissingStaysMissing
  <2>4. links' \in [Urls -> {0, 1}] => UrlsUnique'
    BY DEF UrlsUnique
  <2>5. ASSUME NEW s \in Submitters, NEW u \in UrlsOf[s], Submit(s, u)
        PROVE  UniqueInv'
    <3>1. pc'[s] = "getByUrl" /\ UNCHANGED links
      BY <2>5 DEF Submit, TypeOK, SubmissionOK
    <3>2. \A t \in Submitters \ {s} : pc'[t] = pc[t] /\ url'[t] = url[t]
      BY <2>5 DEF Submit, TypeOK, SubmissionOK
    <3> QED BY <2>1, <2>4, <3>1, <3>2 DEF MissingStaysMissing
  <2>6. ASSUME NEW s \in Submitters, Verify(s)
        PROVE  UniqueInv'
    <3>1. pc[s] # "idle" /\ UNCHANGED <<links, url>>
      BY <2>6, VerifyCases DEF Verify, WaitFor, Return
    <3>2. links[url[s]] # 1 => links[url[s]] = 0
      BY <2>2, <3>1
    <3>3. pc'[s] \in {"fetch", "add"} => links[url[s]] = 0
      BY <2>6, <3>2, VerifyCases DEF WaitFor, Return, TypeOK, SubmissionOK
    <3>4. \A t \in Submitters \ {s} : pc'[t] = pc[t]
      BY <2>6, VerifyCases DEF WaitFor, Return, TypeOK, SubmissionOK
    <3> QED BY <2>1, <2>4, <3>1, <3>3, <3>4 DEF MissingStaysMissing
  <2>7. ASSUME NEW s \in Submitters, Harvest(s) \/ HarvestFails(s)
        PROVE  UniqueInv'
    <3>1. pc[s] = "fetch" /\ UNCHANGED <<links, url>>
      BY <2>7 DEF Harvest, HarvestFails, Conclude, WaitFor, Return
    <3>2. \A t \in Submitters \ {s} : pc'[t] = pc[t]
      BY <2>7 DEF Harvest, HarvestFails, Conclude, WaitFor, Return,
                  TypeOK, SubmissionOK
    <3> QED BY <2>1, <2>3, <2>4, <3>1, <3>2 DEF MissingStaysMissing
  <2>8. ASSUME NEW s \in Submitters, AddLink(s) \/ GetExisting(s) \/ Fault(s)
        PROVE  UniqueInv'
    <3>1. /\ pc[s] # "idle" /\ pc'[s] = "idle" /\ UNCHANGED url
          /\ \A t \in Submitters \ {s} : pc'[t] = pc[t]
      BY <2>8 DEF AddLink, GetExisting, Fault, Return, TypeOK, SubmissionOK
    <3>2. CASE UNCHANGED links
      BY <2>1, <2>3, <2>4, <3>1, <3>2 DEF MissingStaysMissing
    <3>3. CASE pc[s] = "add" /\ links' = [links EXCEPT ![url[s]] = @ + 1]
      <4>1. url[s] \in UrlsOf[s] /\ url[s] \in Urls /\ links[url[s]] = 0
        BY <2>2, <2>3, <3>3
      <4>2. links' = [links EXCEPT ![url[s]] = 1]
        BY <3>3, <4>1
      <4>3. ASSUME NEW t \in Submitters \ {s}, pc[t] # "idle"
            PROVE  links'[url[t]] = links[url[t]]
        BY <2>1, <2>2, <4>1, <4>2, <4>3 DEF Disjoint
      <4>4. links' \in [Urls -> {0, 1}]
        BY <2>1, <4>2
      <4> QED BY <2>3, <2>4, <3>1, <4>3, <4>4 DEF MissingStaysMissing
    <3> QED BY <2>8, <3>2, <3>3 DEF AddLink, GetExisting, Fault
  <2>9. ASSUME NEW u \in Urls, RemoveDocument(u)
        PROVE  UniqueInv'
    <3>1. links[u] = 1
      BY <2>1, <2>9 DEF RemoveDocument
    <3>2. links' = [links EXCEPT ![u] = 0]
      BY <2>9, <3>1 DEF RemoveDocument
    <3>3. UNCHANGED <<pc, url>>
      BY <2>9 DEF RemoveDocument, submission
    <3> QED BY <2>1, <2>2, <2>3, <2>4, <3>2, <3>3 DEF MissingStaysMissing
  <2>10. CASE UNCHANGED vars
    BY <2>10 DEF vars, submission, UrlsUnique, MissingStaysMissing
  <2> QED
    BY <2>5, <2>6, <2>7, <2>8, <2>9, <2>10 DEF Next, Step
<1> QED
  BY <1>1, <1>2, TypeCorrect, PTL DEF Spec

-----------------------------------------------------------------------------

\* A submission past the verifier is one the verifier let through.
Vetted ==
    \A s \in Submitters :
        pc[s] \in {"fetch", "add"} =>
            url[s] \notin BannedHosts \union BadProtocols

\* No interleaving of submissions adds a link on a banned host, or one that is
\* neither http: nor https:, shared URLs included.
THEOREM UnwantedStaysOut == Spec => UnwantedNeverAdded
<1>1. Init => Vetted
  BY DEF Init, Vetted
<1>2. TypeOK /\ Vetted /\ [Next]_vars => Vetted'
  <2> SUFFICES ASSUME TypeOK, Vetted, [Next]_vars PROVE Vetted'
    OBVIOUS
  <2> USE DEF TypeOK, SubmissionOK, Vetted, WaitFor, Return
  <2>1. ASSUME NEW s \in Submitters, NEW u \in UrlsOf[s], Submit(s, u)
        PROVE  Vetted'
    BY <2>1 DEF Submit
  <2>2. ASSUME NEW s \in Submitters, Verify(s)
        PROVE  Vetted'
    BY <2>2, VerifyCases
  <2>3. ASSUME NEW s \in Submitters, Step(s) \/ Fault(s), ~ Verify(s)
        PROVE  Vetted'
    BY <2>3, TaggedFinal DEF Step, Harvest, HarvestFails, AddLink, GetExisting,
                             Fault, Conclude
  <2>4. CASE UNCHANGED submission
    BY <2>4 DEF submission
  <2> QED
    BY <2>1, <2>2, <2>3, <2>4 DEF Next, RemoveDocument, vars
<1>3. TypeOK /\ Vetted /\ [Next]_vars =>
          [\A u \in BannedHosts \union BadProtocols :
               links'[u] <= links[u]]_links
  <2> SUFFICES ASSUME TypeOK, Vetted, [Next]_vars,
                      NEW u \in BannedHosts \union BadProtocols
               PROVE  links'[u] <= links[u]
    OBVIOUS
  <2>1. u \in Urls /\ links[u] \in Nat
    BY UrlsAssumption DEF TypeOK
  <2>2. ASSUME NEW s \in Submitters, pc[s] = "add",
               links' = [links EXCEPT ![url[s]] = @ + 1]
        PROVE  links'[u] <= links[u]
    BY <2>1, <2>2 DEF Vetted, TypeOK
  <2>3. ASSUME NEW v \in Urls, RemoveDocument(v)
        PROVE  links'[u] <= links[u]
    BY <2>1, <2>3 DEF RemoveDocument, TypeOK
  <2>4. CASE UNCHANGED links
    BY <2>1, <2>4
  <2> QED
    BY <2>2, <2>3, <2>4
       DEF Next, Step, Submit, Verify, Harvest, HarvestFails, AddLink,
           GetExisting, Fault, vars
<1> QED
  BY <1>1, <1>2, <1>3, TypeCorrect, PTL DEF Spec, UnwantedNeverAdded

-----------------------------------------------------------------------------
(* The ids in order, and a page of them                                    *)

IdRank(ids, id) == Cardinality({other \in ids : other <= id})

\* Sorted puts the id up to which there are k at the k-th place.
LEMMA SortedIds ==
    ASSUME NEW ids \in SUBSET Nat, IsFiniteSet(ids)
    PROVE  /\ Cardinality(ids) \in Nat
           /\ Sorted(ids) \in [1 .. Cardinality(ids) -> ids]
           /\ \A k \in 1 .. Cardinality(ids) : IdRank(ids, Sorted(ids)[k]) = k
           /\ \A x \in ids : IdRank(ids, x) \in 1 .. Cardinality(ids)
           /\ \A x \in ids : Sorted(ids)[IdRank(ids, x)] = x
           /\ \A x, y \in ids : x < y => IdRank(ids, x) < IdRank(ids, y)
<1> DEFINE n == Cardinality(ids)
           below(x) == {other \in ids : other <= x}
           rank == [x \in ids |-> IdRank(ids, x)]
<1>1. n \in Nat
  BY FS_CardinalityType
<1>2. ASSUME NEW x \in ids
      PROVE  IsFiniteSet(below(x)) /\ IdRank(ids, x) \in 1 .. n
  <2>1. below(x) \in SUBSET ids /\ x \in below(x)
    OBVIOUS
  <2> HIDE DEF below
  <2>2. /\ IsFiniteSet(below(x)) /\ Cardinality(below(x)) <= n
        /\ Cardinality(below(x)) \in Nat
    BY <2>1, FS_Subset, FS_CardinalityType
  <2>3. Cardinality(below(x)) # 0
    BY <2>1, <2>2, FS_EmptySet
  <2> QED
    BY <1>1, <2>2, <2>3 DEF IdRank, below
<1>3. ASSUME NEW x \in ids, NEW y \in ids, x < y
      PROVE  IdRank(ids, x) < IdRank(ids, y)
  <2>0. x \in Nat /\ y \in Nat
    OBVIOUS
  <2>1. below(x) \in SUBSET below(y)
    <3>1. \A other \in Nat : other <= x => other <= y
      BY <1>3, <2>0
    <3> QED
      BY <3>1
  <2>5. y \in below(y) /\ y \notin below(x)
    BY <1>3, <2>0
  <2>2. IsFiniteSet(below(y))
    BY <1>2
  <2> HIDE DEF below
  <2>3. /\ Cardinality(below(x)) <= Cardinality(below(y))
        /\ Cardinality(below(x)) # Cardinality(below(y))
    BY <2>1, <2>2, <2>5, FS_Subset
  <2>4. IdRank(ids, x) \in Int /\ IdRank(ids, y) \in Int
    <3>1. IdRank(ids, x) \in 1 .. n /\ IdRank(ids, y) \in 1 .. n
      BY <1>2
    <3> HIDE DEF n
    <3> QED
      BY <1>1, <3>1
  <2> QED
    BY <2>3, <2>4 DEF IdRank, below
<1>4. rank \in [ids -> 1 .. n] /\ \A x \in ids : rank[x] = IdRank(ids, x)
  BY <1>2
<1>5. ASSUME NEW x \in ids, NEW y \in ids, IdRank(ids, x) = IdRank(ids, y)
      PROVE  x = y
  <2>1. x < y \/ x = y \/ y < x
    OBVIOUS
  <2>2. IdRank(ids, x) \in Int /\ IdRank(ids, y) \in Int
    <3>1. IdRank(ids, x) \in 1 .. n /\ IdRank(ids, y) \in 1 .. n
      BY <1>2
    <3> HIDE DEF n
    <3> QED
      BY <1>1, <3>1
  <2> QED
    BY <1>3, <1>5, <2>1, <2>2
<1> HIDE DEF rank, n
<1>6. rank \in Injection(ids, 1 .. n)
  BY <1>4, <1>5 DEF Injection, IsInjective
<1>7. IsFiniteSet(1 .. n) /\ Cardinality(1 .. n) = n
  BY <1>1, FS_Interval
<1>8. rank \in Surjection(ids, 1 .. n)
  BY <1>6, <1>7, FS_Injection DEF n
<1>9. \A k \in 1 .. n : \E x \in ids : IdRank(ids, x) = k
  BY <1>4, <1>8 DEF Surjection
<1> DEFINE id(k) == CHOOSE x \in ids : IdRank(ids, x) = k
<1>10. Sorted(ids) = [k \in 1 .. n |-> id(k)]
  BY DEF Sorted, IdRank, n
<1>11. \A k \in 1 .. n : id(k) \in ids /\ IdRank(ids, id(k)) = k
  BY <1>9
<1> HIDE DEF id
<1>12. /\ Sorted(ids) \in [1 .. n -> ids]
       /\ \A k \in 1 .. n : Sorted(ids)[k] = id(k)
  BY <1>10, <1>11
<1>13. \A x \in ids : Sorted(ids)[IdRank(ids, x)] = x
  BY <1>2, <1>5, <1>11, <1>12
<1> QED
  BY <1>1, <1>2, <1>3, <1>11, <1>12, <1>13 DEF n

Increasing(q) == \A i, j \in DOMAIN q : i < j => q[i] < q[j]

\* A page shows the ids of its ranks, in order.
LEMMA PageIs ==
    ASSUME NEW ids \in SUBSET Nat, IsFiniteSet(ids),
           NEW p \in Nat \ {0}, NEW size \in Nat \ {0}
    PROVE  LET q == PageOf(Sorted(ids), p, size)
               skip == (p - 1) * size
           IN  /\ q \in Seq(Nat) /\ Len(q) <= size
               /\ Increasing(q)
               /\ ToSet(q) = {x \in ids : /\ skip < IdRank(ids, x)
                                          /\ IdRank(ids, x) <= p * size}
               /\ Cardinality(ids) > skip => q # <<>>
<1> DEFINE n == Cardinality(ids)
           s == Sorted(ids)
           skip == (p - 1) * size
           last == IF skip + size < n THEN skip + size ELSE n
           q == PageOf(s, p, size)
           rank(x) == IdRank(ids, x)
<1>1. /\ n \in Nat /\ s \in [1 .. n -> ids]
      /\ \A k \in 1 .. n : rank(s[k]) = k
      /\ \A x \in ids : rank(x) \in 1 .. n /\ s[rank(x)] = x
      /\ \A x, y \in ids : x < y => rank(x) < rank(y)
  BY SortedIds
<1>2. /\ skip \in Nat /\ p * size = skip + size
  <2>1. p - 1 \in Nat /\ size \in Nat
    OBVIOUS
  <2>2. (p - 1) * size \in Nat
    BY <2>1
  <2>3. p * size = (p - 1) * size + size
    OBVIOUS
  <2> QED
    BY <2>2, <2>3
<1> HIDE DEF s, n, rank, skip
<1>3. Len(s) = n
  <2> DEFINE at(i) == s[i]
  <2>1. s = [i \in 1 .. n |-> at(i)]
    BY <1>1
  <2>2. [i \in 1 .. n |-> at(i)] \in Seq(ids)
    <3>1. \A i \in 1 .. n : at(i) \in ids
      BY <1>1
    <3> HIDE DEF at
    <3> QED
      BY <1>1, <3>1, IsASeq
  <2>3. s \in Seq(ids) /\ DOMAIN s = 1 .. n
    <3> HIDE DEF at
    <3> QED
      BY <1>1, <2>1, <2>2
  <2>4. Len(s) \in Nat /\ DOMAIN s = 1 .. Len(s)
    BY <2>3, LenProperties
  <2> HIDE DEF at
  <2> QED
    BY <1>1, <2>3, <2>4
<1>4. q = SubSeq(s, skip + 1, last)
  BY <1>3 DEF PageOf, skip
<1> HIDE DEF q
<1>5. last \in Nat /\ last <= n /\ last <= skip + size
  BY <1>1, <1>2
<1>6. last = n \/ last = skip + size
  OBVIOUS
<1>7. skip < n => skip < last
  BY <1>1, <1>2
<1> HIDE DEF last
<1> DEFINE len == IF skip + 1 <= last THEN last - skip ELSE 0
<1>8. /\ q \in Seq(ids) /\ Len(q) = len
      /\ \A i \in 1 .. len : q[i] = s[skip + i]
  <2>1. \A i \in (skip + 1) .. last : s[i] \in ids
    BY <1>1, <1>2, <1>5
  <2>2. skip + 1 \in Int /\ last \in Int
    BY <1>2, <1>5
  <2>3. /\ q \in Seq(ids)
        /\ Len(q) = IF skip + 1 <= last THEN last - (skip + 1) + 1 ELSE 0
        /\ \A i \in 1 .. last - (skip + 1) + 1 : q[i] = s[(skip + 1) + i - 1]
    BY <1>4, <2>1, <2>2, SubSeqProperties
  <2>4. Len(q) = len
    BY <1>2, <1>5, <2>3
  <2>5. ASSUME NEW i \in 1 .. len PROVE q[i] = s[skip + i]
    <3>1. i \in 1 .. last - (skip + 1) + 1 /\ (skip + 1) + i - 1 = skip + i
      BY <1>2, <1>5
    <3> HIDE DEF len
    <3> QED
      BY <2>3, <3>1
  <2> HIDE DEF len
  <2> QED
    BY <2>3, <2>4, <2>5
<1>9. len \in Nat /\ len <= size /\ \A i \in 1 .. len : skip + i \in 1 .. n
  BY <1>1, <1>2, <1>5
<1>10. DOMAIN q = 1 .. len
  <2> HIDE DEF len
  <2> QED
    BY <1>8, LenProperties
<1>11. q \in Seq(Nat)
  <2> HIDE DEF len
  <2>1. \A i \in 1 .. len : q[i] \in Nat
    BY <1>8, <1>10, ElementOfSeq
  <2>2. q = [i \in 1 .. len |-> q[i]]
    BY <1>8, <1>10
  <2>3. len \in Nat
    BY <1>9
  <2>4. [i \in 1 .. len |-> q[i]] \in Seq(Nat)
    BY <2>1, <2>3, IsASeq
  <2> QED
    BY <2>2, <2>4
<1>12. ASSUME NEW i \in 1 .. len
       PROVE  q[i] \in ids /\ rank(q[i]) = skip + i
  <2> HIDE DEF len
  <2> QED
    BY <1>1, <1>8, <1>9
<1>13. Increasing(q)
  <2> SUFFICES ASSUME NEW i \in 1 .. len, NEW j \in 1 .. len, i < j
               PROVE  q[i] < q[j]
    BY <1>10 DEF Increasing
  <2>1. /\ q[i] \in ids /\ q[j] \in ids /\ rank(q[i]) < rank(q[j])
    BY <1>2, <1>9, <1>12
  <2>2. q[i] \in Nat /\ q[j] \in Nat
    BY <2>1
  <2>3. ~(q[j] < q[i]) /\ q[i] # q[j]
    <3>1. rank(q[i]) \in 1 .. n /\ rank(q[j]) \in 1 .. n
      BY <1>1, <2>1
    <3>2. rank(q[i]) \in Int /\ rank(q[j]) \in Int
      BY <1>1, <3>1
    <3>3. q[j] < q[i] => rank(q[j]) < rank(q[i])
      BY <1>1, <2>1
    <3>4. ~(rank(q[j]) < rank(q[i])) /\ rank(q[i]) # rank(q[j])
      BY <2>1, <3>2
    <3> QED
      BY <3>3, <3>4
  <2> QED
    BY <2>2, <2>3
<1>14. ToSet(q) = {x \in ids : skip < rank(x) /\ rank(x) <= p * size}
  <2>1. ASSUME NEW x \in ToSet(q)
        PROVE  x \in ids /\ skip < rank(x) /\ rank(x) <= p * size
    <3>1. PICK i \in 1 .. len : x = q[i]
      BY <1>10 DEF ToSet
    <3>2. skip < skip + i /\ skip + i <= p * size
      BY <1>2, <1>9
    <3> HIDE DEF len
    <3> QED
      BY <1>12, <3>1, <3>2
  <2>2. ASSUME NEW x \in ids, skip < rank(x), rank(x) <= p * size
        PROVE  x \in ToSet(q)
    <3>1. rank(x) \in 1 .. n /\ s[rank(x)] = x
      BY <1>1
    <3>2. rank(x) <= last
      BY <1>2, <1>6, <2>2, <3>1
    <3>3. rank(x) - skip \in 1 .. len /\ skip + (rank(x) - skip) = rank(x)
      BY <1>2, <1>5, <2>2, <3>1, <3>2
    <3> HIDE DEF len
    <3>4. q[rank(x) - skip] = x
      BY <1>8, <3>1, <3>3
    <3> QED
      BY <1>10, <3>3, <3>4 DEF ToSet
  <2> QED
    BY <2>1, <2>2
<1>15. n > skip => q # <<>>
  <2> SUFFICES ASSUME n > skip PROVE len # 0
    BY <1>8, EmptySeq
  <2> QED
    BY <1>1, <1>2, <1>5, <1>7
<1>16. Len(q) <= size
  BY <1>8, <1>9
<1> QED
  BY <1>11, <1>13, <1>14, <1>15, <1>16 DEF q, skip, rank, s, n
-----------------------------------------------------------------------------
(* The invariant                                                           *)

UrlSet == [place : Places, page : Nat, size : Nat, filtered : BOOLEAN]
ViewedUrls == {u \in UrlSet : u.page >= 1 /\ u.size >= 1}

MatchingInv == matching \in [BOOLEAN -> SUBSET Ids]

ViewInv == view.url \in ViewedUrls /\ view.total \in 0 .. MaxId

\* What a Next on the way of a walk asks for.
NextOf(u) == Url("list", u.page + 1, PageSize, u.filtered)

Requests == [url : UrlSet, next : BOOLEAN, at : {"count", "fetch"},
             counted : SUBSET Ids]

\* A Next of a walk asks for the next page, and has counted all it is owed.
RequestInv ==
    request # NoRequest =>
        /\ request \in Requests
        /\ \/ request.at = "count" /\ request.counted = {}
           \/ /\ request.at = "fetch" /\ request.url \in ViewedUrls
              /\ request.next /\ walk.on => walk.owed \subseteq request.counted
        /\ request.next /\ walk.on => request.url = NextOf(view.url)

\* A walk has got to the end of the page shown: there are no more ids up to one
\* it has seen than pages hold so far,
Seen(seen, ids, end) ==
    /\ Increasing(seen)
    /\ \A x \in ToSet(seen) : IdRank(ids, x) <= end

\* and more up to one it is owed.
Owed(owed, ids, end) ==
    \A x \in owed : x \in ids /\ IdRank(ids, x) > end

\* There is a further page for what it is owed, but for what stands behind
\* something that came too late to be counted.
Promised(owed, late, end, total) ==
    end < total \/ \A x \in owed : \E y \in late : y < x

OnTheWay(w, shown, ids) ==
    LET end == shown.url.page * PageSize
    IN  /\ shown.url = Url("list", shown.url.page, PageSize, shown.url.filtered)
        /\ Seen(w.seen, ids, end)
        /\ Owed(w.owed, ids, end)
        /\ Promised(w.owed, w.late, end, shown.total)

Walks == [on : BOOLEAN, seen : Seq(Nat), owed : SUBSET Ids, late : SUBSET Ids]

WalkInv ==
    /\ walk \in Walks
    /\ walk.on => OnTheWay(walk, view, Matching(view.url))

BrowsingInv == MatchingInv /\ ViewInv /\ RequestInv /\ WalkInv
-----------------------------------------------------------------------------
(* Ranks, pages and anchors                                                *)

\* What a list shows is a finite set of ids.
LEMMA MatchesAre ==
    ASSUME NEW ids \in SUBSET Ids
    PROVE  /\ ids \in SUBSET Nat /\ IsFiniteSet(ids)
           /\ Cardinality(ids) \in Nat /\ Cardinality(ids) <= MaxId
<1>1. MaxId \in Nat /\ Ids = 1 .. MaxId
  BY BrowsingAssumption DEF Ids
<1>2. IsFiniteSet(Ids) /\ Cardinality(Ids) = MaxId /\ Ids \subseteq Nat
  BY <1>1, FS_Interval
<1>3. /\ IsFiniteSet(ids) /\ Cardinality(ids) \in Nat
      /\ Cardinality(ids) <= MaxId
  BY <1>2, FS_Subset, FS_CardinalityType
<1> QED
  BY <1>2, <1>3

\* A set of the ids up to x that is within a set has no more elements.
LEMMA RankWithin ==
    ASSUME NEW ids \in SUBSET Ids, NEW all \in SUBSET Ids, NEW x \in Nat,
           {other \in ids : other <= x} \subseteq all
    PROVE  IdRank(ids, x) \in Nat /\ IdRank(ids, x) <= Cardinality(all)
<1> DEFINE below == {other \in ids : other <= x}
<1>1. below \in SUBSET all /\ IsFiniteSet(all)
  BY MatchesAre
<1> HIDE DEF below
<1>2. Cardinality(below) \in Nat /\ Cardinality(below) <= Cardinality(all)
  BY <1>1, FS_Subset, FS_CardinalityType
<1> QED
  BY <1>2 DEF below, IdRank

\* The rank of an id, be it in the set or not: it does not fall when ids join,
\* nor from an id to a larger one.
LEMMA RankGrows ==
    ASSUME NEW ids \in SUBSET Ids, NEW more \in SUBSET Ids, ids \subseteq more,
           NEW x \in Nat, NEW y \in Nat, x <= y
    PROVE  /\ IdRank(ids, x) \in Nat /\ IdRank(more, y) \in Nat
           /\ IdRank(ids, x) <= IdRank(more, y)
<1> DEFINE all == {other \in more : other <= y}
<1>0. \A other \in Ids : other \in Nat
  BY MatchesAre
<1>1. all \in SUBSET Ids
  OBVIOUS
<1>2. {other \in ids : other <= x} \subseteq all
  BY <1>0
<1>3. Cardinality(all) = IdRank(more, y)
  BY DEF IdRank
<1> HIDE DEF all
<1>4. IdRank(ids, x) \in Nat /\ IdRank(ids, x) <= Cardinality(all)
  BY <1>1, <1>2, RankWithin
<1>5. Cardinality(all) \in Nat
  BY <1>1, MatchesAre
<1> QED
  BY <1>3, <1>4, <1>5

\* It stays when an id behind it joins or leaves.
LEMMA RankStays ==
    ASSUME NEW ids \in SUBSET Ids, NEW other \in SUBSET Ids, NEW x \in Nat,
           \A y \in Ids : y <= x => (y \in ids <=> y \in other)
    PROVE  IdRank(other, x) = IdRank(ids, x)
<1>1. {y \in other : y <= x} = {y \in ids : y <= x}
  OBVIOUS
<1> QED
  BY <1>1 DEF IdRank

\* The number of pages: up to it a page begins before the end of what is
\* counted, and from it on a page ends at the end or after it.
LEMMA TotalIs ==
    ASSUME NEW count \in Nat, NEW size \in Nat \ {0}
    PROVE  /\ TotalPages(count, size) \in Nat
           /\ \A a \in Nat :
                 /\ a >= TotalPages(count, size) => count <= a * size
                 /\ a \in 1 .. TotalPages(count, size) =>
                        (a - 1) * size < count
<1> DEFINE whole == count + size - 1
           pages == whole \div size
           rest == whole % size
<1>1. whole \in Nat /\ TotalPages(count, size) = pages
  BY DEF TotalPages
<1> HIDE DEF whole
<1>2. pages \in Int /\ rest \in 0 .. (size - 1) /\ whole = size * pages + rest
  BY <1>1
<1>3. pages >= 0
  BY <1>1
<1> HIDE DEF pages, rest
<1>4. pages \in Nat /\ size * pages \in Nat
  BY <1>2, <1>3
<1>5. ASSUME NEW a \in Nat, a >= pages PROVE count <= a * size
  <2>1. PICK d \in Nat : a = pages + d
    <3>1. a - pages \in Nat /\ a = pages + (a - pages)
      BY <1>4, <1>5
    <3> QED
      BY <3>1
  <2>2. a * size = size * pages + d * size /\ d * size \in Nat
    BY <1>4, <2>1
  <2>3. a * size >= size * pages
    BY <1>4, <2>2
  <2> DEFINE product == size * pages
             end == a * size
  <2>4. product \in Nat /\ end \in Nat /\ end >= product
        /\ count + size - 1 = product + rest
    BY <1>2, <1>4, <2>3 DEF whole
  <2> HIDE DEF product, end
  <2>5. count <= end
    BY <1>2, <2>4
  <2> QED
    BY <2>5 DEF end
<1>6. ASSUME NEW a \in Nat, a \in 1 .. pages PROVE (a - 1) * size < count
  <2>1. PICK d \in Nat : pages = (a - 1) + 1 + d
    <3>1. pages - a \in Nat /\ pages = (a - 1) + 1 + (pages - a)
      BY <1>4, <1>6
    <3> QED
      BY <3>1
  <2> DEFINE b == a - 1
  <2>2. b \in Nat /\ pages = b + 1 + d
    BY <1>6, <2>1
  <2> HIDE DEF b
  <2>3. size * pages = b * size + size + d * size /\ d * size \in Nat
        /\ b * size \in Nat
    BY <2>2
  <2> DEFINE product == size * pages
             start == b * size
             gap == d * size
  <2>4. /\ product \in Nat /\ start \in Nat /\ gap \in Nat
        /\ product = start + size + gap
        /\ count + size - 1 = product + rest
    BY <1>2, <1>4, <2>3 DEF whole
  <2> HIDE DEF product, start, gap
  <2>5. start < count
    BY <1>2, <2>4
  <2> QED
    BY <2>5 DEF start, b
<1> QED
  BY <1>1, <1>4, <1>5, <1>6

\* The anchors of a pager lead to pages there are; Next leads to the next one.
LEMMA TurnsLead ==
    ASSUME NEW page \in Nat \ {0}, NEW pages \in Nat,
           NEW anchor \in Turns(page, pages)
    PROVE  /\ anchor.page \in Nat \ {0}
           /\ page <= pages => anchor.page <= pages
           /\ anchor.label = "Next" => anchor.page = page + 1
BY DEF Turns, Anchor

\* The last page has no Next, every other one has.
LEMMA NextOffered ==
    ASSUME NEW page \in Nat \ {0}, NEW pages \in Nat, page < pages
    PROVE  \E anchor \in Turns(page, pages) : anchor.label = "Next"
<1>1. Anchor("Next", page + 1) \in Turns(page, pages)
  BY DEF Turns
<1> QED
  BY <1>1 DEF Anchor

\* So it is with the pager of every page that has one.
LEMMA PagerLeads ==
    ASSUME NEW shown, shown.url \in ViewedUrls, shown.total \in Nat,
           NEW anchor \in PagerOn(shown)
    PROVE  /\ shown.url.place \in {"home", "links", "list"}
           /\ anchor.page \in Nat \ {0}
           /\ anchor.label = "Next" => anchor.page = shown.url.page + 1
           /\ shown.url.page <= TotalPages(shown.total, shown.url.size) =>
                 anchor.page \in 1 .. TotalPages(shown.total, shown.url.size)
<1> DEFINE pages == TotalPages(shown.total, shown.url.size)
           page == shown.url.page
<1>1. page \in Nat \ {0} /\ shown.url.size \in Nat \ {0}
      /\ shown.url.place \in Places
  BY DEF ViewedUrls, UrlSet
<1>2. pages \in Nat
  BY <1>1, TotalIs
<1>3. anchor \in Turns(page, pages)
      /\ shown.url.place \in {"home", "links", "list"}
  <2>1. HomePager = {} /\ OldHomePager = {}
    BY DEF HomePager, OldHomePager, PagerComponent, OldPagerComponent
  <2> HIDE DEF page, pages
  <2>2. shown.url.place # "adminHome" /\ shown.url.place # "oldAdminHome"
    BY <2>1 DEF PagerOn
  <2>3. shown.url.place \in {"home", "links", "list"}
    BY <1>1, <2>2 DEF Places
  <2>4. PagerOn(shown) \subseteq Turns(page, pages)
    BY <2>3 DEF PagerOn, SitePager, PagerTagHelper, page, pages
  <2> QED
    BY <2>3, <2>4
<1> HIDE DEF page, pages
<1>4. /\ anchor.page \in Nat \ {0}
      /\ page <= pages => anchor.page <= pages
      /\ anchor.label = "Next" => anchor.page = page + 1
  BY <1>1, <1>2, <1>3, TurnsLead
<1>5. page <= pages => anchor.page \in 1 .. pages
  BY <1>2, <1>4
<1> QED
  BY <1>3, <1>4, <1>5 DEF page, pages
-----------------------------------------------------------------------------
(* What the invariant gives                                                *)

\* The links of a list, with a filter or without.
LEMMA ListIs ==
    ASSUME MatchingInv, NEW u, u.filtered \in BOOLEAN
    PROVE  Matching(u) \in SUBSET Ids
BY DEF MatchingInv, Matching

\* A page without a Next ends where the links that were counted end, or after
\* that: nothing more was promised to the walk.
LEMMA WalkEnds ==
    ASSUME BrowsingInv
    PROVE  WalkSeesEachOnce
<1> SUFFICES ASSUME walk.on
             PROVE  /\ Increasing(walk.seen)
                    /\ \/ \E anchor \in PagerOn(view) : anchor.label = "Next"
                       \/ \A x \in walk.owed : \E y \in walk.late : y < x
  BY DEF WalkSeesEachOnce, Increasing
<1> DEFINE page == view.url.page
           pages == TotalPages(view.total, PageSize)
           end == page * PageSize
<1>1. /\ view.url = Url("list", page, PageSize, view.url.filtered)
      /\ Increasing(walk.seen)
      /\ Promised(walk.owed, walk.late, end, view.total)
  BY DEF BrowsingInv, WalkInv, OnTheWay, Seen
<1>2. /\ page \in Nat \ {0} /\ view.total \in Nat
      /\ view.url.place = "list" /\ view.url.size = PageSize
  BY <1>1, BrowsingAssumption
     DEF BrowsingInv, ViewInv, ViewedUrls, UrlSet, Url
<1>3. PageSize \in Nat \ {0} /\ pages \in Nat
  BY <1>2, BrowsingAssumption, TotalIs
<1> HIDE DEF page, pages
<1>4. PagerOn(view) = Turns(page, pages)
  BY <1>2 DEF PagerOn, PagerTagHelper, page, pages
<1>5. page < pages => \E anchor \in PagerOn(view) : anchor.label = "Next"
  BY <1>2, <1>3, <1>4, NextOffered
<1>6. page >= pages => view.total <= end
  BY <1>2, <1>3, TotalIs DEF pages
<1>7. page < pages \/ page >= pages
  BY <1>2, <1>3
<1>8. end \in Nat
  BY <1>2, <1>3
<1> HIDE DEF end
<1>9. view.total <= end => ~(end < view.total)
  BY <1>2, <1>8
<1> QED
  BY <1>1, <1>5, <1>6, <1>7, <1>9 DEF Promised

\* An anchor leads to a page that begins before the end of what was counted.
LEMMA AnchorsLead ==
    ASSUME BrowsingInv
    PROVE  AnchorsLeadToLinks
<1> SUFFICES ASSUME NEW anchor \in PagerOn(view)
             PROVE  LET u == Served(Target(view, anchor))
                    IN  /\ ~Refused(u)
                        /\ /\ view.url.size = PageSize
                           /\ view.url.page <= TotalPages(view.total, PageSize)
                           /\ Cardinality(Matching(u)) >= view.total
                           => PageOf(Sorted(Matching(u)), u.page, u.size)
                                  # <<>>
  BY DEF AnchorsLeadToLinks
<1> DEFINE u == Served(Target(view, anchor))
           pages == TotalPages(view.total, PageSize)
           ids == Matching(u)
<1>1. view.url \in ViewedUrls /\ view.total \in Nat
  BY BrowsingAssumption DEF BrowsingInv, ViewInv
<1>2. /\ view.url.place \in {"home", "links", "list"}
      /\ anchor.page \in Nat \ {0}
      /\ view.url.page <= TotalPages(view.total, view.url.size) =>
            anchor.page \in 1 .. TotalPages(view.total, view.url.size)
  BY <1>1, PagerLeads
<1>3. PageSize \in Nat \ {0} /\ PageSize >= 1 /\ ~(PageSize < 1)
  BY BrowsingAssumption
<1>4. /\ u.size = PageSize /\ u.place \in {"home", "list"}
      /\ u.page \in {1, anchor.page}
      /\ Served(u) = u /\ u.filtered \in BOOLEAN
  BY <1>1, <1>2 DEF Target, Served, Url, ViewedUrls, UrlSet
<1> HIDE DEF u
<1>5. u.page \in Nat \ {0} /\ ~(u.page < 1)
  BY <1>2, <1>4
<1>6. ~Refused(u)
  BY <1>3, <1>4, <1>5 DEF Refused
<1>7. ASSUME view.url.size = PageSize, view.url.page <= pages,
             Cardinality(ids) >= view.total
      PROVE  PageOf(Sorted(ids), u.page, u.size) # <<>>
  <2>1. ids \in SUBSET Nat /\ IsFiniteSet(ids)
    BY <1>4, ListIs, MatchesAre DEF BrowsingInv
  <2> HIDE DEF ids
  <2>2. pages \in Nat /\ u.page \in 1 .. pages
    <3>1. pages \in Nat
      BY <1>1, <1>3, TotalIs
    <3>2. anchor.page \in 1 .. pages
      BY <1>2, <1>7
    <3> HIDE DEF pages
    <3> QED
      BY <1>4, <3>1, <3>2
  <2> DEFINE skip == (u.page - 1) * PageSize
  <2>3. skip < view.total
    BY <1>1, <1>3, <1>5, <2>2, TotalIs
  <2>4. skip \in Nat
    <3>1. u.page - 1 \in Nat
      BY <1>5
    <3> QED
      BY <1>3, <3>1
  <2>5. Cardinality(ids) \in Nat
    BY <2>1, FS_CardinalityType
  <2>6. Cardinality(ids) > skip
    <3> HIDE DEF skip
    <3> QED
      BY <1>1, <1>7, <2>3, <2>4, <2>5
  <2>7. PageOf(Sorted(ids), u.page, PageSize) # <<>>
    BY <1>3, <1>5, <2>1, <2>6, PageIs
  <2> QED
    BY <1>4, <2>7
<1> QED
  BY <1>6, <1>7 DEF u

-----------------------------------------------------------------------------
(* The steps                                                               *)

\* The site begins with nothing read.
LEMMA BrowsingInit_Inv ==
    ASSUME BrowsingInit
    PROVE  BrowsingInv
<1>1. MatchingInv
  BY DEF BrowsingInit, MatchingInv
<1>2. ViewInv
  <2>1. view.url = Url("adminHome", 1, PageSize, FALSE) /\ view.total = 0
    BY DEF BrowsingInit, Page
  <2>2. view.url \in ViewedUrls
    BY <2>1, BrowsingAssumption DEF Url, ViewedUrls, UrlSet, Places
  <2>3. view.total \in 0 .. MaxId
    BY <2>1, BrowsingAssumption
  <2> QED
    BY <2>2, <2>3 DEF ViewInv
<1>3. RequestInv
  BY DEF BrowsingInit, RequestInv
<1>4. WalkInv
  BY DEF BrowsingInit, WalkInv, NoWalk, Walks
<1> QED
  BY <1>1, <1>2, <1>3, <1>4 DEF BrowsingInv

\* Concatenation of ids in order: what is joined has the elements of both, and
\* is in order when all of the second are larger.
LEMMA Joined ==
    ASSUME NEW a \in Seq(Nat), NEW b \in Seq(Nat),
           Increasing(a), Increasing(b),
           \A x \in ToSet(a) : \A y \in ToSet(b) : x < y
    PROVE  /\ a \o b \in Seq(Nat) /\ Increasing(a \o b)
           /\ ToSet(a \o b) = ToSet(a) \union ToSet(b)
<1> DEFINE q == a \o b
           m == Len(a)
           n == Len(b)
<1>1. /\ m \in Nat /\ n \in Nat /\ DOMAIN a = 1 .. m /\ DOMAIN b = 1 .. n
  BY LenProperties
<1>2. /\ q \in Seq(Nat) /\ Len(q) = m + n
      /\ \A i \in 1 .. m : q[i] = a[i]
      /\ \A i \in 1 .. m + n : i > m => q[i] = b[i - m]
  BY ConcatProperties
<1> HIDE DEF q, m, n
<1>3. DOMAIN q = 1 .. m + n
  BY <1>2, LenProperties
<1>4. \A i \in 1 .. m + n : i \in 1 .. m \/ (i > m /\ i - m \in 1 .. n)
  BY <1>1
<1>5. \A i \in 1 .. n : m + i \in 1 .. m + n /\ m + i > m /\ (m + i) - m = i
  BY <1>1
<1>6. \A i \in 1 .. m : i \in 1 .. m + n
  BY <1>1
<1>7. ToSet(q) = ToSet(a) \union ToSet(b)
  <2>1. ASSUME NEW x \in ToSet(q) PROVE x \in ToSet(a) \union ToSet(b)
    <3>1. PICK i \in 1 .. m + n : x = q[i]
      BY <1>3 DEF ToSet
    <3>2. CASE i \in 1 .. m
      BY <1>1, <1>2, <3>1, <3>2 DEF ToSet
    <3>3. CASE i > m /\ i - m \in 1 .. n
      BY <1>1, <1>2, <3>1, <3>3 DEF ToSet
    <3> QED
      BY <1>4, <3>2, <3>3
  <2>2. ASSUME NEW x \in ToSet(a) PROVE x \in ToSet(q)
    <3>1. PICK i \in 1 .. m : x = a[i]
      BY <1>1 DEF ToSet
    <3> QED
      BY <1>2, <1>3, <1>6, <3>1 DEF ToSet
  <2>3. ASSUME NEW x \in ToSet(b) PROVE x \in ToSet(q)
    <3>1. PICK i \in 1 .. n : x = b[i]
      BY <1>1 DEF ToSet
    <3>2. x = q[m + i]
      BY <1>2, <1>5, <3>1
    <3> QED
      BY <1>3, <1>5, <3>1, <3>2 DEF ToSet
  <2> QED
    BY <2>1, <2>2, <2>3
<1>8. Increasing(q)
  <2> SUFFICES ASSUME NEW i \in 1 .. m + n, NEW j \in 1 .. m + n, i < j
               PROVE  q[i] < q[j]
    BY <1>3 DEF Increasing
  <2>1. CASE j \in 1 .. m
    <3>1. i \in 1 .. m
      BY <1>1, <2>1
    <3> QED
      BY <1>1, <1>2, <2>1, <3>1 DEF Increasing
  <2>2. CASE i > m /\ i - m \in 1 .. n /\ j > m /\ j - m \in 1 .. n
    <3>1. i - m < j - m
      BY <1>1
    <3>2. b[i - m] < b[j - m]
      BY <1>1, <2>2, <3>1 DEF Increasing
    <3> QED
      BY <1>2, <2>2, <3>2
  <2>3. CASE i \in 1 .. m /\ j > m /\ j - m \in 1 .. n
    <3>1. q[i] \in ToSet(a) /\ q[j] \in ToSet(b)
      BY <1>1, <1>2, <2>3 DEF ToSet
    <3> QED
      BY <3>1
  <2> QED
    BY <1>4, <2>1, <2>2, <2>3
<1> QED
  BY <1>2, <1>7, <1>8 DEF q

\* The links of a page of a list.
ItemsOf(u) == PageOf(Sorted(Matching(u)), u.page, u.size)

\* They are those of its ranks, in order.
LEMMA ItemsAre ==
    ASSUME MatchingInv, NEW u \in ViewedUrls
    PROVE  LET skip == (u.page - 1) * u.size
           IN  /\ ItemsOf(u) \in Seq(Nat) /\ Increasing(ItemsOf(u))
               /\ ToSet(ItemsOf(u)) =
                    {x \in Matching(u) :
                        /\ skip < IdRank(Matching(u), x)
                        /\ IdRank(Matching(u), x) <= u.page * u.size}
<1> DEFINE p == u.page
           size == u.size
           ids == Matching(u)
           q == PageOf(Sorted(ids), p, size)
<1>1. p \in Nat \ {0} /\ size \in Nat \ {0}
  BY DEF ViewedUrls, UrlSet
<1>2. ids \in SUBSET Nat /\ IsFiniteSet(ids)
  BY ListIs, MatchesAre DEF ViewedUrls, UrlSet
<1> HIDE DEF p, size, ids
<1>3. /\ q \in Seq(Nat) /\ Increasing(q)
      /\ ToSet(q) = {x \in ids : /\ (p - 1) * size < IdRank(ids, x)
                                 /\ IdRank(ids, x) <= p * size}
  BY <1>1, <1>2, PageIs
<1>4. ItemsOf(u) = q
  BY DEF ItemsOf, p, size, ids
<1> HIDE DEF q
<1> QED
  BY <1>3, <1>4 DEF p, size, ids

\* What was counted and is owed after the last page lies on a further one,
\* but for what stands behind something that was not counted.
LEMMA CountedIsPromised ==
    ASSUME NEW ids \in SUBSET Ids, NEW counted \in SUBSET Ids,
           NEW owed \in SUBSET counted, NEW end \in Nat, Owed(owed, ids, end)
    PROVE  Promised(owed, ids \ counted, end, Cardinality(counted))
<1> SUFFICES ASSUME ~(end < Cardinality(counted)), NEW x \in owed,
                    \A y \in ids \ counted : ~(y < x)
             PROVE  FALSE
  BY DEF Promised
<1>1. x \in ids /\ x \in counted /\ IdRank(ids, x) > end
  BY DEF Owed
<1>2. x \in Nat /\ \A y \in ids : y \in Nat
  BY <1>1, MatchesAre
<1>3. {other \in ids : other <= x} \subseteq counted
  <2>1. ASSUME NEW other \in ids, other <= x, other \notin counted
        PROVE  FALSE
    <3>1. other = x
      BY <1>2, <2>1
    <3> QED
      BY <1>1, <2>1, <3>1
  <2> QED
    BY <2>1
<1>4. IdRank(ids, x) \in Nat /\ IdRank(ids, x) <= Cardinality(counted)
  BY <1>2, <1>3, RankWithin
<1>5. Cardinality(counted) \in Nat
  BY MatchesAre
<1> QED
  BY <1>1, <1>4, <1>5

\* A first page begins a walk that has got to its end.
LEMMA WalkBegins ==
    ASSUME NEW items \in Seq(Nat), Increasing(items),
           NEW ids \in SUBSET Ids, NEW counted \in SUBSET Ids, NEW end \in Nat,
           ToSet(items) = {x \in ids : /\ 0 < IdRank(ids, x)
                                       /\ IdRank(ids, x) <= end}
    PROVE  LET owed == (counted \intersect ids) \ ToSet(items)
           IN  /\ Seen(items, ids, end)
               /\ Owed(owed, ids, end)
               /\ Promised(owed, ids \ counted, end, Cardinality(counted))
<1> DEFINE owed == (counted \intersect ids) \ ToSet(items)
<1>1. Seen(items, ids, end)
  BY DEF Seen
<1>2. \A x \in ids : IdRank(ids, x) \in Nat /\ IdRank(ids, x) > 0
  <2>1. ids \in SUBSET Nat /\ IsFiniteSet(ids)
    BY MatchesAre
  <2>2. /\ Cardinality(ids) \in Nat
        /\ \A x \in ids : IdRank(ids, x) \in 1 .. Cardinality(ids)
    BY <2>1, SortedIds
  <2> QED
    BY <2>2
<1>3. Owed(owed, ids, end)
  BY <1>2 DEF Owed
<1>4. owed \in SUBSET counted
  OBVIOUS
<1> HIDE DEF owed
<1>5. Promised(owed, ids \ counted, end, Cardinality(counted))
  BY <1>3, <1>4, CountedIsPromised
<1> QED
  BY <1>1, <1>3, <1>5 DEF owed

\* The next page goes on where the walk has got to.
LEMMA WalkGoesOn ==
    ASSUME NEW items \in Seq(Nat), Increasing(items),
           NEW ids \in SUBSET Ids, NEW counted \in SUBSET Ids,
           NEW last \in Nat, NEW end \in Nat, last <= end,
           ToSet(items) = {x \in ids : /\ last < IdRank(ids, x)
                                       /\ IdRank(ids, x) <= end},
           NEW seen \in Seq(Nat), Seen(seen, ids, last),
           NEW owed \in SUBSET counted, Owed(owed, ids, last)
    PROVE  /\ seen \o items \in Seq(Nat)
           /\ Seen(seen \o items, ids, end)
           /\ Owed(owed \ ToSet(items), ids, end)
           /\ Promised(owed \ ToSet(items), ids \ counted, end,
                       Cardinality(counted))
<1> DEFINE rest == owed \ ToSet(items)
           both == seen \o items
<1>1. /\ \A x \in ToSet(seen) : x \in Nat /\ IdRank(ids, x) <= last
      /\ Increasing(seen)
  <2>1. \A x \in ToSet(seen) : x \in Nat
    BY ElementOfSeq, LenProperties DEF ToSet
  <2> QED
    BY <2>1 DEF Seen
<1>2. \A x \in ids : x \in Nat
  BY MatchesAre
<1>3. \A x \in Nat : IdRank(ids, x) \in Nat
  BY RankGrows
<1>4. ASSUME NEW x \in ToSet(seen), NEW y \in ToSet(items)
      PROVE  x < y
  <2>1. y \in ids /\ last < IdRank(ids, y) /\ y \in Nat /\ x \in Nat
    BY <1>1, <1>2
  <2>2. y <= x => IdRank(ids, y) <= IdRank(ids, x)
    BY <2>1, RankGrows
  <2>3. IdRank(ids, x) <= last /\ IdRank(ids, x) \in Nat /\ IdRank(ids, y) \in Nat
    BY <1>1, <1>3, <2>1
  <2>4. ~(y <= x)
    BY <2>1, <2>2, <2>3
  <2> QED
    BY <2>1, <2>4
<1>5. /\ both \in Seq(Nat) /\ Increasing(both)
      /\ ToSet(both) = ToSet(seen) \union ToSet(items)
  BY <1>1, <1>4, Joined
<1> HIDE DEF both
<1>6. Seen(both, ids, end)
  <2>1. ASSUME NEW x \in ToSet(seen) PROVE IdRank(ids, x) <= end
    BY <1>1, <1>3
  <2> QED
    BY <1>5, <2>1 DEF Seen
<1>7. Owed(rest, ids, end)
  <2> SUFFICES ASSUME NEW x \in owed, x \notin ToSet(items)
               PROVE  x \in ids /\ IdRank(ids, x) > end
    BY DEF Owed
  <2>1. x \in ids /\ IdRank(ids, x) > last
    BY DEF Owed
  <2> QED
    BY <1>2, <1>3, <2>1
<1>8. rest \in SUBSET counted
  OBVIOUS
<1> HIDE DEF rest
<1>9. Promised(rest, ids \ counted, end, Cardinality(counted))
  BY <1>7, <1>8, CountedIsPromised
<1> QED
  BY <1>5, <1>6, <1>7, <1>9 DEF both, rest

\* A Next of a walk under way asks for the next page of the list, with the
\* filter of the page that is shown; it is served as it is.
LEMMA NextIsServed ==
    ASSUME BrowsingInv, walk.on
    PROVE  LET u == NextOf(view.url)
           IN  /\ Served(u) = u /\ ~Refused(u) /\ ~NoList(u)
               /\ u.page = view.url.page + 1 /\ u.size = PageSize
               /\ u = Url("list", u.page, PageSize, u.filtered)
               /\ Matching(u) = Matching(view.url)
<1>1. view.url.page \in Nat /\ view.url.page >= 1
  BY DEF BrowsingInv, ViewInv, ViewedUrls, UrlSet
<1>2. ~(view.url.page + 1 < 1) /\ ~(PageSize < 1)
  BY <1>1, BrowsingAssumption
<1>3. /\ NextOf(view.url).place = "list"
      /\ NextOf(view.url).page = view.url.page + 1
      /\ NextOf(view.url).size = PageSize
      /\ NextOf(view.url).filtered = view.url.filtered
  BY DEF NextOf, Url
<1>4. Served(NextOf(view.url)) = NextOf(view.url)
  BY <1>3 DEF Served
<1> QED
  BY <1>2, <1>3, <1>4 DEF Refused, NoList, Matching, NextOf, Url

\* What is not refused has a page and a size.
LEMMA ServedIsViewed ==
    ASSUME NEW u \in UrlSet, ~Refused(u)
    PROVE  Served(u) \in ViewedUrls
<1>1. PageSize \in Nat \ {0}
  BY BrowsingAssumption
<1>2. Served(u) \in UrlSet
  BY <1>1 DEF Served, Url, UrlSet, Places
<1>3. Served(u).page \in Nat /\ Served(u).size \in Nat
  BY <1>2 DEF UrlSet
<1>4. ~(Served(u).page < 1) /\ ~(Served(u).size < 1)
  BY DEF Refused
<1> HIDE DEF Served
<1>5. Served(u).page >= 1 /\ Served(u).size >= 1
  BY <1>3, <1>4
<1> QED
  BY <1>2, <1>5 DEF ViewedUrls

\* What a request has, counted or not yet, when its page arrives.
Arrives(u) ==
    /\ request.counted \in SUBSET Ids
    /\ request.next /\ walk.on =>
           u = NextOf(view.url) /\ walk.owed \subseteq request.counted

\* The page that arrives begins a walk, goes on with one, or ends it.
LEMMA WalkStays ==
    ASSUME BrowsingInv, NEW u \in ViewedUrls, Arrives(u),
           NEW shown, shown = Page(u, Cardinality(request.counted))
    PROVE  LET w == Walked(request.next, shown, ItemsOf(u))
           IN  /\ w \in Walks
               /\ w.on => OnTheWay(w, shown, Matching(u))
<1> DEFINE counted == request.counted
           items == ItemsOf(u)
           w == Walked(request.next, shown, items)
           ids == Matching(u)
           end == u.page * PageSize
<1>1. /\ shown.url = u /\ shown.total = Cardinality(counted)
      /\ Late(shown) = ids \ counted
  BY DEF Page, Late
<1>2. ids \in SUBSET Ids /\ counted \in SUBSET Ids
  BY ListIs DEF BrowsingInv, ViewedUrls, UrlSet, Arrives
<1>3. /\ items \in Seq(Nat) /\ Increasing(items)
      /\ ToSet(items) = {x \in ids : /\ (u.page - 1) * u.size < IdRank(ids, x)
                                     /\ IdRank(ids, x) <= u.page * u.size}
  BY ItemsAre DEF BrowsingInv
<1>4. u.page \in Nat \ {0} /\ PageSize \in Nat \ {0}
  BY BrowsingAssumption DEF ViewedUrls, UrlSet
<1>5. end \in Nat
  BY <1>4
<1> HIDE DEF items, ids, end
<1>6. CASE u = Url("list", 1, PageSize, u.filtered)
  <2> DEFINE owed == (counted \intersect ids) \ ToSet(items)
  <2>1. w = [on |-> TRUE, seen |-> items, owed |-> owed,
             late |-> ids \ counted]
    BY <1>1, <1>6 DEF Walked, ids
  <2>2. u.page = 1 /\ u.size = PageSize
    BY <1>6 DEF Url
  <2>3. (u.page - 1) * u.size = 0 /\ u.page * u.size = end
    BY <1>4, <2>2 DEF end
  <2>4. ToSet(items) = {x \in ids : /\ 0 < IdRank(ids, x)
                                    /\ IdRank(ids, x) <= end}
    BY <1>3, <2>3
  <2>5. /\ Seen(items, ids, end)
        /\ Owed(owed, ids, end)
        /\ Promised(owed, ids \ counted, end, Cardinality(counted))
    BY <1>2, <1>3, <1>5, <2>4, WalkBegins
  <2>6. owed \in SUBSET Ids /\ ids \ counted \in SUBSET Ids
    BY <1>2
  <2> HIDE DEF owed
  <2>7. w \in Walks
    BY <1>3, <2>1, <2>6 DEF Walks
  <2>8. shown.url = Url("list", shown.url.page, PageSize, shown.url.filtered)
    BY <1>1, <1>6 DEF Url
  <2>9. w.seen = items /\ w.owed = owed /\ w.late = ids \ counted
    BY <2>1
  <2> HIDE DEF w
  <2>10. OnTheWay(w, shown, ids)
    BY <1>1, <2>5, <2>8, <2>9 DEF OnTheWay, end
  <2> QED
    BY <2>7, <2>10 DEF w, items, ids
<1>7. CASE /\ ~(u = Url("list", 1, PageSize, u.filtered))
           /\ request.next /\ walk.on
  <2> DEFINE seen == walk.seen
             owed == walk.owed
             rest == owed \ ToSet(items)
             both == seen \o items
             last == view.url.page * PageSize
  <2>1. w = [on |-> TRUE, seen |-> both, owed |-> rest, late |-> ids \ counted]
    BY <1>1, <1>7 DEF Walked, ids
  <2>2. u = NextOf(view.url) /\ owed \in SUBSET counted
    BY <1>7 DEF Arrives
  <2>3. /\ u.page = view.url.page + 1 /\ u.size = PageSize
        /\ u = Url("list", u.page, PageSize, u.filtered)
        /\ ids = Matching(view.url)
    BY <1>7, <2>2, NextIsServed DEF ids
  <2>4. view.url.page \in Nat
    BY DEF BrowsingInv, ViewInv, ViewedUrls, UrlSet
  <2>5. /\ last \in Nat /\ (u.page - 1) * u.size = last
        /\ u.page * u.size = end /\ last <= end
    <3> DEFINE p == view.url.page
    <3>1. p \in Nat /\ u.page = p + 1 /\ u.size = PageSize
      BY <2>3, <2>4
    <3> HIDE DEF p
    <3>2. u.page - 1 = p
      BY <3>1
    <3>3. p * PageSize \in Nat /\ (p + 1) * PageSize = p * PageSize + PageSize
      BY <1>4, <3>1
    <3>4. last = p * PageSize /\ end = (p + 1) * PageSize
      BY <3>1 DEF p, end
    <3>5. last \in Nat /\ end = last + PageSize
      BY <3>3, <3>4
    <3>6. (u.page - 1) * u.size = last /\ u.page * u.size = end
      BY <3>1, <3>2, <3>4
    <3> HIDE DEF last
    <3>7. last <= end
      BY <1>4, <3>5
    <3> QED
      BY <3>5, <3>6, <3>7
  <2>6. /\ walk \in Walks
        /\ Seen(seen, ids, last) /\ Owed(owed, ids, last)
    BY <1>7, <2>3 DEF BrowsingInv, WalkInv, OnTheWay
  <2>7. seen \in Seq(Nat) /\ owed \in SUBSET Ids
    BY <2>6 DEF Walks
  <2>8. ToSet(items) = {x \in ids : /\ last < IdRank(ids, x)
                                    /\ IdRank(ids, x) <= end}
    BY <1>3, <2>5
  <2> HIDE DEF last, seen, owed, counted
  <2>9. /\ items \in Seq(Nat) /\ Increasing(items)
        /\ ids \in SUBSET Ids /\ counted \in SUBSET Ids
        /\ last \in Nat /\ end \in Nat /\ last <= end
        /\ seen \in Seq(Nat) /\ Seen(seen, ids, last)
        /\ owed \in SUBSET counted /\ Owed(owed, ids, last)
    BY <1>2, <1>3, <1>5, <2>2, <2>5, <2>6, <2>7
  <2>10. /\ both \in Seq(Nat) /\ Seen(both, ids, end)
         /\ Owed(rest, ids, end)
         /\ Promised(rest, ids \ counted, end, Cardinality(counted))
    BY <2>8, <2>9, WalkGoesOn
  <2>11. rest \in SUBSET Ids /\ ids \ counted \in SUBSET Ids
    BY <1>2, <2>7
  <2> HIDE DEF rest, both
  <2>12. w \in Walks
    BY <2>1, <2>10, <2>11 DEF Walks
  <2>13. w.seen = both /\ w.owed = rest /\ w.late = ids \ counted
    BY <2>1
  <2> HIDE DEF w
  <2>14. shown.url = Url("list", shown.url.page, PageSize, shown.url.filtered)
    BY <1>1, <2>3
  <2>15. OnTheWay(w, shown, ids)
    BY <1>1, <2>10, <2>13, <2>14 DEF OnTheWay, end
  <2> QED
    BY <2>12, <2>15 DEF w, items, ids
<1>8. CASE /\ ~(u = Url("list", 1, PageSize, u.filtered))
           /\ ~(request.next /\ walk.on)
  <2>1. w = NoWalk
    BY <1>1, <1>8 DEF Walked
  <2>2. NoWalk \in Walks /\ ~NoWalk.on
    BY DEF NoWalk, Walks
  <2> QED
    BY <2>1, <2>2 DEF items
<1> QED
  BY <1>6, <1>7, <1>8

\* A page with links, or the empty one, comes to be shown.
LEMMA ArrivalKeeps ==
    ASSUME BrowsingInv, NEW u \in ViewedUrls, Arrives(u),
           Show(Page(u, Cardinality(request.counted)), ItemsOf(u))
    PROVE  BrowsingInv'
<1> DEFINE shown == Page(u, Cardinality(request.counted))
           w == Walked(request.next, shown, ItemsOf(u))
<1>1. /\ view' = shown /\ request' = NoRequest /\ walk' = w
      /\ matching' = matching
  BY DEF Show
<1>2. shown.url = u /\ shown.total \in 0 .. MaxId
  <2>1. Cardinality(request.counted) \in 0 .. MaxId
    BY MatchesAre, BrowsingAssumption DEF Arrives
  <2> QED
    BY <2>1 DEF Page
<1>3. /\ w \in Walks
      /\ w.on => OnTheWay(w, shown, Matching(u))
  BY WalkStays
<1> HIDE DEF shown, w
<1>4. MatchingInv' /\ RequestInv'
  BY <1>1 DEF BrowsingInv, MatchingInv, RequestInv
<1>5. ViewInv'
  BY <1>1, <1>2 DEF ViewInv
<1>6. WalkInv'
  <2>1. Matching(view.url)' = Matching(u)
    BY <1>1, <1>2 DEF Matching
  <2>2. walk'.on => OnTheWay(walk', view', Matching(view.url)')
    BY <1>1, <1>3, <2>1
  <2>3. OnTheWay(walk, view, Matching(view.url))'
            <=> OnTheWay(walk', view', Matching(view.url)')
    BY DEF OnTheWay
  <2> QED
    BY <1>1, <1>3, <2>2, <2>3 DEF WalkInv
<1> QED
  BY <1>4, <1>5, <1>6 DEF BrowsingInv

\* A click on Next during a walk asks for NextOf the page that is shown.
LEMMA FollowKeeps ==
    ASSUME BrowsingInv, Follow
    PROVE  BrowsingInv'
<1>1. PICK anchor \in PagerOn(view) :
          request' = Request(Target(view, anchor), anchor.label = "Next")
  BY DEF Follow
<1>2. UNCHANGED <<matching, view, walk>>
  BY DEF Follow
<1>3. view.url \in ViewedUrls /\ view.total \in Nat
  BY BrowsingAssumption DEF BrowsingInv, ViewInv
<1>4. /\ anchor.page \in Nat
      /\ view.url.place \in {"home", "links", "list"}
      /\ anchor.label = "Next" => anchor.page = view.url.page + 1
  BY <1>3, PagerLeads
<1> DEFINE target == Target(view, anchor)
           next == anchor.label = "Next"
<1>5. target \in UrlSet
  BY <1>3, <1>4, BrowsingAssumption
     DEF Target, Url, UrlSet, ViewedUrls, Places
<1>6. ASSUME next, walk.on PROVE target = NextOf(view.url)
  <2>1. view.url.place = "list"
    BY <1>6 DEF BrowsingInv, WalkInv, OnTheWay, Url
  <2> QED
    BY <1>4, <1>6, <2>1 DEF Target, NextOf
<1>7. next \in BOOLEAN
  OBVIOUS
<1>8. request' = [url |-> target, next |-> next,
                  at |-> "count", counted |-> {}]
  BY <1>1 DEF Request
<1> HIDE DEF target, next
<1>9. RequestInv'
  <2>1. request' \in Requests
    BY <1>5, <1>7, <1>8 DEF Requests
  <2>2. request'.next /\ walk'.on => request'.url = NextOf(view'.url)
    BY <1>2, <1>6, <1>8
  <2>3. request'.at = "count" /\ request'.counted = {}
    BY <1>8
  <2> QED
    BY <2>1, <2>2, <2>3 DEF RequestInv, NextOf, Requests
<1> QED
  BY <1>2, <1>9
     DEF BrowsingInv, MatchingInv, ViewInv, WalkInv, OnTheWay, Matching

\* An address that is typed asks for no walk to go on.
LEMMA OpenKeeps ==
    ASSUME BrowsingInv, Open
    PROVE  BrowsingInv'
<1>1. PICK u \in Addresses : request' = Request(u, FALSE)
  BY DEF Open
<1>2. UNCHANGED <<matching, view, walk>>
  BY DEF Open
<1>3. u \in UrlSet
  <2>1. /\ PageSize \in Nat /\ 1 \in Nat /\ 0 .. MaxPage \subseteq Nat
        /\ (0 .. MaxSize) \union {PageSize} \subseteq Nat
    BY BrowsingAssumption
  <2>2. \A place \in Places, page \in Nat, size \in Nat,
           filtered \in BOOLEAN : Url(place, page, size, filtered) \in UrlSet
    BY DEF Url, UrlSet
  <2>3. /\ "home" \in Places /\ "adminHome" \in Places
        /\ "oldAdminHome" \in Places /\ "links" \in Places
        /\ "list" \in Places
    BY DEF Places
  <2> DEFINE Homes == {Url(place, 1, PageSize, FALSE) :
                          place \in {"home", "adminHome", "oldAdminHome"}}
             Links == {Url("links", page, PageSize, filtered) :
                          page \in 0 .. MaxPage, filtered \in BOOLEAN}
             Lists == {Url("list", page, size, filtered) :
                          page \in 0 .. MaxPage,
                          size \in (0 .. MaxSize) \union {PageSize},
                          filtered \in BOOLEAN}
  <2>4. Addresses = Homes \union Links \union Lists
    BY DEF Addresses
  <2>5. Homes \subseteq UrlSet
    BY <2>1, <2>2, <2>3
  <2>6. Links \subseteq UrlSet
    BY <2>1, <2>2, <2>3
  <2>7. Lists \subseteq UrlSet
    BY <2>1, <2>2, <2>3
  <2> HIDE DEF Homes, Links, Lists
  <2> QED
    BY <2>4, <2>5, <2>6, <2>7
<1>4. RequestInv'
  <2>1. request' = [url |-> u, next |-> FALSE,
                    at |-> "count", counted |-> {}]
    BY <1>1 DEF Request
  <2>2. request' \in Requests
    BY <1>3, <2>1 DEF Requests
  <2> QED
    BY <2>1, <2>2 DEF RequestInv, Requests
<1> QED
  BY <1>2, <1>4
     DEF BrowsingInv, MatchingInv, ViewInv, WalkInv, OnTheWay, Matching

\* A page without a list, or a refusal, ends the walk; no Next of a walk gets
\* one.
LEMMA ShowNoListKeeps ==
    ASSUME BrowsingInv, ShowNoList
    PROVE  BrowsingInv'
<1> DEFINE shown == Page(Url("adminHome", 1, PageSize, FALSE), 0)
<1>1. /\ view' = shown /\ request' = NoRequest
      /\ walk' = Walked(request.next, shown, <<>>)
      /\ matching' = matching
  BY DEF ShowNoList, Show
<1>2. ~(request.next /\ walk.on)
  <2> SUFFICES ASSUME request.next, walk.on PROVE FALSE
    OBVIOUS
  <2>1. request.url = NextOf(view.url)
    BY DEF ShowNoList, BrowsingInv, RequestInv
  <2> QED
    BY <2>1, NextIsServed DEF ShowNoList
<1>3. walk' = NoWalk
  <2>1. shown.url.place = "adminHome"
    BY DEF Page, Url
  <2>2. shown.url # Url("list", 1, PageSize, shown.url.filtered)
    BY <2>1 DEF Url
  <2> HIDE DEF shown
  <2> QED
    BY <1>1, <1>2, <2>2 DEF Walked
<1>4. /\ view'.url = Url("adminHome", 1, PageSize, FALSE) /\ view'.total = 0
  BY <1>1 DEF Page
<1>5. view'.url \in ViewedUrls
  BY <1>4, BrowsingAssumption DEF Url, ViewedUrls, UrlSet, Places
<1>6. view'.total \in 0 .. MaxId
  BY <1>4, BrowsingAssumption
<1> HIDE DEF shown
<1>7. ViewInv'
  BY <1>5, <1>6 DEF ViewInv
<1>8. MatchingInv' /\ RequestInv'
  BY <1>1 DEF BrowsingInv, MatchingInv, RequestInv
<1>9. WalkInv'
  BY <1>3 DEF WalkInv, NoWalk, Walks
<1> QED
  BY <1>7, <1>8, <1>9 DEF BrowsingInv

\* All that matches is counted, and with it all that the walk is owed.
LEMMA CountKeeps ==
    ASSUME BrowsingInv, Count
    PROVE  BrowsingInv'
<1> DEFINE u == Served(request.url)
           ids == Matching(u)
<1>1. /\ request \in Requests
      /\ request.at = "count" /\ request.counted = {}
      /\ request.next /\ walk.on => request.url = NextOf(view.url)
  BY DEF Count, BrowsingInv, RequestInv
<1>2. u \in ViewedUrls
  BY <1>1, ServedIsViewed DEF Count, Requests
<1>3. ids \in SUBSET Ids
  BY <1>2, ListIs DEF BrowsingInv, ViewedUrls, UrlSet
<1>4. ASSUME request.next, walk.on
      PROVE  u = NextOf(view.url) /\ walk.owed \subseteq ids
  <2>1. u = NextOf(view.url) /\ ids = Matching(view.url)
    BY <1>1, <1>4, NextIsServed
  <2>2. Owed(walk.owed, Matching(view.url), view.url.page * PageSize)
    BY <1>4 DEF BrowsingInv, WalkInv, OnTheWay
  <2> HIDE DEF u, ids
  <2> QED
    BY <2>1, <2>2 DEF Owed
<1>5. CASE ids = {}
  <2>1. Show(Page(u, 0), <<>>)
    BY <1>5 DEF Count
  <2>2. ItemsOf(u) = <<>>
    <3> SUFFICES ASSUME ItemsOf(u) # <<>> PROVE FALSE
      OBVIOUS
    <3>1. /\ ItemsOf(u) \in Seq(Nat)
          /\ \A x \in ToSet(ItemsOf(u)) : x \in ids
      <4> HIDE DEF u
      <4> QED
        BY <1>2, ItemsAre DEF BrowsingInv
    <3> DEFINE items == ItemsOf(u)
    <3> HIDE DEF items, u, ids
    <3>2. items \in Seq(Nat) /\ items # <<>>
      BY <3>1 DEF items
    <3>3. Len(items) \in Nat /\ Len(items) # 0
          /\ DOMAIN items = 1 .. Len(items)
      BY <3>2, LenProperties, EmptySeq
    <3>4. 1 \in DOMAIN items
      BY <3>3
    <3>5. items[1] \in ToSet(items)
      BY <3>4 DEF ToSet
    <3> QED
      BY <1>5, <3>1, <3>5 DEF items
  <2>3. Cardinality(request.counted) = 0
    BY <1>1, FS_EmptySet
  <2> HIDE DEF u, ids
  <2>4. Arrives(u)
    BY <1>1, <1>4, <1>5 DEF Arrives
  <2> QED
    BY <1>2, <2>1, <2>2, <2>3, <2>4, ArrivalKeeps
<1>6. CASE ids # {}
  <2>1. /\ request' = [request EXCEPT !.at = "fetch", !.url = u,
                                      !.counted = ids]
        /\ UNCHANGED <<matching, view, walk>>
    BY <1>6 DEF Count
  <2> HIDE DEF u, ids
  <2>2. /\ request' \in Requests
        /\ request'.url = u /\ request'.next = request.next
        /\ request'.at = "fetch" /\ request'.counted = ids
    BY <1>1, <1>2, <1>3, <2>1 DEF ViewedUrls, Requests
  <2>3. RequestInv'
    BY <1>2, <1>4, <2>1, <2>2 DEF RequestInv, NextOf, Requests
  <2> QED
    BY <2>1, <2>3
       DEF BrowsingInv, MatchingInv, ViewInv, WalkInv, OnTheWay, Matching
<1> QED
  BY <1>5, <1>6

\* What came between the count and the fetch is late.
LEMMA FetchKeeps ==
    ASSUME BrowsingInv, Fetch
    PROVE  BrowsingInv'
<1> DEFINE u == request.url
<1>1. u \in ViewedUrls /\ request \in Requests
  BY DEF Fetch, BrowsingInv, RequestInv
<1>2. Arrives(u)
  BY <1>1 DEF Fetch, BrowsingInv, RequestInv, Requests, Arrives
<1>3. Show(Page(u, Cardinality(request.counted)), ItemsOf(u))
  BY DEF Fetch, ItemsOf
<1> HIDE DEF u
<1> QED
  BY <1>1, <1>2, <1>3, ArrivalKeeps

\* The ids ahead of one are the first of a sequence in order.
LEMMA AheadIs ==
    ASSUME NEW q \in Seq(Nat), Increasing(q), NEW id \in Nat
    PROVE  /\ Ahead(q, id) \in Seq(Nat) /\ Increasing(Ahead(q, id))
           /\ \A x \in ToSet(Ahead(q, id)) : x \in ToSet(q) /\ x < id
<1> DEFINE n == Len(q)
           I == {i \in DOMAIN q : q[i] < id}
<1>1. n \in Nat /\ DOMAIN q = 1 .. n /\ \A i \in 1 .. n : q[i] \in Nat
  BY LenProperties, ElementOfSeq
<1> HIDE DEF n
<1>2. \E k \in 0 .. n : I = 1 .. k
  <2>1. CASE I = {}
    <3>1. I = 1 .. 0 /\ 0 \in 0 .. n
      BY <1>1, <2>1
    <3> HIDE DEF I
    <3> QED
      BY <3>1
  <2>2. CASE I # {}
    <3>1. I \in SUBSET (1 .. n)
      BY <1>1
    <3>2. PICK k \in I : \A i \in I : i <= k
      <4> HIDE DEF I
      <4>1. PICK k \in I : \A i \in I : k >= i
        BY <1>1, <2>2, <3>1, LargestNumber
      <4>2. \A i \in I : i \in Nat
        BY <1>1, <3>1
      <4> QED
        BY <4>1, <4>2
    <3>3. k \in 1 .. n /\ q[k] < id
      BY <1>1
    <3>4. ASSUME NEW i \in 1 .. k PROVE i \in I
      <4>1. i \in 1 .. n
        BY <1>1, <3>3
      <4>2. i = k \/ q[i] < q[k]
        BY <1>1, <3>3, <4>1 DEF Increasing
      <4>3. q[i] < id
        BY <1>1, <3>3, <4>1, <4>2
      <4> QED
        BY <1>1, <4>1, <4>3
    <3>5. ASSUME NEW i \in I PROVE i \in 1 .. k
      BY <1>1, <3>2, <3>3
    <3> HIDE DEF I
    <3>6. I = 1 .. k
      BY <3>4, <3>5
    <3>7. k \in 0 .. n
      BY <1>1, <3>3
    <3> QED
      BY <3>6, <3>7
  <2> QED
    BY <2>1, <2>2
<1>3. PICK k \in 0 .. n : I = 1 .. k
  BY <1>2
<1>4. k \in Nat /\ k <= n /\ Cardinality(I) = k
  <2>1. k \in Nat /\ k <= n
    BY <1>1
  <2>2. Cardinality(1 .. k) = k
    BY <2>1, FS_Interval
  <2> QED
    BY <1>3, <2>1, <2>2
<1> DEFINE r == SubSeq(q, 1, k)
<1>5. Ahead(q, id) = r
  BY <1>4 DEF Ahead
<1>6. \A i \in 1 .. k : i \in 1 .. n /\ q[i] < id
  BY <1>1, <1>3
<1> HIDE DEF I
<1>7. /\ r \in Seq(Nat) /\ Len(r) = k
      /\ \A i \in 1 .. k : r[i] = q[i]
  <2>1. \A i \in 1 .. k : q[i] \in Nat
    BY <1>1, <1>6
  <2>2. /\ r \in Seq(Nat)
        /\ Len(r) = IF 1 <= k THEN k - 1 + 1 ELSE 0
        /\ \A i \in 1 .. k - 1 + 1 : r[i] = q[1 + i - 1]
    BY <1>4, <2>1, SubSeqProperties
  <2>3. k - 1 + 1 = k /\ \A i \in 1 .. k : 1 + i - 1 = i
    BY <1>4
  <2>4. Len(r) = k
    BY <1>4, <2>2
  <2> HIDE DEF r
  <2> QED
    BY <2>2, <2>3, <2>4
<1> HIDE DEF r
<1>8. DOMAIN r = 1 .. k
  BY <1>7, LenProperties
<1>9. Increasing(r)
  BY <1>1, <1>6, <1>7, <1>8 DEF Increasing
<1>10. \A x \in ToSet(r) : x \in ToSet(q) /\ x < id
  BY <1>1, <1>6, <1>7, <1>8 DEF ToSet
<1> QED
  BY <1>5, <1>7, <1>9, <1>10

\* What has joined or left moves what stands behind it only.
LEMMA MetKeeps ==
    ASSUME walk \in Walks, NEW shown, NEW before \in SUBSET Ids,
           NEW id \in Ids, NEW after,
           after = before \union {id} \/ after = before \ {id},
           OnTheWay(walk, shown, before),
           shown.url.page * PageSize \in Nat
    PROVE  /\ Met(id, before, after) \in Walks
           /\ Met(id, before, after).on = walk.on
           /\ Met(id, before, after).owed \subseteq walk.owed
           /\ OnTheWay(Met(id, before, after), shown, after)
<1> DEFINE w == Met(id, before, after)
           end == shown.url.page * PageSize
<1>0. end \in Nat
  OBVIOUS
<1>1. /\ walk.seen \in Seq(Nat) /\ walk.owed \in SUBSET Ids
      /\ Increasing(walk.seen)
      /\ \A x \in ToSet(walk.seen) : IdRank(before, x) <= end
      /\ \A x \in walk.owed : x \in before /\ IdRank(before, x) > end
      /\ Promised(walk.owed, walk.late, end, shown.total)
      /\ shown.url = Url("list", shown.url.page, PageSize, shown.url.filtered)
  BY DEF Walks, OnTheWay, Seen, Owed
<1> HIDE DEF end
<1>2. /\ after \in SUBSET Ids
      /\ \A x \in Ids : x # id => (x \in before <=> x \in after)
  OBVIOUS
<1>3. id \in Nat /\ \A x \in Ids : x \in Nat
  BY MatchesAre
<1>4. \A x \in ToSet(walk.seen) : x \in Nat
  BY <1>1, ElementOfSeq, LenProperties DEF ToSet
<1>5. \A x \in Nat : IdRank(before, x) \in Nat /\ IdRank(after, x) \in Nat
  BY <1>2, RankGrows
<1>6. ASSUME NEW x \in Nat, x < id
      PROVE  IdRank(after, x) = IdRank(before, x)
  <2>1. \A y \in Ids : y <= x => (y \in before <=> y \in after)
    BY <1>2, <1>3, <1>6
  <2> QED
    BY <1>2, <2>1, RankStays
<1>7. CASE id \in after \ before
  <2>1. w = [walk EXCEPT !.seen = Ahead(walk.seen, id), !.owed = walk.owed]
    BY <1>7 DEF Met
  <2>2. /\ Ahead(walk.seen, id) \in Seq(Nat)
        /\ Increasing(Ahead(walk.seen, id))
        /\ \A x \in ToSet(Ahead(walk.seen, id)) :
               x \in ToSet(walk.seen) /\ x < id
    BY <1>1, <1>3, AheadIs
  <2>3. /\ w \in Walks /\ w.on = walk.on /\ w.owed = walk.owed
        /\ w.seen = Ahead(walk.seen, id) /\ w.late = walk.late
    BY <2>1, <2>2 DEF Walks
  <2> HIDE DEF w
  <2>4. Seen(w.seen, after, end)
    BY <1>1, <1>4, <1>6, <2>2, <2>3 DEF Seen
  <2>5. Owed(w.owed, after, end)
    <3> SUFFICES ASSUME NEW x \in walk.owed
                 PROVE  x \in after /\ IdRank(after, x) > end
      BY <2>3 DEF Owed
    <3>1. x \in before /\ x \in Nat /\ IdRank(before, x) > end
      BY <1>1, <1>3
    <3>2. before \subseteq after
      BY <1>7
    <3>3. IdRank(before, x) <= IdRank(after, x)
      BY <1>2, <3>1, <3>2, RankGrows
    <3> QED
      BY <1>0, <1>5, <3>1, <3>2, <3>3
  <2> QED
    BY <1>1, <2>3, <2>4, <2>5 DEF OnTheWay, w, end
<1>8. CASE id \in before \ after
  <2> DEFINE rest == {x \in walk.owed : x < id}
  <2>1. w = [walk EXCEPT !.seen = walk.seen, !.owed = rest]
    BY <1>8 DEF Met
  <2>2. rest \in SUBSET Ids
    BY <1>1
  <2>3. \A x \in rest : x \in walk.owed /\ x < id
    OBVIOUS
  <2> HIDE DEF rest
  <2>4. /\ w \in Walks /\ w.on = walk.on /\ w.owed = rest
        /\ w.seen = walk.seen /\ w.late = walk.late
    BY <2>1, <2>2 DEF Walks
  <2> HIDE DEF w
  <2>5. Seen(w.seen, after, end)
    <3> SUFFICES ASSUME NEW x \in ToSet(walk.seen)
                 PROVE  IdRank(after, x) <= end
      BY <1>1, <2>4 DEF Seen
    <3>1. after \subseteq before
      BY <1>8
    <3>2. IdRank(after, x) <= IdRank(before, x)
      BY <1>2, <1>4, <3>1, RankGrows
    <3>3. IdRank(before, x) <= end
      BY <1>1
    <3>4. IdRank(before, x) \in Nat /\ IdRank(after, x) \in Nat
      BY <1>4, <1>5
    <3> QED
      BY <1>0, <3>2, <3>3, <3>4
  <2>6. Owed(w.owed, after, end)
    <3> SUFFICES ASSUME NEW x \in rest
                 PROVE  x \in after /\ IdRank(after, x) > end
      BY <2>4 DEF Owed
    <3>1. x \in before /\ x \in Ids /\ x \in Nat /\ x < id
          /\ IdRank(before, x) > end
      BY <1>1, <1>3, <2>3
    <3>2. x # id
      BY <1>3, <3>1
    <3> QED
      BY <1>0, <1>2, <1>6, <3>1, <3>2
  <2>7. Promised(w.owed, w.late, end, shown.total)
    BY <1>1, <2>3, <2>4 DEF Promised
  <2> QED
    BY <1>1, <2>3, <2>4, <2>5, <2>6, <2>7 DEF OnTheWay, w, end
<1>9. CASE after = before
  <2>1. w = walk
    BY <1>9 DEF Met, Walks
  <2> QED
    BY <1>9, <2>1 DEF w
<1>10. id \in after \ before \/ id \in before \ after \/ after = before
  BY <1>2
<1> QED
  BY <1>7, <1>8, <1>9, <1>10

\* A link joins a list or leaves it: the walk is owed no more than before.
LEMMA LinkChangesKeeps ==
    ASSUME BrowsingInv, LinkChanges
    PROVE  BrowsingInv'
<1> DEFINE before == Matching(view.url)
           after == matching'[view.url.filtered]
           end == view.url.page * PageSize
<1>1. PICK id \in Ids, showing \in {{}, {FALSE}, BOOLEAN} :
        /\ matching' = [filtered \in BOOLEAN |->
                           IF filtered \in showing
                           THEN matching[filtered] \union {id}
                           ELSE matching[filtered] \ {id}]
        /\ walk' = IF walk.on THEN Met(id, before, after) ELSE walk
        /\ UNCHANGED <<view, request>>
  BY DEF LinkChanges
<1>2. MatchingInv'
  BY <1>1 DEF BrowsingInv, MatchingInv
<1>3. view.url.filtered \in BOOLEAN
  BY DEF BrowsingInv, ViewInv, ViewedUrls, UrlSet
<1>4. before \in SUBSET Ids /\ after \in {before \union {id}, before \ {id}}
  <2>1. before \in SUBSET Ids
    BY <1>3, ListIs DEF BrowsingInv
  <2>2. after = IF view.url.filtered \in showing
                THEN before \union {id} ELSE before \ {id}
    BY <1>1, <1>3 DEF Matching
  <2> HIDE DEF before, after
  <2> QED
    BY <2>1, <2>2
<1>5. end \in Nat
  BY BrowsingAssumption DEF BrowsingInv, ViewInv, ViewedUrls, UrlSet
<1>6. /\ walk' \in Walks /\ walk'.on = walk.on
      /\ walk'.owed \subseteq walk.owed
      /\ walk'.on => OnTheWay(walk', view, after)
  <2>1. walk \in Walks
    BY DEF BrowsingInv, WalkInv
  <2>2. CASE walk.on
    <3>1. OnTheWay(walk, view, before)
      BY <2>2 DEF BrowsingInv, WalkInv
    <3>2. walk' = Met(id, before, after)
      BY <1>1, <2>2
    <3>3. view.url.page * PageSize \in Nat
      BY <1>5
    <3> HIDE DEF before, after
    <3> DEFINE w == Met(id, before, after)
    <3>4. /\ before \in SUBSET Ids /\ id \in Ids
          /\ after = before \union {id} \/ after = before \ {id}
      BY <1>4
    <3>5. /\ w \in Walks /\ w.on = walk.on /\ w.owed \subseteq walk.owed
          /\ OnTheWay(w, view, after)
      BY <2>1, <3>1, <3>3, <3>4, MetKeeps
    <3> HIDE DEF w
    <3>6. walk' = w
      BY <3>2 DEF w
    <3> QED
      BY <3>5, <3>6
  <2>3. CASE ~walk.on
    BY <1>1, <2>1, <2>3
  <2> QED
    BY <2>2, <2>3
<1>7. ViewInv'
  BY <1>1 DEF BrowsingInv, ViewInv
<1>8. RequestInv'
  <2>1. UNCHANGED <<view, request>>
    BY <1>1
  <2> QED
    BY <1>6, <2>1 DEF BrowsingInv, RequestInv, NextOf, Requests
<1>9. WalkInv'
  <2>1. Matching(view.url)' = after /\ view' = view
    BY <1>1 DEF Matching
  <2> HIDE DEF before, after
  <2>2. OnTheWay(walk, view, Matching(view.url))'
            <=> OnTheWay(walk', view', Matching(view.url)')
    BY DEF OnTheWay
  <2> QED
    BY <1>6, <2>1, <2>2 DEF WalkInv
<1> QED
  BY <1>2, <1>7, <1>8, <1>9 DEF BrowsingInv

\* Every step of Browsing keeps the invariant.
LEMMA BrowsingStep_Inv ==
    ASSUME BrowsingInv, [BrowsingNext]_browsingVars
    PROVE  BrowsingInv'
<1>1. CASE UNCHANGED browsingVars
  BY <1>1 DEF browsingVars, BrowsingInv, MatchingInv, ViewInv, RequestInv,
              WalkInv, OnTheWay, Matching
<1> QED
  BY <1>1, FollowKeeps, OpenKeeps, ShowNoListKeeps, CountKeeps, FetchKeeps,
     LinkChangesKeeps DEF BrowsingNext

-----------------------------------------------------------------------------
(* The theorems                                                            *)

\* The pages, the request under way and the walk stay in agreement: up to an id
\* that was seen there are no more than the pages hold so far, up to one that is
\* owed there are more, and what a request for the next page has counted holds
\* all that is owed, however links come and go in the middle of the order.
THEOREM BrowsingSettles == BrowsingSpec => []BrowsingInv
<1> QED
  BY BrowsingInit_Inv, BrowsingStep_Inv, PTL DEF BrowsingSpec

\* The types of the variables: the lists, the total of a page, what is owed.
THEOREM BrowsingTypes == BrowsingSpec => []BrowsingTypeOK
<1>1. BrowsingInv => BrowsingTypeOK
  BY DEF BrowsingInv, MatchingInv, ViewInv, ViewedUrls, UrlSet, RequestInv,
         Requests, WalkInv, Walks, BrowsingTypeOK
<1> QED
  BY <1>1, BrowsingSettles, PTL

\* Whoever reads the list of the admin site by Next alone, from its first page
\* to one without a Next, sees each link that was there exactly once and in
\* order, for every number of links and every size of a page; only a link that
\* leaves can hide those behind it, one that joins can show those behind it
\* again, and one that joins between a count and a fetch can hide the last page
\* (MongoRepository.FindAsync, LinksRepository.FindLinksAsync, PagerTagHelper).
THEOREM WalksSeeEachOnce == BrowsingSpec => []WalkSeesEachOnce
<1> QED
  BY WalkEnds, BrowsingSettles, PTL

\* The anchors of every pager lead to pages with links (TotalPages against
\* Skip and Limit), and never to an address that is refused.
THEOREM AnchorsAlwaysLead == BrowsingSpec => []AnchorsLeadToLinks
<1> QED
  BY AnchorsLead, BrowsingSettles, PTL
=============================================================================
