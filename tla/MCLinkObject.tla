---------------------------- MODULE MCLinkObject ----------------------------
(* One Link object, or the tags of one link by themselves with calls that  *)
(* only LinkTag offers; which of the two, is chosen at the start.          *)
EXTENDS LinkAggregate, LinkTagCollection

VARIABLE part

objectVars == <<link, counts, events, tags, part>>

\* 2 is the name 'a/b', stored as 1, the name 'a-b'.
SlashedNames == [n \in Names |-> IF n = 2 THEN 1 ELSE n]

ObjectInit ==
    /\ part \in {"link", "tags"}
    /\ Init
    /\ part = "tags" => link.tags = <<>>
    /\ TagsInit
    /\ part = "link" => tags = <<>>

ObjectNext ==
    /\ UNCHANGED part
    /\ \/ part = "link" /\ Next /\ UNCHANGED tags
       \/ part = "tags" /\ TagsNext /\ UNCHANGED vars

ObjectSpec == ObjectInit /\ [][ObjectNext]_objectVars
=============================================================================
