------------------------ MODULE MCLinkTagCollection ------------------------
(* The tags of one link whose names are stored as they are.                *)
EXTENDS LinkTagCollection

PlainNames == [n \in Names |-> n]
=============================================================================
