--------------------------- MODULE MCLinkCommands ---------------------------
(* The values the configurations give Targets, and the symmetry of users.  *)
EXTENDS LinkCommands, TLC

CONSTANTS r1, r2, l1, l2, l3

\* Every request may be about every link.
AnyTargets == [r \in Requests |-> Links]

\* r1 is about l1 and l2, r2 about l3.
SplitTargets ==
    [r \in Requests |-> IF r = r1 THEN Links \intersect {l1, l2}
                                  ELSE Links \intersect {l3}]

UserSymmetry == Permutations(Users)
=============================================================================
