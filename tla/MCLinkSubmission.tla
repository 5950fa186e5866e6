-------------------------- MODULE MCLinkSubmission --------------------------
(* Who submits which URL.                                                  *)
EXTENDS LinkSubmission

CONSTANTS s1, s2, u1, u2, u3, u4

\* Two clients with URLs of their own.
OwnUrls == [s \in Submitters |-> IF s = s1 THEN {u1, u2} ELSE Urls \ {u1, u2}]

SharedUrls == [s \in Submitters |-> Urls]
=============================================================================
