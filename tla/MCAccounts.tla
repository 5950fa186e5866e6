----------------------------- MODULE MCAccounts -----------------------------
(* Who sends which form to Create.                                         *)
EXTENDS Accounts

CONSTANTS r1, r2, n1, n2, n3, e1, e2, e3

Form(name, email, asked) == [name |-> name, email |-> email, roles |-> asked]

\* Each client has names and emails of its own; the first sends one email
\* under two names.
OwnForms ==
    [r \in Requests |->
        IF r = r1 THEN {Form(n1, e1, Roles), Form(n2, e1, {})}
        ELSE {Form(n3, e3, {"User"}), Form(n3, e2, {})}]
=============================================================================
