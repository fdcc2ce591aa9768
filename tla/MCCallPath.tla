----------------------------- MODULE MCCallPath -----------------------------
(* A small instance of CallPath for TLC. *)
EXTENDS CallPath, TLC

CONSTANTS c1, c2, t1, t2, u1, u2, d, k

OwnUser == (t1 :> u1) @@ (t2 :> u2)

Grant(user, permissions, scope) ==
    [user_id |-> user, dc |-> d, permissions |-> permissions, scope |-> (k :> scope)]

\* u1 may be given other rights; u2 has none to the class.
SomeGrants ==
    {Grant(u1, {"write"}, [obac |-> TRUE, rbac |-> TRUE, access |-> {"r"}]),
     Grant(u1, {"read", "add"}, [obac |-> TRUE, rbac |-> FALSE, access |-> {"d"}]),
     Grant(u2, {"read"}, None)}

=============================================================================
