---------------------------- MODULE UserSession -----------------------------
(***************************************************************************)
(* The session made of what the auth service says of a user                *)
(* (auth/manager/webitel_app/manager.go), and the access it grants to a    *)
(* class of objects (auth/session/user_session/session.go).  Licences,     *)
(* roles and names are left out: no check looks at them.                   *)
(***************************************************************************)
EXTENDS Naturals

CONSTANTS
    Users,
    Domains,
    Classes,    \* the classes of objects a user has scopes for
    None        \* no scope, no call, no session

\* The rights of auth.AccessMode, bits of a byte.
Delete == 1
Edit == 2
Read == 4
Add == 8

SuperPermissions == {"read", "write", "add", "delete"}
Letters == {"r", "w", "x", "d"}
Scope == [obac : BOOLEAN, rbac : BOOLEAN, access : SUBSET Letters]

\* What UserInfo answers, as far as it matters here.
Userinfo == [user_id : Users, dc : Domains, permissions : SUBSET SuperPermissions,
             scope : [Classes -> Scope \cup {None}]]

\* Bug: the right to change is taken for the right to remove.
SessionWithEditorsDeleting(userinfo) ==
    [User |-> userinfo.user_id,
     DomainId |-> userinfo.dc,
     SuperCreate |-> "add" \in userinfo.permissions,
     SuperDelete |-> {"delete", "write"} \cap userinfo.permissions # {},
     SuperEdit |-> "write" \in userinfo.permissions,
     SuperSelect |-> "read" \in userinfo.permissions,
     Scopes |-> userinfo.scope]

ConstructSessionFromUserInfo(userinfo) ==
    [User |-> userinfo.user_id,
     DomainId |-> userinfo.dc,
     SuperCreate |-> "add" \in userinfo.permissions,
     SuperDelete |-> "delete" \in userinfo.permissions,
     SuperEdit |-> "write" \in userinfo.permissions,
     SuperSelect |-> "read" \in userinfo.permissions,
     Scopes |-> userinfo.scope]

Sessions == {ConstructSessionFromUserInfo(userinfo) : userinfo \in Userinfo}

\* The letters a mode requires and what bypasses the requirement.  A right
\* goes with Read or alone; any other combination requires nothing.
Requires(mode) ==
    CASE mode \in {Delete, Read + Delete} -> {"d"}
      [] mode \in {Edit, Read + Edit} -> {"w"}
      [] mode \in {Read, 0} -> {"r"}
      [] mode \in {Add, Read + Add} -> {"x"}
      [] OTHER -> {}

Bypasses(session, mode) ==
    \/ mode \in {Delete, Read + Delete} /\ session.SuperDelete
    \/ mode \in {Edit, Read + Edit} /\ session.SuperEdit
    \/ mode \in {Read, 0} /\ session.SuperSelect
    \/ mode \in {Add, Read + Add} /\ session.SuperCreate

CheckObacAccess(session, class, mode) ==
    LET scope == session.Scopes[class]
    IN /\ scope # None
       /\ scope.obac => Bypasses(session, mode) \/ Requires(mode) \subseteq scope.access

IsRbacCheckRequired(session, class, mode) ==
    LET scope == session.Scopes[class]
    IN scope # None /\ scope.rbac /\ ~Bypasses(session, mode)

=============================================================================
