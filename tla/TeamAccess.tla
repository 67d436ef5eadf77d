----------------------------- MODULE TeamAccess -----------------------------
(***************************************************************************)
(* Who may do what: app/services/auth.py, and the user and role pages of   *)
(* app/bot/navigation.py that call it.                                     *)
(*                                                                         *)
(* A row of users is created by the first message of a Telegram user.      *)
(* Being an owner is written twice, as the is_owner flag and as the Owner  *)
(* role, and being active twice, as status and as is_active; a permission  *)
(* is read from all four and from the permissions of the roles.  An        *)
(* operation that is refused raises PermissionError and changes nothing.   *)
(* Permissions are cut down to the two that administer users and roles;    *)
(* Viewer stands for every role that starts without either.                *)
(***************************************************************************)
EXTENDS Naturals, FiniteSets

CONSTANTS
    Users,          \* Telegram ids
    Configured,     \* OWNER_TELEGRAM_ID
    RoleNames,      \* the default roles, Owner among them
    Nobody          \* the actor of an operation made by no user

VARIABLES
    user,           \* the rows of users, with their user_roles
    perms,          \* role_permissions; the rows of roles are its domain
    actor           \* who made the last step, as the audit log has it

teamVars == <<user, perms, actor>>

Keys == {"manage_users", "manage_roles"}

Statuses == {"absent", "pending", "active", "disabled", "denied"}

UserRow == [status : Statuses, is_active : BOOLEAN, is_owner : BOOLEAN,
            roles : SUBSET RoleNames]

NoRow == [status |-> "absent", is_active |-> FALSE, is_owner |-> FALSE, roles |-> {}]

\* _role_permissions
DefaultKeys(r) == IF r = "Viewer" THEN {} ELSE Keys

TeamInit ==
    /\ user = [u \in Users |-> NoRow]
    /\ perms = [r \in {} |-> {}]
    /\ actor = Nobody

Roles == DOMAIN perms

IsOwner(u) == user[u].is_owner \/ "Owner" \in user[u].roles

Known(u) == user[u].status # "absent"

\* user_has_permission
Holds(u, key) ==
    /\ user[u].status = "active" /\ user[u].is_active
    /\ IsOwner(u) \/ \E r \in user[u].roles \cap Roles : key \in perms[r]

\* _count_owner_users
OwnerCount == Cardinality({u \in Users : IsOwner(u) /\ user[u].status = "active"})

-----------------------------------------------------------------------------
(* Messages: the row of the sender.                                        *)

Activated(row) == [row EXCEPT !.status = "active", !.is_active = TRUE]

\* A variant of Seen: a stranger's row has a status of its own.
SeenUnknown(u) == [NoRow EXCEPT !.status = "unknown"]

\* get_or_create_telegram_user
Seen(u) ==
    IF u = Configured THEN [Activated(user[u]) EXCEPT !.is_owner = TRUE]
    ELSE IF Known(u) THEN user[u]
    ELSE [NoRow EXCEPT !.status = "pending"]

Message(u) ==
    /\ user' = [user EXCEPT ![u] = Seen(u)]
    /\ actor' = Nobody
    /\ UNCHANGED perms

\* seed_default_roles_and_permissions: missing roles and missing default
\* permissions are put back.
Seeded ==
    [r \in RoleNames |-> DefaultKeys(r) \cup (IF r \in Roles THEN perms[r] ELSE {})]

\* setup_owner_if_needed, at each /start of the configured owner.
SetupOwner ==
    /\ perms' = Seeded
    /\ user' = [user EXCEPT ![Configured] =
                    [Seen(Configured) EXCEPT !.roles = @ \cup {"Owner"}]]
    /\ actor' = Configured

-----------------------------------------------------------------------------
(* The pages of a user.                                                    *)

By(a) == actor' = a

ApproveUser(a, u) ==
    /\ Known(u) /\ Holds(a, "manage_users")
    /\ user' = [user EXCEPT ![u] = Activated(@)]
    /\ By(a) /\ UNCHANGED perms

ShutOut(a, u, status) ==
    /\ Known(u) /\ Holds(a, "manage_users")
    /\ ~IsOwner(u)
    /\ user' = [user EXCEPT ![u].status = status, ![u].is_active = FALSE]
    /\ By(a) /\ UNCHANGED perms

DenyUser(a, u) == ShutOut(a, u, "denied")

DisableUser(a, u) == ShutOut(a, u, "disabled")

ReactivateUser(a, u) == ApproveUser(a, u)

MayEditRolesOf(a, u) == Holds(a, "manage_roles") /\ (a = u => IsOwner(a))

WithRole(row, r) ==
    IF r \in row.roles THEN row
    ELSE IF r = "Owner"
         THEN [Activated(row) EXCEPT !.roles = @ \cup {r}, !.is_owner = TRUE]
         ELSE [row EXCEPT !.roles = @ \cup {r}]

AssignRole(a, u, r) ==
    /\ Known(u) /\ r \in Roles
    /\ MayEditRolesOf(a, u)
    /\ r = "Owner" => IsOwner(a)
    /\ user' = [user EXCEPT ![u] = WithRole(@, r)]
    /\ By(a) /\ UNCHANGED perms

WithoutRole(row, r) ==
    IF r \notin row.roles THEN row
    ELSE [row EXCEPT !.roles = @ \ {r}, !.is_owner = @ /\ r # "Owner"]

LastOwnerRole(u, r) == r = "Owner" /\ r \in user[u].roles /\ OwnerCount <= 1

RemoveRole(a, u, r) ==
    /\ Known(u) /\ r \in Roles
    /\ MayEditRolesOf(a, u)
    /\ ~LastOwnerRole(u, r)
    /\ user' = [user EXCEPT ![u] = WithoutRole(@, r)]
    /\ By(a) /\ UNCHANGED perms

PromoteOwner(a, u) ==
    /\ Known(u) /\ "Owner" \in Roles
    /\ IsOwner(a) /\ MayEditRolesOf(a, u)
    /\ user' = [user EXCEPT ![u] =
                   [Activated(WithRole(@, "Owner")) EXCEPT !.is_owner = TRUE]]
    /\ By(a) /\ UNCHANGED perms

\* A variant of LastOwner: an owner may step down at any time.
LastOwnerUnless(u) == FALSE

LastOwner(u) == IsOwner(u) /\ OwnerCount <= 1

DemoteOwner(a, u) ==
    /\ Known(u) /\ "Owner" \in Roles
    /\ IsOwner(a) /\ MayEditRolesOf(a, u)
    /\ ~LastOwner(u)
    /\ user' = [user EXCEPT ![u] = [WithoutRole(@, "Owner") EXCEPT !.is_owner = FALSE]]
    /\ By(a) /\ UNCHANGED perms

-----------------------------------------------------------------------------
(* The pages of a role.                                                    *)

AddPermission(a, r, key) ==
    /\ r \in Roles /\ Holds(a, "manage_roles")
    /\ perms' = [perms EXCEPT ![r] = @ \cup {key}]
    /\ By(a) /\ UNCHANGED user

RemovePermission(a, r, key) ==
    /\ r \in Roles \ {"Owner"} /\ Holds(a, "manage_roles")
    /\ perms' = [perms EXCEPT ![r] = @ \ {key}]
    /\ By(a) /\ UNCHANGED user

\* delete_role; no page calls it.
DeleteRole(a, r) ==
    /\ r \in Roles \ {"Owner"} /\ Holds(a, "manage_roles")
    /\ perms' = [q \in Roles \ {r} |-> perms[q]]
    /\ user' = [u \in Users |-> [user[u] EXCEPT !.roles = @ \ {r}]]
    /\ By(a)

-----------------------------------------------------------------------------
UserPage(a, u) ==
    \/ ApproveUser(a, u)
    \/ DenyUser(a, u)
    \/ DisableUser(a, u)
    \/ ReactivateUser(a, u)
    \/ PromoteOwner(a, u)
    \/ DemoteOwner(a, u)
    \/ \E r \in RoleNames : AssignRole(a, u, r)
    \/ \E r \in RoleNames : RemoveRole(a, u, r)

RolePage(a, r) ==
    \/ \E key \in Keys : AddPermission(a, r, key)
    \/ \E key \in Keys : RemovePermission(a, r, key)
    \/ DeleteRole(a, r)

TeamNext ==
    \/ \E u \in Users : Message(u)
    \/ SetupOwner
    \/ \E a, u \in Users : UserPage(a, u)
    \/ \E a \in Users, r \in RoleNames : RolePage(a, r)

TeamSpec == TeamInit /\ [][TeamNext]_teamVars

-----------------------------------------------------------------------------
(* Properties.                                                             *)

\* Type correctness of the rows of users and of role_permissions
\* (models/user.py, models/permissions.py).
TeamTypeOK ==
    /\ user \in [Users -> UserRow]
    /\ Roles \subseteq RoleNames /\ \A r \in Roles : perms[r] \subseteq Keys
    /\ actor \in Users \cup {Nobody}

\* The flag, the role, the status and is_active never disagree about an
\* owner: whoever counts as one may act, so the count of active owners in
\* demote_owner and remove_role_from_user counts every owner.
OwnersMayAct ==
    \A u \in Users : IsOwner(u) => user[u].status = "active" /\ user[u].is_active

SomeOwner == \E u \in Users : IsOwner(u) /\ user[u].status = "active" /\ user[u].is_active

\* Whatever two owners do to each other, and whatever administrators do to
\* roles, an agency that has an owner who may act keeps one.
OwnerRemains == [][SomeOwner => SomeOwner']_teamVars

\* Nobody but an owner makes an owner, by either road (the role or the
\* promotion); the configured user becomes one by a message of their own.
OwnerMadeByOwner ==
    [][\A u \in Users :
          ~IsOwner(u) /\ IsOwner(u)' /\ u # Configured
              => actor' \in Users /\ IsOwner(actor')]_teamVars

\* Ownership is sound: the marks of an owner agree, an agency keeps an owner
\* who may act, and only owners make owners (services/auth.py).
Ownership == []OwnersMayAct /\ OwnerRemains /\ OwnerMadeByOwner
=============================================================================
