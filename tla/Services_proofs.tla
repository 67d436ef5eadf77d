--------------------------- MODULE Services_proofs ---------------------------
(***************************************************************************)
(* Proofs about the services that keep records, one section each: team and *)
(* owners, the rotation of proxy sessions, signing in, the supervisor,     *)
(* text input, autopilot workflows, proxies, the review of failures, the   *)
(* memory of decisions, scores and risk, the reports of the command center, *)
(* the pages of the bot, the queue of work and drift. A section starts     *)
(* with what its constants stand for, strengthens its property to an       *)
(* inductive invariant of the tables it reads, and proves the property of  *)
(* the whole from it: the steps of the other parts leave those tables      *)
(* alone.                                                                  *)
(***************************************************************************)
EXTENDS MCServices, Extrema, FiniteSetTheorems, TLAPS

-----------------------------------------------------------------------------
(* Users, roles and owners.                                                *)

\* What the constants stand for: a finite team, the configured owner among
\* them, and the Owner role among the default roles.
Team ==
    /\ IsFiniteSet(Users) /\ Configured \in Users
    /\ "Owner" \in RoleNames /\ Nobody \notin Users

TeamIInv == TeamTypeOK /\ OwnersMayAct

\* An owner by either mark; IsOwner(u) says it of the user's row.
RowOwns(row) == row.is_owner \/ "Owner" \in row.roles

\* The row of one user, typed and with the two marks of an owner in step with
\* the two marks of an active user.
GoodRow(row) ==
    /\ row \in UserRow
    /\ row.is_owner \/ "Owner" \in row.roles => row.status = "active" /\ row.is_active

LEMMA RowsAreGood ==
    ASSUME TeamTypeOK, OwnersMayAct, NEW u \in Users
    PROVE  GoodRow(user[u])
BY DEF TeamTypeOK, OwnersMayAct, IsOwner, GoodRow

\* A step that writes good rows keeps the part of the invariant about users.
LEMMA GoodRowsSuffice ==
    ASSUME user' \in [Users -> UserRow], \A u \in Users : GoodRow(user'[u])
    PROVE  OwnersMayAct'
BY DEF OwnersMayAct, IsOwner, GoodRow

\* One row is written.
LEMMA OneRowWritten ==
    ASSUME TeamIInv, NEW u \in Users, NEW row, GoodRow(row),
           user' = [user EXCEPT ![u] = row]
    PROVE  user' \in [Users -> UserRow] /\ OwnersMayAct'
<1>1. user \in [Users -> UserRow] /\ row \in UserRow
  BY DEF TeamIInv, TeamTypeOK, GoodRow
<1>2. user' \in [Users -> UserRow]
  BY <1>1
<1>3. \A v \in Users : GoodRow(user'[v])
  BY <1>1, RowsAreGood DEF TeamIInv
<1> QED
  BY <1>2, <1>3, GoodRowsSuffice

LEMMA ActivatedGood ==
    ASSUME NEW row \in UserRow
    PROVE  /\ GoodRow(Activated(row))
           /\ GoodRow([Activated(row) EXCEPT !.is_owner = TRUE])
           /\ Activated(row).is_owner = row.is_owner /\ Activated(row).roles = row.roles
BY DEF Activated, GoodRow, UserRow, Statuses

LEMMA SeenGood ==
    ASSUME Team, TeamIInv, NEW u \in Users
    PROVE  /\ GoodRow(Seen(u))
           /\ GoodRow([Seen(Configured) EXCEPT !.roles = @ \cup {"Owner"}])
<1>1. GoodRow(user[u]) /\ user[u] \in UserRow /\ user[Configured] \in UserRow
  BY RowsAreGood DEF TeamIInv, Team, GoodRow
<1>2. GoodRow([NoRow EXCEPT !.status = "pending"])
  BY DEF GoodRow, NoRow, UserRow, Statuses
<1>3. GoodRow(Seen(u))
  BY <1>1, <1>2, ActivatedGood DEF Seen
<1>4. Seen(Configured) = [Activated(user[Configured]) EXCEPT !.is_owner = TRUE]
  BY DEF Seen
<1>5. GoodRow([Seen(Configured) EXCEPT !.roles = @ \cup {"Owner"}])
  BY <1>1, <1>4 DEF Activated, GoodRow, UserRow, Statuses, Team
<1> QED
  BY <1>3, <1>5

LEMMA WithRoleGood ==
    ASSUME NEW row, GoodRow(row), NEW r \in RoleNames
    PROVE  /\ GoodRow(WithRole(row, r))
           /\ GoodRow(WithoutRole(row, r))
           /\ GoodRow([WithoutRole(row, r) EXCEPT !.is_owner = FALSE])
           /\ r # "Owner" => (RowOwns(WithRole(row, r)) <=> RowOwns(row))
           /\ r # "Owner" => (RowOwns(WithoutRole(row, r)) <=> RowOwns(row))
<1>1. GoodRow(WithRole(row, r))
  BY DEF WithRole, Activated, GoodRow, UserRow, Statuses
<1>2. GoodRow(WithoutRole(row, r)) /\ GoodRow([WithoutRole(row, r) EXCEPT !.is_owner = FALSE])
  BY DEF WithoutRole, GoodRow, UserRow, Statuses
<1>3. r # "Owner" => (RowOwns(WithRole(row, r)) <=> RowOwns(row))
  BY DEF WithRole, GoodRow, UserRow, RowOwns
<1>4. r # "Owner" => (RowOwns(WithoutRole(row, r)) <=> RowOwns(row))
  BY DEF WithoutRole, GoodRow, UserRow, RowOwns
<1> QED
  BY <1>1, <1>2, <1>3, <1>4

\* The pages of a user leave a good row behind.
LEMMA UserPageKeeps ==
    ASSUME Team, TeamIInv, NEW a \in Users, NEW u \in Users, UserPage(a, u)
    PROVE  user' \in [Users -> UserRow] /\ OwnersMayAct' /\ perms' = perms /\ actor' = a
<1>1. GoodRow(user[u]) /\ user[u] \in UserRow
  BY RowsAreGood DEF TeamIInv, GoodRow
<1>2. perms' = perms /\ actor' = a
  BY DEF UserPage, ApproveUser, DenyUser, DisableUser, ShutOut, ReactivateUser,
         PromoteOwner, DemoteOwner, AssignRole, RemoveRole, By
<1>3. CASE ApproveUser(a, u) \/ ReactivateUser(a, u)
  BY <1>2, <1>1, <1>3, ActivatedGood, OneRowWritten DEF ApproveUser, ReactivateUser
<1>4. CASE DenyUser(a, u) \/ DisableUser(a, u)
  <2>1. PICK status \in {"denied", "disabled"} : ShutOut(a, u, status)
    BY <1>4 DEF DenyUser, DisableUser
  <2>2. GoodRow([user[u] EXCEPT !.status = status, !.is_active = FALSE])
    BY <1>1, <2>1 DEF ShutOut, IsOwner, GoodRow, UserRow, Statuses
  <2>3. user' = [user EXCEPT ![u] = [user[u] EXCEPT !.status = status, !.is_active = FALSE]]
    BY <2>1 DEF ShutOut, TeamIInv, TeamTypeOK
  <2> QED
    BY <1>2, <2>2, <2>3, OneRowWritten
<1>5. CASE PromoteOwner(a, u)
  <2>1. WithRole(user[u], "Owner") \in UserRow
    BY <1>1, WithRoleGood DEF GoodRow, Team
  <2>2. GoodRow([Activated(WithRole(user[u], "Owner")) EXCEPT !.is_owner = TRUE])
    BY <2>1, ActivatedGood
  <2> QED
    BY <1>2, <1>5, <2>2, OneRowWritten DEF PromoteOwner
<1>6. CASE DemoteOwner(a, u)
  BY <1>2, <1>1, <1>6, WithRoleGood, OneRowWritten DEF DemoteOwner, Team
<1>7. CASE \E r \in RoleNames : AssignRole(a, u, r)
  BY <1>2, <1>1, <1>7, WithRoleGood, OneRowWritten DEF AssignRole
<1>8. CASE \E r \in RoleNames : RemoveRole(a, u, r)
  BY <1>2, <1>1, <1>8, WithRoleGood, OneRowWritten DEF RemoveRole
<1> QED
  BY <1>2, <1>3, <1>4, <1>5, <1>6, <1>7, <1>8 DEF UserPage

\* A deleted role is nobody's any more, and is not the owner's.
LEMMA DeleteRoleKeeps ==
    ASSUME TeamIInv, NEW a \in Users, NEW r \in RoleNames, DeleteRole(a, r)
    PROVE  /\ user' \in [Users -> UserRow]
           /\ \A u \in Users : GoodRow(user'[u]) /\ (IsOwner(u)' <=> IsOwner(u))
<1>1. \A u \in Users : user'[u] = [user[u] EXCEPT !.roles = @ \ {r}]
  BY DEF DeleteRole
<1>2. \A u \in Users : GoodRow(user[u]) /\ user[u] \in UserRow
  BY RowsAreGood DEF TeamIInv, GoodRow
<1>3. r # "Owner"
  BY DEF DeleteRole
<1>4. \A row \in UserRow :
        LET less == [row EXCEPT !.roles = @ \ {r}] IN
        /\ GoodRow(row) => less \in UserRow /\ GoodRow(less)
        /\ RowOwns(less) <=> RowOwns(row)
  BY <1>3 DEF GoodRow, UserRow, RowOwns
<1>5. \A u \in Users : /\ user'[u] \in UserRow /\ GoodRow(user'[u])
                       /\ IsOwner(u)' <=> IsOwner(u)
  <2> SUFFICES ASSUME NEW u \in Users
               PROVE  /\ user'[u] \in UserRow /\ GoodRow(user'[u])
                      /\ RowOwns(user'[u]) <=> RowOwns(user[u])
    BY DEF IsOwner, RowOwns
  <2>1. user'[u] = [user[u] EXCEPT !.roles = @ \ {r}]
    BY <1>1
  <2>2. GoodRow(user[u]) /\ user[u] \in UserRow
    BY <1>2
  <2> QED
    BY <1>4, <2>1, <2>2
<1>6. user' \in [Users -> UserRow]
  BY <1>5 DEF DeleteRole
<1> QED
  BY <1>5, <1>6

LEMMA RolePageKeeps ==
    ASSUME TeamIInv, NEW a \in Users, NEW r \in RoleNames, RolePage(a, r)
    PROVE  /\ TeamIInv' /\ \A u \in Users : IsOwner(u)' <=> IsOwner(u)
<1>1. CASE \E key \in Keys : AddPermission(a, r, key)
  BY <1>1 DEF AddPermission, By, TeamIInv, TeamTypeOK, Roles, OwnersMayAct, IsOwner
<1>2. CASE \E key \in Keys : RemovePermission(a, r, key)
  BY <1>2 DEF RemovePermission, By, TeamIInv, TeamTypeOK, Roles, OwnersMayAct, IsOwner
<1>3. CASE DeleteRole(a, r)
  <2>1. TeamTypeOK'
    BY <1>3, DeleteRoleKeeps DEF DeleteRole, By, TeamIInv, TeamTypeOK, Roles
  <2> QED
    BY <1>3, <2>1, DeleteRoleKeeps, GoodRowsSuffice DEF TeamIInv
<1> QED
  BY <1>1, <1>2, <1>3 DEF RolePage

LEMMA TeamInitIInv ==
    ASSUME TeamInit
    PROVE  TeamIInv
BY DEF TeamInit, TeamIInv, TeamTypeOK, OwnersMayAct, IsOwner, NoRow, UserRow, Statuses, Roles

LEMMA TeamStepKeeps ==
    ASSUME Team, TeamIInv, [TeamNext]_teamVars
    PROVE  TeamIInv'
<1>1. CASE \E u \in Users : Message(u)
  <2>1. PICK u \in Users : Message(u)
    BY <1>1
  <2>2. user' \in [Users -> UserRow] /\ OwnersMayAct'
    BY <2>1, SeenGood, OneRowWritten DEF Message
  <2> QED
    BY <2>1, <2>2 DEF Message, TeamIInv, TeamTypeOK, Roles
<1>2. CASE SetupOwner
  <2>1. user' \in [Users -> UserRow] /\ OwnersMayAct'
    BY <1>2, SeenGood, OneRowWritten DEF SetupOwner, Team
  <2>2. Roles' = RoleNames /\ \A r \in RoleNames : perms'[r] \subseteq Keys
    BY <1>2 DEF SetupOwner, Seeded, DefaultKeys, Roles, TeamIInv, TeamTypeOK
  <2> QED
    BY <1>2, <2>1, <2>2 DEF SetupOwner, TeamIInv, TeamTypeOK, Team
<1>3. CASE \E a, u \in Users : UserPage(a, u)
  BY <1>3, UserPageKeeps DEF TeamIInv, TeamTypeOK, Roles
<1>4. CASE \E a \in Users, r \in RoleNames : RolePage(a, r)
  BY <1>4, RolePageKeeps
<1>5. CASE UNCHANGED teamVars
  BY <1>5 DEF teamVars, TeamIInv, TeamTypeOK, OwnersMayAct, IsOwner, Roles
<1> QED
  BY <1>1, <1>2, <1>3, <1>4, <1>5 DEF TeamNext

\* The invariant holds in every state of every run.
THEOREM TeamInvariance ==
    ASSUME Team
    PROVE  TeamSpec => []TeamIInv
<1>1. TeamInit => TeamIInv
  BY TeamInitIInv
<1>2. TeamIInv /\ [TeamNext]_teamVars => TeamIInv'
  BY TeamStepKeeps
<1> QED
  BY <1>1, <1>2, PTL DEF TeamSpec

\* Type correctness of the users and the roles.
THEOREM TeamTypeCorrect ==
    ASSUME Team
    PROVE  TeamSpec => []TeamTypeOK
<1>1. TeamIInv => TeamTypeOK
  BY DEF TeamIInv
<1> QED
  BY <1>1, TeamInvariance, PTL

\* Whoever counts as an owner is active, by both marks.
THEOREM OwnersAct ==
    ASSUME Team
    PROVE  TeamSpec => []OwnersMayAct
<1>1. TeamIInv => OwnersMayAct
  BY DEF TeamIInv
<1> QED
  BY <1>1, TeamInvariance, PTL

-----------------------------------------------------------------------------
(* Owners come and go.                                                     *)

\* Two owners are counted, so there is one beside the user.
LEMMA AnotherOwner ==
    ASSUME Team, NEW u \in Users, ~(OwnerCount <= 1)
    PROVE  \E v \in Users \ {u} : IsOwner(v)
<1> DEFINE owners == {v \in Users : IsOwner(v) /\ user[v].status = "active"}
<1> SUFFICES ASSUME \A v \in Users \ {u} : ~IsOwner(v)
             PROVE  OwnerCount <= 1
  OBVIOUS
<1>1. owners \subseteq {u}
  OBVIOUS
<1>2. IsFiniteSet({u}) /\ Cardinality({u}) = 1
  BY FS_Singleton
<1>3. Cardinality(owners) <= Cardinality({u})
  BY <1>1, <1>2, FS_Subset
<1> QED
  BY <1>2, <1>3 DEF OwnerCount

\* The pages of a user: who is an owner afterwards.
LEMMA OwnersAfterPage ==
    ASSUME Team, TeamIInv, NEW a \in Users, NEW u \in Users, UserPage(a, u)
    PROVE  /\ \A v \in Users \ {u} : IsOwner(v)' <=> IsOwner(v)
           /\ ~IsOwner(u) /\ IsOwner(u)' => IsOwner(a)
           /\ IsOwner(u) /\ ~IsOwner(u)' => ~(OwnerCount <= 1)
<1>1. /\ user \in [Users -> UserRow]
      /\ GoodRow(user[u]) /\ user[u] \in UserRow
  BY RowsAreGood DEF TeamIInv, TeamTypeOK, GoodRow
<1>2. CASE ApproveUser(a, u) \/ ReactivateUser(a, u)
  BY <1>1, <1>2, ActivatedGood DEF ApproveUser, ReactivateUser, IsOwner
<1>3. CASE DenyUser(a, u) \/ DisableUser(a, u)
  <2>1. PICK status \in {"denied", "disabled"} : ShutOut(a, u, status)
    BY <1>3 DEF DenyUser, DisableUser
  <2>2. user' = [user EXCEPT ![u] = [user[u] EXCEPT !.status = status, !.is_active = FALSE]]
    BY <1>1, <2>1 DEF ShutOut
  <2> QED
    BY <1>1, <2>1, <2>2 DEF ShutOut, IsOwner, UserRow
<1>4. CASE PromoteOwner(a, u)
  <2>1. GoodRow(WithRole(user[u], "Owner")) /\ WithRole(user[u], "Owner") \in UserRow
    BY <1>1, WithRoleGood DEF GoodRow, Team
  <2>2. [Activated(WithRole(user[u], "Owner")) EXCEPT !.is_owner = TRUE].is_owner
    BY <2>1 DEF Activated, UserRow
  <2> QED
    BY <1>1, <1>4, <2>2 DEF PromoteOwner, IsOwner
<1>5. CASE DemoteOwner(a, u)
  BY <1>1, <1>5 DEF DemoteOwner, WithoutRole, LastOwner, IsOwner, UserRow
<1>6. CASE \E r \in RoleNames : AssignRole(a, u, r)
  <2>1. PICK r \in RoleNames : AssignRole(a, u, r)
    BY <1>6
  <2>2. user' = [user EXCEPT ![u] = WithRole(user[u], r)] /\ (r = "Owner" => IsOwner(a))
    BY <2>1 DEF AssignRole
  <2>3. CASE r # "Owner"
    <3>1. RowOwns(user'[u]) <=> RowOwns(user[u])
      BY <1>1, <2>2, <2>3, WithRoleGood
    <3>2. \A v \in Users \ {u} : user'[v] = user[v]
      BY <1>1, <2>2
    <3> QED
      BY <3>1, <3>2 DEF IsOwner, RowOwns
  <2>4. CASE r = "Owner"
    BY <1>1, <2>2, <2>4 DEF WithRole, Activated, IsOwner, UserRow
  <2> QED
    BY <2>3, <2>4
<1>7. CASE \E r \in RoleNames : RemoveRole(a, u, r)
  <2>1. PICK r \in RoleNames : RemoveRole(a, u, r)
    BY <1>7
  <2>2. user' = [user EXCEPT ![u] = WithoutRole(user[u], r)] /\ ~LastOwnerRole(u, r)
    BY <2>1 DEF RemoveRole
  <2>3. CASE r # "Owner"
    <3>1. RowOwns(user'[u]) <=> RowOwns(user[u])
      BY <1>1, <2>2, <2>3, WithRoleGood
    <3>2. \A v \in Users \ {u} : user'[v] = user[v]
      BY <1>1, <2>2
    <3> QED
      BY <3>1, <3>2 DEF IsOwner, RowOwns
  <2>4. CASE r = "Owner"
    BY <1>1, <2>2, <2>4 DEF WithoutRole, LastOwnerRole, IsOwner, UserRow
  <2> QED
    BY <2>3, <2>4
<1> QED
  BY <1>2, <1>3, <1>4, <1>5, <1>6, <1>7 DEF UserPage

\* A message makes no owner but the configured one, and unmakes none.
LEMMA OwnersAfterMessage ==
    ASSUME Team, TeamIInv, (\E u \in Users : Message(u)) \/ SetupOwner
    PROVE  \A v \in Users : /\ IsOwner(v) => IsOwner(v)'
                            /\ IsOwner(v)' => IsOwner(v) \/ v = Configured
<1>1. /\ user \in [Users -> UserRow]
      /\ \A v \in Users : GoodRow(user[v]) /\ user[v] \in UserRow
  BY RowsAreGood DEF TeamIInv, TeamTypeOK, GoodRow
<1>2. Seen(Configured).is_owner
  BY <1>1 DEF Seen, Activated, UserRow, Team
<1>3. CASE SetupOwner
  <2>1. user' = [user EXCEPT ![Configured] =
                    [Seen(Configured) EXCEPT !.roles = @ \cup {"Owner"}]]
    BY <1>3 DEF SetupOwner
  <2>2. [Seen(Configured) EXCEPT !.roles = @ \cup {"Owner"}].is_owner
    BY <1>1, <1>2 DEF Seen, Activated, UserRow, Team
  <2> QED
    BY <1>1, <2>1, <2>2 DEF IsOwner, Team
<1>4. CASE \E u \in Users : Message(u)
  <2>1. PICK u \in Users : user' = [user EXCEPT ![u] = Seen(u)]
    BY <1>4 DEF Message
  <2>2. CASE u = Configured
    BY <1>1, <1>2, <2>1, <2>2 DEF IsOwner
  <2>3. CASE u # Configured /\ Known(u)
    BY <1>1, <2>1, <2>3 DEF IsOwner, Seen
  <2>4. CASE u # Configured /\ ~Known(u)
    BY <1>1, <2>1, <2>4 DEF IsOwner, Seen, Known, NoRow, GoodRow
  <2> QED
    BY <2>2, <2>3, <2>4
<1> QED
  BY <1>3, <1>4

LEMMA StepKeepsOwner ==
    ASSUME Team, TeamIInv, TeamIInv', [TeamNext]_teamVars, SomeOwner
    PROVE  SomeOwner'
<1>1. PICK v \in Users : IsOwner(v)
  BY DEF SomeOwner
<1> SUFFICES \E w \in Users : IsOwner(w)'
  BY DEF SomeOwner, TeamIInv, OwnersMayAct
<1>2. CASE (\E u \in Users : Message(u)) \/ SetupOwner
  BY <1>1, <1>2, OwnersAfterMessage
<1>3. CASE \E a, u \in Users : UserPage(a, u)
  <2>1. PICK a \in Users, u \in Users : UserPage(a, u)
    BY <1>3
  <2>2. CASE IsOwner(v)'
    BY <2>2
  <2>3. CASE ~IsOwner(v)'
    BY <1>1, <2>1, <2>3, OwnersAfterPage, AnotherOwner
  <2> QED
    BY <2>2, <2>3
<1>4. CASE \E a \in Users, r \in RoleNames : RolePage(a, r)
  BY <1>1, <1>4, RolePageKeeps
<1>5. CASE UNCHANGED teamVars
  BY <1>1, <1>5 DEF teamVars, IsOwner
<1> QED
  BY <1>2, <1>3, <1>4, <1>5 DEF TeamNext

\* An agency that has an owner who may act keeps one, whatever two owners do
\* to each other.
THEOREM OwnersRemain ==
    ASSUME Team
    PROVE  TeamSpec => OwnerRemains
<1>1. TeamIInv /\ TeamIInv' /\ [TeamNext]_teamVars => (SomeOwner => SomeOwner')
  BY StepKeepsOwner
<1> QED
  BY <1>1, TeamInvariance, PTL DEF TeamSpec, OwnerRemains

LEMMA StepMakesOwner ==
    ASSUME Team, TeamIInv, [TeamNext]_teamVars, NEW u \in Users,
           ~IsOwner(u), IsOwner(u)', u # Configured
    PROVE  actor' \in Users /\ IsOwner(actor')
<1>1. CASE (\E w \in Users : Message(w)) \/ SetupOwner
  BY <1>1, OwnersAfterMessage
<1>2. CASE \E a, w \in Users : UserPage(a, w)
  BY <1>2, OwnersAfterPage, UserPageKeeps
<1>3. CASE \E a \in Users, r \in RoleNames : RolePage(a, r)
  BY <1>3, RolePageKeeps
<1>4. CASE UNCHANGED teamVars
  BY <1>4 DEF teamVars, IsOwner
<1> QED
  BY <1>1, <1>2, <1>3, <1>4 DEF TeamNext

\* Nobody but an owner makes an owner of anyone but the configured user.
THEOREM OwnersMakeOwners ==
    ASSUME Team
    PROVE  TeamSpec => OwnerMadeByOwner
<1> DEFINE Made ==
      \A u \in Users :
        ~IsOwner(u) /\ IsOwner(u)' /\ u # Configured
            => actor' \in Users /\ IsOwner(actor')
<1>1. TeamIInv /\ [TeamNext]_teamVars => Made
  BY StepMakesOwner
<1>2. TeamSpec => [][Made]_teamVars
  BY <1>1, TeamInvariance, PTL DEF TeamSpec
<1> QED
  BY <1>2 DEF OwnerMadeByOwner

\* Ownership is sound in every run.
THEOREM OwnershipIsSound ==
    ASSUME Team
    PROVE  TeamSpec => Ownership
BY OwnersAct, OwnersRemain, OwnersMakeOwners, PTL DEF Ownership

-----------------------------------------------------------------------------
(* The rotation of proxy sessions.                                         *)

\* The rows of proxy_session_memory tell the whole history: a suffix is never
\* taken up without a row of its own.
RotationIInv == RotationTypeOK /\ memory = since

LEMMA RotationInitIInv ==
    ASSUME Window \in Nat, RotationInit
    PROVE  RotationIInv
BY DEF RotationInit, RotationIInv, RotationTypeOK, Ages, Forgotten

\* An age grows until it has left the window.
LEMMA AgedTyped ==
    ASSUME Window \in Nat, NEW ages \in [Suffixes -> Ages]
    PROVE  Aged(ages) \in [Suffixes -> Ages]
BY DEF Aged, Ages, Forgotten

LEMMA TakenUp ==
    ASSUME Window \in Nat, RotationIInv, NEW s \in Suffixes, TakeUp(s), Remember(s)
    PROVE  /\ memory' = since'
           /\ memory' \in [Suffixes -> Ages] /\ since' \in [Suffixes -> Ages]
BY DEF RotationIInv, RotationTypeOK, TakeUp, Remember, Ages, Forgotten

LEMMA RotationStepKeeps ==
    ASSUME Window \in Nat, NoSuffix \notin Suffixes, RotationIInv, [RotationNext]_rotationVars
    PROVE  RotationIInv'
<1>1. CASE \E s \in Suffixes : Create(s)
  <2>1. PICK s \in Suffixes : Create(s)
    BY <1>1
  <2>2. memory' = since' /\ memory' \in [Suffixes -> Ages] /\ since' \in [Suffixes -> Ages]
    BY <2>1, TakenUp DEF Create
  <2> QED
    BY <2>1, <2>2 DEF Create, TakeUp, RotationIInv, RotationTypeOK
<1>2. CASE \E s \in Suffixes : Rotate(s)
  <2>1. PICK s \in Suffixes : Rotate(s)
    BY <1>2
  <2>2. memory' = since' /\ memory' \in [Suffixes -> Ages] /\ since' \in [Suffixes -> Ages]
    BY <2>1, TakenUp DEF Rotate
  <2>3. s # suffix
    BY <2>1 DEF Rotate, Recent
  <2> QED
    BY <2>1, <2>2, <2>3 DEF Rotate, TakeUp, RotationIInv, RotationTypeOK
<1>3. CASE Rollback
  <2>1. previous \in Suffixes /\ TakeUp(previous) /\ Remember(previous)
    BY <1>3 DEF Rollback, RotationIInv, RotationTypeOK
  <2>2. memory' = since' /\ memory' \in [Suffixes -> Ages] /\ since' \in [Suffixes -> Ages]
    BY <2>1, TakenUp
  <2> QED
    BY <1>3, <2>2 DEF Rollback, TakeUp, RotationIInv, RotationTypeOK
<1>4. CASE Tick
  <2>1. memory' \in [Suffixes -> Ages] /\ since' \in [Suffixes -> Ages]
    BY <1>4, AgedTyped DEF Tick, RotationIInv, RotationTypeOK
  <2> QED
    BY <1>4, <2>1 DEF Tick, RotationIInv, RotationTypeOK
<1>5. CASE UNCHANGED rotationVars
  BY <1>5 DEF rotationVars, RotationIInv, RotationTypeOK
<1> QED
  BY <1>1, <1>2, <1>3, <1>4, <1>5 DEF RotationNext

\* The invariant holds in every state of every run.
THEOREM RotationInvariance ==
    ASSUME Window \in Nat, NoSuffix \notin Suffixes
    PROVE  RotationSpec => []RotationIInv
<1>1. RotationInit => RotationIInv
  BY RotationInitIInv
<1>2. RotationIInv /\ [RotationNext]_rotationVars => RotationIInv'
  BY RotationStepKeeps
<1> QED
  BY <1>1, <1>2, PTL DEF RotationSpec

\* Type correctness of the suffixes: the suffix in use is never its own
\* predecessor.
THEOREM RotationTypeCorrect ==
    ASSUME Window \in Nat, NoSuffix \notin Suffixes
    PROVE  RotationSpec => []RotationTypeOK
<1>1. RotationIInv => RotationTypeOK
  BY DEF RotationIInv
<1> QED
  BY <1>1, RotationInvariance, PTL

\* A suffix refused by no row of the window was taken up before the window.
LEMMA RotationIsFresh ==
    ASSUME Window \in Nat, RotationIInv
    PROVE  \A s \in Suffixes : Rotate(s) => since[s] > Window
BY DEF RotationIInv, RotationTypeOK, Rotate, Recent, Ages, Forgotten

\* A rotation never takes up a suffix that was taken up within the window,
\* along whatever sequence of rotations and rollbacks.
THEOREM RotationsAreFresh ==
    ASSUME Window \in Nat, NoSuffix \notin Suffixes
    PROVE  RotationSpec => FreshRotation
<1>1. RotationIInv => \A s \in Suffixes : Rotate(s) => since[s] > Window
  BY RotationIsFresh
<1> QED
  BY <1>1, RotationInvariance, PTL DEF FreshRotation

-----------------------------------------------------------------------------
(* Signing an account in.                                                  *)

\* The codes are counted session by session.
Tables ==
    /\ sessions \in Seq(Sessions) /\ codes \in Seq(Nat)
    /\ Len(codes) = Len(sessions)

SignInIInv == SignInTypeOK /\ Tables /\ OneCodePerSession /\ ConnectedByLatest

LEMMA SignInInitIInv ==
    ASSUME MaxSessions \in Nat, SignInInit
    PROVE  SignInIInv
BY DEF SignInInit, SignInIInv, SignInTypeOK, Tables, OneCodePerSession, ConnectedByLatest

\* A function over the indices of a sequence is a sequence of its length.
LEMMA SequenceOver ==
    ASSUME NEW R, NEW S, NEW q \in Seq(R), NEW f \in [DOMAIN q -> S]
    PROVE  f \in Seq(S) /\ Len(f) = Len(q) /\ DOMAIN f = DOMAIN q
<1>1. DOMAIN q = 1 .. Len(q) /\ Len(q) \in Nat
  OBVIOUS
<1> QED
  BY <1>1

LEMMA SignInStartKeeps ==
    ASSUME MaxSessions \in Nat, SignInIInv, Start
    PROVE  SignInIInv'
<1> DEFINE fresh == [status |-> "waiting_for_code", overdue |-> FALSE]
           n == Len(sessions)
<1>1. /\ sessions \in Seq(Sessions) /\ codes \in Seq(Nat) /\ Len(codes) = n
      /\ n \in Nat /\ fresh \in Sessions
  BY DEF SignInIInv, Tables, Sessions
<1>2. sessions' = Append(sessions, fresh) /\ codes' = Append(codes, 0)
  BY DEF Start
<1> HIDE DEF fresh
<1>3. /\ sessions' \in Seq(Sessions) /\ Len(sessions') = n + 1
      /\ DOMAIN sessions' = 1 .. n + 1 /\ sessions'[n + 1] = fresh
      /\ \A i \in 1 .. n : sessions'[i] = sessions[i]
  BY <1>1, <1>2
<1>4. /\ codes' \in Seq(Nat) /\ Len(codes') = n + 1
      /\ DOMAIN codes' = 1 .. n + 1 /\ codes'[n + 1] = 0
      /\ \A i \in 1 .. n : codes'[i] = codes[i]
  BY <1>1, <1>2
<1>5. Tables'
  BY <1>3, <1>4 DEF Tables
<1>6. SignInTypeOK'
  BY <1>1, <1>3, <1>4 DEF Start, SignInIInv, SignInTypeOK
<1>7. OneCodePerSession'
  <2> SUFFICES ASSUME NEW i \in 1 .. n + 1
               PROVE  codes'[i] <= 1 /\ (sessions'[i].status = "waiting_for_code" => codes'[i] = 0)
    BY <1>3 DEF OneCodePerSession
  <2>1. CASE i = n + 1
    BY <2>1, <1>4
  <2>2. CASE i \in 1 .. n
    <3>1. i \in DOMAIN sessions
      BY <2>2, <1>1
    <3>2. codes[i] <= 1 /\ (sessions[i].status = "waiting_for_code" => codes[i] = 0)
      BY <3>1 DEF SignInIInv, OneCodePerSession
    <3> QED
      BY <2>2, <3>2, <1>3, <1>4
  <2> QED
    BY <2>1, <2>2, <1>1
<1>8. ConnectedByLatest'
  BY DEF Start, ConnectedByLatest
<1> QED
  BY <1>5, <1>6, <1>7, <1>8 DEF SignInIInv

\* An operation that rewrites rows in place, and neither adds nor removes one.
LEMMA RowsRewritten ==
    ASSUME SignInIInv, NEW f \in [DOMAIN sessions -> Sessions], sessions' = f
    PROVE  /\ sessions' \in Seq(Sessions) /\ Len(sessions') = Len(sessions)
           /\ DOMAIN sessions' = DOMAIN sessions
<1>1. sessions \in Seq(Sessions)
  BY DEF SignInIInv, Tables
<1> QED
  BY <1>1, SequenceOver

LEMMA RunOutKeeps ==
    ASSUME SignInIInv, NEW i \in DOMAIN sessions, RunOut(i)
    PROVE  SignInIInv'
<1>1. sessions' = [sessions EXCEPT ![i].overdue = TRUE]
  BY DEF RunOut
<1>2. \A j \in DOMAIN sessions : sessions[j] \in Sessions
  BY DEF SignInIInv, SignInTypeOK
<1>3. /\ sessions' \in [DOMAIN sessions -> Sessions]
      /\ \A j \in DOMAIN sessions : sessions'[j].status = sessions[j].status
  BY <1>1, <1>2 DEF Sessions
<1>4. /\ sessions' \in Seq(Sessions) /\ Len(sessions') = Len(sessions)
      /\ DOMAIN sessions' = DOMAIN sessions
  BY <1>3, RowsRewritten
<1>5. standing' = standing /\ auth' = auth /\ codes' = codes
  BY DEF RunOut
<1>6. SignInTypeOK' /\ Tables' /\ OneCodePerSession'
  BY <1>3, <1>4, <1>5 DEF SignInIInv, SignInTypeOK, Tables, OneCodePerSession
<1>7. ConnectedByLatest'
  <2> SUFFICES ASSUME auth = "connected", sessions # <<>>
               PROVE  sessions'[Len(sessions)].status = "success"
    BY <1>4, <1>5 DEF ConnectedByLatest, SignInIInv, Tables
  <2>1. Len(sessions) \in DOMAIN sessions
    BY DEF SignInIInv, Tables
  <2> QED
    BY <2>1, <1>3 DEF SignInIInv, ConnectedByLatest
<1> QED
  BY <1>6, <1>7 DEF SignInIInv

\* A code: the session was waiting and is not the latest of a connected account.
LEMMA AcceptedKeeps ==
    ASSUME SignInIInv, NEW i \in DOMAIN sessions, Accepts(sessions[i]),
           sessions' = [sessions EXCEPT ![i].status = "submitted"],
           codes' = [codes EXCEPT ![i] = @ + 1],
           standing' = standing, auth' = auth
    PROVE  SignInIInv'
<1>1. /\ \A j \in DOMAIN sessions : sessions[j] \in Sessions
      /\ DOMAIN codes = DOMAIN sessions /\ \A j \in DOMAIN codes : codes[j] \in Nat
      /\ codes \in Seq(Nat) /\ Len(codes) = Len(sessions)
  BY DEF SignInIInv, SignInTypeOK, Tables
<1>2. /\ sessions' \in [DOMAIN sessions -> Sessions]
      /\ sessions'[i].status = "submitted"
      /\ \A j \in DOMAIN sessions : j # i => sessions'[j] = sessions[j]
  BY <1>1 DEF Sessions
<1>3. /\ sessions' \in Seq(Sessions) /\ Len(sessions') = Len(sessions)
      /\ DOMAIN sessions' = DOMAIN sessions
  BY <1>2, RowsRewritten
<1>4. codes[i] = 0
  BY DEF Accepts, SignInIInv, OneCodePerSession
<1>5. /\ codes' \in [DOMAIN codes -> Nat] /\ codes'[i] = 1
      /\ \A j \in DOMAIN sessions : j # i => codes'[j] = codes[j]
  BY <1>1, <1>4
<1>6. codes' \in Seq(Nat) /\ Len(codes') = Len(codes) /\ DOMAIN codes' = DOMAIN codes
  BY <1>1, <1>5, SequenceOver
<1>7. SignInTypeOK' /\ Tables'
  BY <1>1, <1>2, <1>3, <1>5, <1>6 DEF SignInIInv, SignInTypeOK, Tables
<1>8. OneCodePerSession'
  BY <1>2, <1>3, <1>5 DEF SignInIInv, OneCodePerSession
<1>9. ConnectedByLatest'
  <2> SUFFICES ASSUME auth = "connected", sessions # <<>>
               PROVE  sessions'[Len(sessions)].status = "success"
    BY <1>3 DEF ConnectedByLatest, SignInIInv, Tables
  <2>1. /\ Len(sessions) \in DOMAIN sessions
        /\ sessions[Len(sessions)].status = "success"
    BY DEF SignInIInv, Tables, ConnectedByLatest
  <2>2. Len(sessions) # i
    BY <2>1 DEF Accepts
  <2> QED
    BY <2>1, <2>2, <1>2
<1> QED
  BY <1>7, <1>8, <1>9 DEF SignInIInv

LEMMA ExpireKeeps ==
    ASSUME SignInIInv, Expire
    PROVE  SignInIInv'
<1>1. /\ \A j \in DOMAIN sessions : sessions[j] \in Sessions
      /\ standing' = standing /\ codes' = codes
  BY DEF SignInIInv, SignInTypeOK, Expire
<1>2. /\ sessions' \in [DOMAIN sessions -> Sessions]
      /\ \A j \in DOMAIN sessions :
           /\ Expirable(sessions[j]) => sessions'[j].status = "expired"
           /\ ~Expirable(sessions[j]) => sessions'[j] = sessions[j]
  BY <1>1 DEF Expire, Sessions
<1>3. /\ sessions' \in Seq(Sessions) /\ Len(sessions') = Len(sessions)
      /\ DOMAIN sessions' = DOMAIN sessions
  BY <1>2, RowsRewritten
<1>4. auth' \in {auth, "expired"}
  BY DEF Expire
<1>5. SignInTypeOK' /\ Tables'
  BY <1>1, <1>2, <1>3, <1>4 DEF SignInIInv, SignInTypeOK, Tables
<1>6. OneCodePerSession'
  BY <1>1, <1>2, <1>3 DEF SignInIInv, OneCodePerSession
<1>7. ConnectedByLatest'
  <2> SUFFICES ASSUME auth' = "connected", sessions # <<>>
               PROVE  sessions'[Len(sessions)].status = "success"
    BY <1>3 DEF ConnectedByLatest, SignInIInv, Tables
  <2>1. Len(sessions) \in DOMAIN sessions
    BY DEF SignInIInv, Tables
  <2>2. auth = "connected"
    BY <1>4
  <2>3. sessions[Len(sessions)].status = "success"
    BY <2>2 DEF SignInIInv, ConnectedByLatest
  <2> QED
    BY <2>1, <2>3, <1>2 DEF Expirable
<1> QED
  BY <1>5, <1>6, <1>7 DEF SignInIInv

LEMMA ConnectKeeps ==
    ASSUME SignInIInv, Connect
    PROVE  SignInIInv'
<1>1. /\ \A j \in DOMAIN sessions : sessions[j] \in Sessions
      /\ standing' = standing /\ codes' = codes /\ auth' = "connected"
  BY DEF SignInIInv, SignInTypeOK, Connect
<1>2. /\ sessions' \in [DOMAIN sessions -> Sessions]
      /\ \A j \in DOMAIN sessions :
           /\ j = Len(sessions) => sessions'[j].status = "success"
           /\ j # Len(sessions) => sessions'[j] = sessions[j]
  BY <1>1 DEF Connect, Sessions
<1>3. /\ sessions' \in Seq(Sessions) /\ Len(sessions') = Len(sessions)
      /\ DOMAIN sessions' = DOMAIN sessions
  BY <1>2, RowsRewritten
<1>4. SignInTypeOK' /\ Tables'
  BY <1>1, <1>2, <1>3 DEF SignInIInv, SignInTypeOK, Tables
<1>5. OneCodePerSession'
  BY <1>1, <1>2, <1>3 DEF SignInIInv, OneCodePerSession
<1>6. ConnectedByLatest'
  BY <1>2, <1>3 DEF ConnectedByLatest, SignInIInv, Tables
<1> QED
  BY <1>4, <1>5, <1>6 DEF SignInIInv

LEMMA SignInStepKeeps ==
    ASSUME MaxSessions \in Nat, SignInIInv, [SignInNext]_signInVars
    PROVE  SignInIInv'
<1>1. CASE Start
  BY <1>1, SignInStartKeeps
<1>2. CASE \E i \in DOMAIN sessions : RunOut(i)
  BY <1>2, RunOutKeeps
<1>3. CASE \E i \in DOMAIN sessions : Submit(i)
  BY <1>3, AcceptedKeeps, ExpireKeeps DEF Submit
<1>4. CASE Connect
  BY <1>4, ConnectKeeps
<1>5. CASE NeedsLogin
  BY <1>5 DEF NeedsLogin, SignInIInv, SignInTypeOK, Tables, OneCodePerSession, ConnectedByLatest
<1>6. CASE Disable
  BY <1>6 DEF Disable, SignInIInv, SignInTypeOK, Tables, OneCodePerSession, ConnectedByLatest
<1>7. CASE Archive
  BY <1>7 DEF Archive, SignInIInv, SignInTypeOK, Tables, OneCodePerSession, ConnectedByLatest
<1>8. CASE UNCHANGED signInVars
  BY <1>8 DEF signInVars, SignInIInv, SignInTypeOK, Tables, OneCodePerSession, ConnectedByLatest
<1> QED
  BY <1>1, <1>2, <1>3, <1>4, <1>5, <1>6, <1>7, <1>8 DEF SignInNext

\* The invariant holds in every state of every run.
THEOREM SignInInvariance ==
    ASSUME MaxSessions \in Nat
    PROVE  SignInSpec => []SignInIInv
<1>1. SignInInit => SignInIInv
  BY SignInInitIInv
<1>2. SignInIInv /\ [SignInNext]_signInVars => SignInIInv'
  BY SignInStepKeeps
<1> QED
  BY <1>1, <1>2, PTL DEF SignInSpec

\* Type correctness of the account and its sessions.
THEOREM SignInTypeCorrect ==
    ASSUME MaxSessions \in Nat
    PROVE  SignInSpec => []SignInTypeOK
<1>1. SignInIInv => SignInTypeOK
  BY DEF SignInIInv
<1> QED
  BY <1>1, SignInInvariance, PTL

\* A session takes one code, and one that waits for its code has none.
THEOREM CodesAreSingle ==
    ASSUME MaxSessions \in Nat
    PROVE  SignInSpec => []OneCodePerSession
<1>1. SignInIInv => OneCodePerSession
  BY DEF SignInIInv
<1> QED
  BY <1>1, SignInInvariance, PTL

\* An account is shown as connected only while its latest session succeeded.
THEOREM ConnectionIsOfLatest ==
    ASSUME MaxSessions \in Nat
    PROVE  SignInSpec => []ConnectedByLatest
<1>1. SignInIInv => ConnectedByLatest
  BY DEF SignInIInv
<1> QED
  BY <1>1, SignInInvariance, PTL

\* No step undoes the success of a session.
LEMMA StepKeepsSuccess ==
    ASSUME SignInIInv, [SignInNext]_signInVars, NEW i \in DOMAIN sessions, sessions[i].status = "success"
    PROVE  sessions'[i].status = "success"
<1>1. /\ sessions \in Seq(Sessions) /\ sessions[i] \in Sessions
      /\ \A j \in DOMAIN sessions : sessions[j] \in Sessions
  BY DEF SignInIInv, SignInTypeOK, Tables
<1>2. CASE Start
  BY <1>1, <1>2 DEF Start
<1>3. CASE \E j \in DOMAIN sessions : RunOut(j)
  BY <1>1, <1>3 DEF RunOut, Sessions
<1>4. CASE Expire
  BY <1>4 DEF Expire, Expirable
<1>5. CASE \E j \in DOMAIN sessions : Submit(j)
  BY <1>1, <1>4, <1>5 DEF Submit, Accepts
<1>6. CASE Connect
  BY <1>1, <1>6 DEF Connect, Sessions
<1>7. CASE UNCHANGED sessions
  BY <1>7
<1> QED
  BY <1>2, <1>3, <1>5, <1>6, <1>7 DEF SignInNext, signInVars, NeedsLogin, Disable, Archive

\* A session that succeeded keeps its outcome, however late codes come.
THEOREM SuccessesAreKept ==
    ASSUME MaxSessions \in Nat
    PROVE  SignInSpec => SuccessIsKept
<1> DEFINE Kept ==
      \A i \in DOMAIN sessions :
        sessions[i].status = "success" => sessions'[i].status = "success"
<1>1. SignInIInv /\ [SignInNext]_signInVars => Kept
  BY StepKeepsSuccess
<1>2. SignInSpec => [][Kept]_signInVars
  BY <1>1, SignInInvariance, PTL DEF SignInSpec
<1> QED
  BY <1>2 DEF SuccessIsKept

\* Signing in is sound in every run.
THEOREM SigningIn ==
    ASSUME MaxSessions \in Nat
    PROVE  SignInSpec => SignInIsSound
BY CodesAreSingle, ConnectionIsOfLatest, SuccessesAreKept, PTL DEF SignInIsSound

-----------------------------------------------------------------------------
(* The supervisor of the two processes.                                    *)

\* Before the handlers are installed no signal has been counted; a parent
\* that waits for children waits for all that run; one that comes back to
\* its loop after a signal, or has returned, has none.
NobodyRuns ==
    /\ at \in {"start_api", "start_bot", "started"} => signals = 0
    /\ at = "closing" => Running \subseteq closing
    /\ at = "watching" /\ signals > 0 => Running = {}
    /\ at = "exited" => Running = {}

ParentIInv == ParentTypeOK /\ NobodyRuns /\ LockOrOverride

LEMMA ParentInitIInv ==
    ASSUME MaxSignals \in Nat, ParentInit
    PROVE  ParentIInv
BY DEF ParentInit, ParentIInv, ParentTypeOK, NobodyRuns, LockOrOverride, Running, Names

\* The parent starts its children.
LEMMA ParentStartKeeps ==
    ASSUME ParentIInv, StartApi \/ StartBot
    PROVE  ParentIInv'
<1>1. CASE StartApi
  BY <1>1 DEF StartApi, ParentIInv, ParentTypeOK, NobodyRuns, LockOrOverride, Names
<1>2. CASE StartBot
  <2>1. ParentTypeOK' /\ NobodyRuns'
    BY <1>2 DEF StartBot, ParentIInv, ParentTypeOK, NobodyRuns, Names
  <2>2. LockOrOverride'
    BY <1>2 DEF StartBot, StartsBot, ParentIInv, ParentTypeOK, LockOrOverride, Names
  <2> QED
    BY <2>1, <2>2 DEF ParentIInv
<1> QED
  BY <1>1, <1>2

\* The loop waits for all that run: it is a process that has ended that is
\* left out.
LEMMA NoticeKeeps ==
    ASSUME ParentIInv, Notice
    PROVE  ParentIInv'
<1>1. PICK n \in Started : child[n] = "ended" /\ closing' = Started \ {n}
  BY DEF Notice, Watched
<1>2. Running' \subseteq closing'
  BY <1>1 DEF Notice, Running, Started
<1>3. ParentTypeOK'
  BY <1>1 DEF Notice, ParentIInv, ParentTypeOK, Started
<1> QED
  BY <1>2, <1>3 DEF Notice, ParentIInv, NobodyRuns, LockOrOverride

\* When the waiting is over, whoever was waited for has ended.
LEMMA ClosedKeeps ==
    ASSUME ParentIInv, Closed
    PROVE  ParentIInv'
<1>1. Running' = {}
  BY DEF Closed, Killed, Running, ParentIInv, ParentTypeOK, NobodyRuns
<1>2. ParentTypeOK'
  BY DEF Closed, ParentIInv, ParentTypeOK
<1>3. LockOrOverride'
  BY DEF Closed, Killed, Running, ParentIInv, ParentTypeOK, LockOrOverride, Names
<1> QED
  BY <1>1, <1>2, <1>3 DEF Closed, ParentIInv, NobodyRuns

LEMMA SignalKeeps ==
    ASSUME MaxSignals \in Nat, ParentIInv, Signal
    PROVE  ParentIInv'
<1>1. CASE at' = "killed" /\ UNCHANGED <<env, child, signals, closing, code>>
  BY <1>1 DEF ParentIInv, ParentTypeOK, NobodyRuns, LockOrOverride
<1>2. CASE /\ signals < MaxSignals /\ signals' = signals + 1
           /\ closing' = Started /\ at' = "closing"
           /\ UNCHANGED <<env, child, code>>
  <2>1. Running' \subseteq closing'
    BY <1>2 DEF Running, Started
  <2>2. ParentTypeOK'
    BY <1>2 DEF ParentIInv, ParentTypeOK, Started
  <2> QED
    BY <1>2, <2>1, <2>2 DEF ParentIInv, NobodyRuns, LockOrOverride
<1> QED
  BY <1>1, <1>2 DEF Signal

LEMMA EndKeeps ==
    ASSUME ParentIInv, NEW n \in Names, End(n)
    PROVE  ParentIInv'
<1>1. Running' \subseteq Running
  BY DEF End, Running, ParentIInv, ParentTypeOK
<1>2. ParentTypeOK'
  BY DEF End, ParentIInv, ParentTypeOK
<1>3. LockOrOverride'
  BY DEF End, ParentIInv, ParentTypeOK, LockOrOverride, Names
<1> QED
  BY <1>1, <1>2, <1>3 DEF End, ParentIInv, NobodyRuns

LEMMA ParentStepKeeps ==
    ASSUME MaxSignals \in Nat, ParentIInv, [ParentNext]_parentVars
    PROVE  ParentIInv'
<1>1. CASE StartApi \/ StartBot
  BY <1>1, ParentStartKeeps
<1>2. CASE Install
  BY <1>2 DEF Install, ParentIInv, ParentTypeOK, NobodyRuns, LockOrOverride, Started, Running
<1>3. CASE Notice
  BY <1>3, NoticeKeeps
<1>4. CASE Leave
  BY <1>4 DEF Leave, ParentIInv, ParentTypeOK, NobodyRuns, LockOrOverride, Running
<1>5. CASE Closed
  BY <1>5, ClosedKeeps
<1>6. CASE Signal
  BY <1>6, SignalKeeps
<1>7. CASE \E n \in Names : End(n)
  BY <1>7, EndKeeps
<1>8. CASE UNCHANGED parentVars
  BY <1>8 DEF parentVars, ParentIInv, ParentTypeOK, NobodyRuns, LockOrOverride, Running
<1> QED
  BY <1>1, <1>2, <1>3, <1>4, <1>5, <1>6, <1>7, <1>8 DEF ParentNext, Steps

\* The invariant holds in every state of every run.
THEOREM ParentInvariance ==
    ASSUME MaxSignals \in Nat
    PROVE  ParentSpec => []ParentIInv
<1>1. ParentInit => ParentIInv
  BY ParentInitIInv
<1>2. ParentIInv /\ [ParentNext]_parentVars => ParentIInv'
  BY ParentStepKeeps
<1> QED
  BY <1>1, <1>2, PTL DEF ParentSpec

\* Type correctness of the supervisor.
THEOREM ParentTypeCorrect ==
    ASSUME MaxSignals \in Nat
    PROVE  ParentSpec => []ParentTypeOK
<1>1. ParentIInv => ParentTypeOK
  BY DEF ParentIInv
<1> QED
  BY <1>1, ParentInvariance, PTL

\* A parent that returns leaves nobody behind: it returns only when the loop
\* has waited for everyone who ran, whenever signals interrupt the waiting.
THEOREM NobodyIsLeftBehind ==
    ASSUME MaxSignals \in Nat
    PROVE  ParentSpec => []NobodyLeftBehind
<1>1. ParentIInv => NobodyLeftBehind
  BY DEF ParentIInv, NobodyRuns, NobodyLeftBehind
<1> QED
  BY <1>1, ParentInvariance, PTL

\* On the platform a bot is started only where it can hold the Redis lock, or
\* where polling without it was explicitly allowed.
THEOREM BotHasLock ==
    ASSUME MaxSignals \in Nat
    PROVE  ParentSpec => []LockOrOverride
<1>1. ParentIInv => LockOrOverride
  BY DEF ParentIInv
<1> QED
  BY <1>1, ParentInvariance, PTL

-----------------------------------------------------------------------------
(* Text input.                                                             *)

\* What the constants stand for: no entry is no entry of a dictionary.
Inputs == NoEntry \notin I!Entry /\ MaxPrompts \in Nat

\* The dictionaries hold entries of their own kind's steps, the text in hand
\* was one of them.
InputTyped ==
    /\ pending \in [Kinds -> I!Entry \cup {NoEntry}]
    /\ \A k \in Kinds : pending[k] # NoEntry =>
         pending[k].step \in I!StepsOf(k) \cup {"edit_niche"}
    /\ asked \in Seq(Kinds) /\ Len(asked) <= MaxPrompts
    /\ rendered \in 0 .. Len(asked) /\ latest \in 0 .. Len(asked)
    /\ saved \in [I!Prompts -> Nat]
    /\ text # I!NoText => /\ text.stage \in {"saving", "returning"}
                          /\ text.entry \in I!Entry /\ text.kind \in Kinds
                          /\ text.entry.step \in I!StepsOf(text.kind) \cup {"edit_niche"}

\* Each prompt has one bearer: an entry, the text in hand, or a record.
OneBearer ==
    /\ \A k \in Kinds : pending[k] # NoEntry =>
         /\ pending[k].prompt <= Len(asked) /\ saved[pending[k].prompt] = 0
         /\ text # I!NoText => text.entry.prompt # pending[k].prompt
    /\ \A j, k \in Kinds :
         /\ pending[j] # NoEntry /\ pending[k] # NoEntry
         /\ pending[j].prompt = pending[k].prompt
         => j = k
    /\ text # I!NoText => text.entry.prompt <= Len(asked) /\ saved[text.entry.prompt] = 0
    /\ \A p \in I!Prompts : saved[p] <= 1 /\ (p > Len(asked) => saved[p] = 0)

\* What will be put back is a report that answers the last rendered page.
ReturnsToLatest ==
    text # I!NoText /\ text.stage = "returning" =>
        text.kind = "report" /\ text.entry.prompt = rendered

TextIInv ==
    /\ InputTyped /\ OneBearer /\ ReturnsToLatest
    /\ I!VolatileIsLatest /\ I!IntakeKnowsItsSubject

LEMMA TextInitIInv ==
    ASSUME Inputs, I!Init
    PROVE  TextIInv
<1>1. text = I!NoText /\ pending = [k \in Kinds |-> NoEntry] /\ asked = <<>>
      /\ rendered = 0 /\ latest = 0
      /\ saved = [p \in I!Prompts |-> 0]
  BY DEF I!Init
<1>2. InputTyped
  BY <1>1 DEF Inputs, InputTyped
<1>3. OneBearer /\ ReturnsToLatest
  BY <1>1 DEF OneBearer, ReturnsToLatest
<1>4. I!VolatileIsLatest
  BY <1>1 DEF I!VolatileIsLatest
<1>5. I!IntakeKnowsItsSubject
  BY <1>1 DEF I!IntakeKnowsItsSubject, I!NoText
<1> QED
  BY <1>2, <1>3, <1>4, <1>5 DEF TextIInv

\* The steps of a kind in their order.
LEMMA FirstStep ==
    ASSUME NEW k
    PROVE  I!Steps(k)[1] \in I!StepsOf(k)
BY DEF I!Steps, I!StepsOf

LEMMA StepsAreNumbered ==
    ASSUME NEW k
    PROVE  Len(I!Steps(k)) \in Nat /\ DOMAIN I!Steps(k) = 1 .. Len(I!Steps(k))
<1>1. Len(I!Steps(k)) \in Nat
  BY DEF I!Steps
<1>2. DOMAIN I!Steps(k) = 1 .. Len(I!Steps(k))
  <2>1. CASE k = "creator"
    BY <2>1 DEF I!Steps
  <2>2. CASE k = "opportunity"
    BY <2>2 DEF I!Steps
  <2>3. CASE k = "post"
    BY <2>3 DEF I!Steps
  <2>4. CASE k = "result"
    BY <2>4 DEF I!Steps
  <2>5. CASE k \notin {"creator", "opportunity", "post", "result"}
    <3>1. I!Steps(k) = <<"answer">>
      BY <2>5 DEF I!Steps
    <3> QED
      BY <3>1
  <2> QED
    BY <2>1, <2>2, <2>3, <2>4, <2>5
<1> QED
  BY <1>1, <1>2

LEMMA NextStep ==
    ASSUME NEW k, NEW s \in I!StepsOf(k), s # I!Steps(k)[Len(I!Steps(k))]
    PROVE  I!Following(k, s) \in I!StepsOf(k)
<1> DEFINE steps == I!Steps(k)
<1>1. Len(steps) \in Nat /\ DOMAIN steps = 1 .. Len(steps)
  BY StepsAreNumbered
<1> HIDE DEF steps
<1>2. PICK j \in DOMAIN steps : steps[j] = s
  BY DEF I!StepsOf, steps
<1> DEFINE i == CHOOSE n \in DOMAIN steps : steps[n] = s
<1>3. i \in DOMAIN steps /\ steps[i] = s
  BY <1>2
<1>4. i # Len(steps)
  BY <1>3 DEF steps
<1>5. i + 1 \in DOMAIN steps
  BY <1>1, <1>3, <1>4
<1>6. I!Following(k, s) = steps[i + 1]
  BY DEF I!Following, steps
<1> QED
  BY <1>5, <1>6 DEF I!StepsOf, steps

LEMMA ButtonsGoOn ==
    ASSUME NEW k \in {"creator", "opportunity", "post"},
           NEW s \in I!StepsOf(k) \cap I!Buttons
    PROVE  s # I!Steps(k)[Len(I!Steps(k))] /\ k \notin I!Volatile
BY DEF I!StepsOf, I!Steps, I!Buttons, I!Volatile

LEMMA EntryFields ==
    ASSUME Inputs, NEW e \in I!Entry
    PROVE  /\ e # NoEntry /\ e.prompt \in 1 .. MaxPrompts /\ e.prompt \in I!Prompts
           /\ e.given \subseteq I!AllSteps
BY DEF Inputs, I!Entry, I!Prompts

\* A step without a text in hand that moves entries on or forgets them.
LEMMA FewerEntriesKeep ==
    ASSUME Inputs, TextIInv, text = I!NoText, UNCHANGED <<asked, text, saved>>,
           pending' \in [Kinds -> I!Entry \cup {NoEntry}],
           \A k \in Kinds : pending'[k] # NoEntry =>
               /\ pending[k] # NoEntry /\ pending'[k].prompt = pending[k].prompt
               /\ pending'[k].step \in I!StepsOf(k) \cup {"edit_niche"},
           latest' \in {0, latest},
           \/ UNCHANGED rendered
           \/ rendered' = 0 /\ \A k \in Kinds \cap I!Volatile : pending'[k] = NoEntry
    PROVE  TextIInv'
<1>1. InputTyped'
  BY DEF TextIInv, InputTyped, I!NoText
<1>2. OneBearer'
  BY DEF TextIInv, OneBearer, I!NoText
<1>3. ReturnsToLatest'
  BY DEF ReturnsToLatest
<1>4. I!VolatileIsLatest'
  BY DEF TextIInv, I!VolatileIsLatest
<1>5. I!IntakeKnowsItsSubject'
  BY DEF TextIInv, I!IntakeKnowsItsSubject
<1> QED
  BY <1>1, <1>2, <1>3, <1>4, <1>5 DEF TextIInv

\* A prompt with an entry of its own.
LEMMA AskKeeps ==
    ASSUME Inputs, TextIInv, NEW k \in Kinds,
           NEW s \in I!StepsOf(k) \cup {"edit_niche"},
           NEW given \in SUBSET I!AllSteps,
           I!Ask(k, s, given), UNCHANGED <<text, saved>>
    PROVE  TextIInv'
<1> DEFINE n == Len(asked) + 1
           new == [prompt |-> n, step |-> s, given |-> given]
<1>1. /\ text = I!NoText /\ Len(asked) < MaxPrompts /\ Len(asked) \in Nat
      /\ asked \in Seq(Kinds)
  BY DEF I!Ask, TextIInv, InputTyped
<1>2. /\ asked' = Append(asked, k) /\ Len(asked') = n /\ rendered' = n
      /\ latest' \in {n, 0, latest}
      /\ asked' \in Seq(Kinds)
  BY <1>1 DEF I!Ask, I!Shown
<1>3. pending' = [I!Forgotten EXCEPT ![k] = new]
  BY <1>2 DEF I!Ask
<1>4. n \in I!Prompts /\ n <= MaxPrompts /\ n \in Nat
  BY <1>1 DEF I!Prompts, Inputs
<1>5. new \in I!Entry /\ new.prompt = n /\ new.step = s
  <2>1. s \in I!AllSteps \cup {"edit_niche"}
    BY DEF I!AllSteps
  <2> QED
    BY <1>4, <2>1 DEF I!Entry
<1>6. I!Forgotten \in [Kinds -> I!Entry \cup {NoEntry}]
  BY DEF I!Forgotten, TextIInv, InputTyped
<1> HIDE DEF new, n
<1>7. pending' \in [Kinds -> I!Entry \cup {NoEntry}] /\ pending'[k] = new
      /\ \A j \in Kinds \ {k} : pending'[j] = I!Forgotten[j]
  BY <1>3, <1>5, <1>6
<1>8. \A j \in Kinds \ {k} :
         pending'[j] # NoEntry => pending'[j] = pending[j] /\ j \notin I!Volatile
  BY <1>7 DEF I!Forgotten
<1>9. \A j \in Kinds : pending[j] # NoEntry =>
         pending[j].prompt \in Nat /\ pending[j].prompt < n
  <2> SUFFICES ASSUME NEW j \in Kinds, pending[j] # NoEntry
               PROVE  pending[j].prompt \in Nat /\ pending[j].prompt < n
    OBVIOUS
  <2>1. pending[j] \in I!Entry /\ pending[j].prompt <= Len(asked)
    BY DEF TextIInv, InputTyped, OneBearer
  <2>2. pending[j].prompt \in 1 .. MaxPrompts
    BY <2>1, EntryFields
  <2> QED
    BY <1>1, <2>1, <2>2 DEF n, Inputs
<1>10. InputTyped'
  <2>1. \A j \in Kinds : pending'[j] # NoEntry =>
           pending'[j].step \in I!StepsOf(j) \cup {"edit_niche"}
    BY <1>5, <1>7, <1>8 DEF TextIInv, InputTyped
  <2>2. /\ rendered' \in 0 .. Len(asked') /\ latest' \in 0 .. Len(asked')
        /\ Len(asked') <= MaxPrompts
    BY <1>1, <1>2, <1>4 DEF n, TextIInv, InputTyped
  <2> QED
    BY <1>1, <1>2, <1>7, <2>1, <2>2 DEF TextIInv, InputTyped, I!NoText
<1>11. OneBearer'
  <2>1. saved' = saved /\ saved[n] = 0 /\ text' = I!NoText
    BY <1>1, <1>4 DEF TextIInv, OneBearer, n
  <2>2. \A j \in Kinds : pending'[j] # NoEntry =>
           pending'[j].prompt <= n /\ saved[pending'[j].prompt] = 0
    BY <1>4, <1>5, <1>7, <1>8, <1>9, <2>1 DEF TextIInv, OneBearer
  <2>3. \A i, j \in Kinds :
           /\ pending'[i] # NoEntry /\ pending'[j] # NoEntry
           /\ pending'[i].prompt = pending'[j].prompt
           => i = j
    <3> SUFFICES ASSUME NEW i \in Kinds, NEW j \in Kinds,
                        pending'[i] # NoEntry, pending'[j] # NoEntry,
                        pending'[i].prompt = pending'[j].prompt, i # j
                 PROVE  FALSE
      OBVIOUS
    <3>1. CASE i = k
      BY <1>4, <1>5, <1>7, <1>8, <1>9, <3>1
    <3>2. CASE j = k
      BY <1>4, <1>5, <1>7, <1>8, <1>9, <3>2
    <3>3. CASE i # k /\ j # k
      BY <1>8, <3>3 DEF TextIInv, OneBearer
    <3> QED
      BY <3>1, <3>2, <3>3
  <2>4. \A p \in I!Prompts : p > n => p > Len(asked)
    BY <1>1 DEF n, I!Prompts
  <2> QED
    BY <1>2, <2>1, <2>2, <2>3, <2>4 DEF TextIInv, OneBearer
<1>12. ReturnsToLatest'
  BY <1>1 DEF ReturnsToLatest
<1>13. I!VolatileIsLatest'
  <2>1. text' = I!NoText
    BY <1>1
  <2>2. \A j \in Kinds \cap I!Volatile : pending'[j] # NoEntry => pending'[j].prompt = rendered'
    BY <1>2, <1>5, <1>7, <1>8
  <2> QED
    BY <2>1, <2>2 DEF I!VolatileIsLatest
<1>14. I!IntakeKnowsItsSubject'
  BY DEF TextIInv, I!IntakeKnowsItsSubject
<1> QED
  BY <1>10, <1>11, <1>12, <1>13, <1>14 DEF TextIInv

LEMMA KnownSteps ==
    ASSUME NEW k \in Kinds, NEW s \in I!StepsOf(k)
    PROVE  s \in I!AllSteps
BY DEF I!AllSteps

LEMMA OpenPageKeeps ==
    ASSUME Inputs, TextIInv, I!OpenPage
    PROVE  TextIInv'
<1>1. PICK k \in Kinds : \/ I!Ask(k, I!Steps(k)[1], {})
                         \/ k = "creator" /\ I!Ask(k, "edit_niche", {})
  BY DEF I!OpenPage
<1>2. UNCHANGED <<text, saved>>
  BY DEF I!OpenPage
<1>3. I!Steps(k)[1] \in I!StepsOf(k)
  BY FirstStep
<1> QED
  BY <1>1, <1>2, <1>3, AskKeeps

LEMMA ButtonKeeps ==
    ASSUME Inputs, TextIInv, NEW k \in Kinds, NEW s, I!Button(k, s)
    PROVE  TextIInv'
<1>1. /\ k \in {"creator", "opportunity", "post"} /\ s \in I!StepsOf(k) \cap I!Buttons
      /\ UNCHANGED <<text, saved>>
  BY DEF I!Button
<1>2. s # I!Steps(k)[Len(I!Steps(k))] /\ k \notin I!Volatile
  BY <1>1, ButtonsGoOn
<1>3. I!Following(k, s) \in I!StepsOf(k)
  BY <1>1, <1>2, NextStep
<1>4. s \in I!AllSteps
  BY <1>1, KnownSteps
<1>5. CASE pending[k] = NoEntry
  BY <1>1, <1>3, <1>4, <1>5, AskKeeps DEF I!Button
<1>6. CASE pending[k] # NoEntry
  <2> DEFINE given == (IF s = I!Steps(k)[1] THEN {} ELSE pending[k].given) \cup {s}
             next == I!Following(k, s)
             moved == [pending[k] EXCEPT !.step = next, !.given = given]
  <2>1. /\ text = I!NoText /\ rendered' = 0 /\ latest' \in {0, latest}
        /\ UNCHANGED asked
        /\ pending' = [I!Forgotten EXCEPT
               ![k].step = I!Following(k, s),
               ![k].given = (IF s = I!Steps(k)[1] THEN {} ELSE @) \cup {s}]
    BY <1>6 DEF I!Button, I!Shown
  <2>2. /\ I!Forgotten \in [Kinds -> I!Entry \cup {NoEntry}]
        /\ I!Forgotten[k] = pending[k]
        /\ \A j \in Kinds : I!Forgotten[j] # NoEntry =>
               I!Forgotten[j] = pending[j] /\ j \notin I!Volatile
    BY <1>2 DEF I!Forgotten, TextIInv, InputTyped
  <2>3. pending' = [I!Forgotten EXCEPT ![k] = moved]
    BY <2>1, <2>2
  <2>4. pending[k] \in I!Entry
    BY <1>6 DEF TextIInv, InputTyped
  <2>5. given \in SUBSET I!AllSteps
    BY <1>4, <2>4, EntryFields
  <2>5a. moved = [pending[k] EXCEPT !.step = next, !.given = given]
    OBVIOUS
  <2> HIDE DEF given, next, moved
  <2>6. moved \in I!Entry /\ moved.prompt = pending[k].prompt
        /\ moved.step \in I!StepsOf(k)
    <3>1. next \in I!StepsOf(k)
      BY <1>3 DEF next
    <3> QED
      BY <2>4, <2>5, <2>5a, <3>1, KnownSteps DEF I!Entry
  <2>7. pending' \in [Kinds -> I!Entry \cup {NoEntry}] /\ pending'[k] = moved
        /\ \A j \in Kinds \ {k} : pending'[j] = I!Forgotten[j]
    BY <2>2, <2>3, <2>6
  <2>8. \A j \in Kinds : pending'[j] # NoEntry =>
           /\ pending[j] # NoEntry /\ pending'[j].prompt = pending[j].prompt
           /\ pending'[j].step \in I!StepsOf(j) \cup {"edit_niche"}
    BY <1>6, <2>2, <2>6, <2>7 DEF TextIInv, InputTyped
  <2>9. \A j \in Kinds \cap I!Volatile : pending'[j] = NoEntry
    BY <1>2, <2>2, <2>7
  <2> QED
    BY <1>1, <2>1, <2>7, <2>8, <2>9, FewerEntriesKeep
<1> QED
  BY <1>5, <1>6

LEMMA PlainPageKeeps ==
    ASSUME Inputs, TextIInv, I!PlainPage
    PROVE  TextIInv'
<1>1. /\ text = I!NoText /\ pending' = I!Forgotten /\ rendered' = 0
      /\ latest' \in {0, latest}
      /\ UNCHANGED <<asked, text, saved>>
  BY DEF I!PlainPage, I!Shown
<1>2. /\ pending' \in [Kinds -> I!Entry \cup {NoEntry}]
      /\ \A j \in Kinds : pending'[j] # NoEntry => pending'[j] = pending[j]
      /\ \A j \in Kinds \cap I!Volatile : pending'[j] = NoEntry
  BY <1>1 DEF I!Forgotten, TextIInv, InputTyped
<1>3. \A j \in Kinds : pending'[j] # NoEntry =>
         /\ pending[j] # NoEntry /\ pending'[j].prompt = pending[j].prompt
         /\ pending'[j].step \in I!StepsOf(j) \cup {"edit_niche"}
  BY <1>2 DEF TextIInv, InputTyped
<1> QED
  BY <1>1, <1>2, <1>3, FewerEntriesKeep

\* A screen that forgets nothing.
LEMMA OtherScreenKeeps ==
    ASSUME Inputs, TextIInv, I!OtherScreen
    PROVE  TextIInv'
<1>1. \A j \in Kinds : pending[j] # NoEntry => pending[j].step \in I!StepsOf(j) \cup {"edit_niche"}
  BY DEF TextIInv, InputTyped
<1>2. pending \in [Kinds -> I!Entry \cup {NoEntry}]
  BY DEF TextIInv, InputTyped
<1> QED
  BY <1>1, <1>2, FewerEntriesKeep DEF I!OtherScreen

\* A step of an intake before the last.
LEMMA AdvanceKeeps ==
    ASSUME Inputs, TextIInv, NEW k \in Kinds, I!Advance(k)
    PROVE  TextIInv'
<1> DEFINE s == I!Following(k, pending[k].step)
           given == pending[k].given \cup {pending[k].step}
           moved == [pending[k] EXCEPT !.step = s, !.given = given]
<1>1. /\ text = I!NoText /\ pending[k] # NoEntry /\ UNCHANGED <<asked, rendered, latest, text, saved>>
      /\ ~I!Final(k, pending[k].step)
      /\ pending' = [pending EXCEPT ![k].step = I!Following(k, @),
                                    ![k].given = @ \cup {pending[k].step}]
  BY DEF I!Advance, I!Routed, I!TakesText
<1>2. pending \in [Kinds -> I!Entry \cup {NoEntry}] /\ pending[k] \in I!Entry
  BY <1>1 DEF TextIInv, InputTyped
<1>3. pending' = [pending EXCEPT ![k] = moved]
  BY <1>1, <1>2
<1>4. pending[k].step \in I!StepsOf(k)
      /\ pending[k].step # I!Steps(k)[Len(I!Steps(k))]
  BY <1>1 DEF I!Final, TextIInv, InputTyped
<1>5. s \in I!StepsOf(k)
  BY <1>4, NextStep
<1>6. given \in SUBSET I!AllSteps
  BY <1>2, <1>4, EntryFields, KnownSteps
<1>6a. moved = [pending[k] EXCEPT !.step = s, !.given = given]
  OBVIOUS
<1> HIDE DEF given, s, moved
<1>7. moved \in I!Entry /\ moved.prompt = pending[k].prompt /\ moved.step \in I!StepsOf(k)
  BY <1>2, <1>5, <1>6, <1>6a, KnownSteps DEF I!Entry
<1>8. pending' \in [Kinds -> I!Entry \cup {NoEntry}] /\ pending'[k] = moved
      /\ \A j \in Kinds \ {k} : pending'[j] = pending[j]
  BY <1>2, <1>3, <1>7
<1>9. \A j \in Kinds : pending'[j] # NoEntry =>
         /\ pending[j] # NoEntry /\ pending'[j].prompt = pending[j].prompt
         /\ pending'[j].step \in I!StepsOf(j) \cup {"edit_niche"}
  BY <1>1, <1>7, <1>8 DEF TextIInv, InputTyped
<1> QED
  BY <1>1, <1>8, <1>9, FewerEntriesKeep

\* The text is refused, or what it speaks of is gone.
LEMMA EntryGoneKeeps ==
    ASSUME Inputs, TextIInv, NEW k \in Kinds, text = I!NoText,
           pending' = [pending EXCEPT ![k] = NoEntry],
           UNCHANGED <<asked, rendered, latest, text, saved>>
    PROVE  TextIInv'
<1>1. pending' \in [Kinds -> I!Entry \cup {NoEntry}] /\ pending'[k] = NoEntry
      /\ \A j \in Kinds \ {k} : pending'[j] = pending[j]
  BY DEF TextIInv, InputTyped
<1>2. \A j \in Kinds : pending'[j] # NoEntry =>
         /\ pending[j] # NoEntry /\ pending'[j].prompt = pending[j].prompt
         /\ pending'[j].step \in I!StepsOf(j) \cup {"edit_niche"}
  BY <1>1 DEF TextIInv, InputTyped
<1> QED
  BY <1>1, <1>2, FewerEntriesKeep

\* The entry of the text becomes the text in hand.
LEMMA TakenKeeps ==
    ASSUME Inputs, TextIInv, NEW k \in Kinds, I!Routed(k),
           NEW stage \in {"saving", "returning"}, I!Await(stage, k),
           pending' = [pending EXCEPT ![k] = NoEntry],
           UNCHANGED <<asked, rendered, latest, saved>>,
           stage = "saving" => I!Complete(k),
           stage = "returning" => k = "report"
    PROVE  TextIInv'
<1> DEFINE e == pending[k]
<1>1. text = I!NoText /\ e # NoEntry /\ e \in I!Entry
  BY DEF I!Routed, I!TakesText, TextIInv, InputTyped
<1>2. text'.stage = stage /\ text'.kind = k /\ text'.entry = e /\ text' # I!NoText
  BY DEF I!Await, I!NoText
<1>3. pending' \in [Kinds -> I!Entry \cup {NoEntry}] /\ pending'[k] = NoEntry
      /\ \A j \in Kinds \ {k} : pending'[j] = pending[j]
  BY DEF TextIInv, InputTyped
<1>4. InputTyped'
  BY <1>1, <1>2, <1>3 DEF TextIInv, InputTyped
<1>5. OneBearer'
  BY <1>1, <1>2, <1>3 DEF TextIInv, OneBearer
<1>6. ReturnsToLatest'
  BY <1>1, <1>2 DEF TextIInv, ReturnsToLatest, I!VolatileIsLatest, I!Volatile
<1>7. I!VolatileIsLatest'
  BY <1>1, <1>2, <1>3 DEF TextIInv, I!VolatileIsLatest
<1>8. I!IntakeKnowsItsSubject'
  <2>1. CASE stage = "returning"
    BY <1>2, <2>1 DEF I!IntakeKnowsItsSubject
  <2>2. CASE stage = "saving"
    <3>1. k = "creator" /\ e.step = "notes" => "platform" \in e.given
      BY <2>2 DEF I!Complete
    <3>2. k = "post" => "model" \in e.given
      BY <2>2 DEF I!Complete
    <3> QED
      BY <1>2, <3>1, <3>2 DEF I!IntakeKnowsItsSubject
  <2> QED
    BY <2>1, <2>2
<1> QED
  BY <1>4, <1>5, <1>6, <1>7, <1>8 DEF TextIInv

\* The text in hand is done with.
LEMMA TextOverKeeps ==
    ASSUME Inputs, TextIInv, I!ReturnReport \/ I!Save \/ I!Lose \/ I!Restart
    PROVE  TextIInv'
<1>1. text' = I!NoText /\ UNCHANGED asked
  BY DEF I!ReturnReport, I!Save, I!Lose, I!Restart
<1>2. ReturnsToLatest'
  BY <1>1 DEF ReturnsToLatest
<1>3. I!IntakeKnowsItsSubject'
  BY <1>1 DEF I!IntakeKnowsItsSubject, I!NoText
<1>4. CASE I!ReturnReport
  <2>1. /\ text.stage = "returning" /\ text # I!NoText /\ UNCHANGED <<asked, rendered, latest, saved>>
        /\ pending' = [pending EXCEPT !["report"] = text.entry]
    BY <1>4 DEF I!ReturnReport, I!NoText
  <2>2. text.entry \in I!Entry /\ text.entry # NoEntry /\ text.entry.prompt = rendered
        /\ text.entry.step \in I!StepsOf("report") \cup {"edit_niche"}
    BY <2>1, EntryFields DEF TextIInv, InputTyped, ReturnsToLatest
  <2>3. /\ pending' \in [Kinds -> I!Entry \cup {NoEntry}]
        /\ \A j \in Kinds : pending'[j] = IF j = "report" THEN text.entry ELSE pending[j]
    BY <2>1, <2>2 DEF TextIInv, InputTyped
  <2>4. InputTyped'
    BY <1>1, <2>1, <2>2, <2>3 DEF TextIInv, InputTyped
  <2>5. OneBearer'
    BY <1>1, <2>1, <2>2, <2>3 DEF TextIInv, OneBearer
  <2>6. I!VolatileIsLatest'
    BY <1>1, <2>1, <2>2, <2>3 DEF TextIInv, I!VolatileIsLatest
  <2> QED
    BY <1>2, <1>3, <2>4, <2>5, <2>6 DEF TextIInv
<1>5. CASE I!Save
  <2>1. /\ text # I!NoText /\ UNCHANGED <<pending, asked, rendered, latest>>
        /\ saved' = [saved EXCEPT ![text.entry.prompt] = @ + 1]
    BY <1>5 DEF I!Save, I!NoText
  <2>2. text.entry.prompt \in I!Prompts /\ text.entry.prompt <= Len(asked)
        /\ saved[text.entry.prompt] = 0 /\ saved \in [I!Prompts -> Nat]
    BY <2>1, EntryFields DEF TextIInv, InputTyped, OneBearer
  <2>3. /\ saved' \in [I!Prompts -> Nat] /\ saved'[text.entry.prompt] = 1
        /\ \A p \in I!Prompts \ {text.entry.prompt} : saved'[p] = saved[p]
    BY <2>1, <2>2
  <2>4. \A k \in Kinds : pending[k] # NoEntry =>
           pending[k].prompt \in I!Prompts /\ pending[k].prompt # text.entry.prompt
    BY <2>1, EntryFields DEF TextIInv, InputTyped, OneBearer
  <2>5. InputTyped'
    BY <1>1, <2>1, <2>3 DEF TextIInv, InputTyped
  <2>6. OneBearer'
    <3>1. \A k \in Kinds : pending[k] # NoEntry =>
             pending[k].prompt <= Len(asked) /\ saved'[pending[k].prompt] = 0
      BY <2>3, <2>4 DEF TextIInv, OneBearer
    <3>2. \A p \in I!Prompts : saved'[p] <= 1 /\ (p > Len(asked) => saved'[p] = 0)
      <4> SUFFICES ASSUME NEW p \in I!Prompts
                   PROVE  saved'[p] <= 1 /\ (p > Len(asked) => saved'[p] = 0)
        OBVIOUS
      <4>1. CASE p = text.entry.prompt
        <5>1. ~(p > Len(asked))
          BY <2>2, <4>1 DEF I!Prompts, TextIInv, InputTyped
        <5> QED
          BY <2>3, <4>1, <5>1
      <4>2. CASE p # text.entry.prompt
        BY <2>3, <4>2 DEF TextIInv, OneBearer
      <4> QED
        BY <4>1, <4>2
    <3> QED
      BY <1>1, <2>1, <3>1, <3>2 DEF TextIInv, OneBearer
  <2>7. I!VolatileIsLatest'
    BY <1>1, <2>1 DEF TextIInv, I!VolatileIsLatest
  <2> QED
    BY <1>2, <1>3, <2>5, <2>6, <2>7 DEF TextIInv
<1>6. CASE I!Lose
  <2>1. UNCHANGED <<pending, asked, rendered, latest, saved>>
    BY <1>6 DEF I!Lose
  <2>2. InputTyped' /\ OneBearer' /\ I!VolatileIsLatest'
    BY <1>1, <2>1 DEF TextIInv, InputTyped, OneBearer, I!VolatileIsLatest
  <2> QED
    BY <1>2, <1>3, <2>2 DEF TextIInv
<1>7. CASE I!Restart
  <2>1. /\ pending' = [k \in Kinds |-> NoEntry] /\ rendered' = 0 /\ UNCHANGED <<asked, latest, saved>>
    BY <1>7 DEF I!Restart
  <2>2. \A k \in Kinds : pending'[k] = NoEntry
    BY <2>1
  <2>3. InputTyped'
    BY <1>1, <2>1, <2>2 DEF TextIInv, InputTyped
  <2>4. OneBearer' /\ I!VolatileIsLatest'
    BY <1>1, <2>1, <2>2 DEF TextIInv, OneBearer, I!VolatileIsLatest
  <2> QED
    BY <1>2, <1>3, <2>3, <2>4 DEF TextIInv
<1> QED
  BY <1>4, <1>5, <1>6, <1>7

LEMMA TextStepKeeps ==
    ASSUME Inputs, TextIInv, [I!Next]_input
    PROVE  TextIInv'
<1>1. CASE I!OpenPage
  BY <1>1, OpenPageKeeps
<1>2. CASE \E k \in Kinds, s \in I!Buttons : I!Button(k, s)
  BY <1>2, ButtonKeeps
<1>3. CASE I!PlainPage
  BY <1>3, PlainPageKeeps
<1>3a. CASE I!OtherScreen
  BY <1>3a, OtherScreenKeeps
<1>4. ASSUME NEW k \in Kinds, I!Answer(k)
      PROVE  TextIInv'
  BY <1>4, TakenKeeps DEF I!Answer
<1>5. CASE \E k \in Kinds : I!Advance(k)
  BY <1>5, AdvanceKeeps
<1>6. ASSUME NEW k \in Kinds, I!Decline(k)
      PROVE  TextIInv'
  <2>1. CASE k = "report"
    BY <1>6, <2>1, TakenKeeps DEF I!Decline
  <2>2. CASE k # "report"
    BY <1>6, <2>2, EntryGoneKeeps DEF I!Decline, I!Routed
  <2> QED
    BY <2>1, <2>2
<1>7. ASSUME NEW k \in Kinds, I!Drop(k)
      PROVE  TextIInv'
  BY <1>7, EntryGoneKeeps DEF I!Drop, I!Routed
<1>8. CASE I!ReturnReport \/ I!Save \/ I!Lose \/ I!Restart
  BY <1>8, TextOverKeeps
<1>9. CASE UNCHANGED input
  BY <1>9 DEF input, TextIInv, InputTyped, OneBearer, ReturnsToLatest,
              I!VolatileIsLatest, I!IntakeKnowsItsSubject
<1> QED
  BY <1>1, <1>2, <1>3, <1>3a, <1>4, <1>5, <1>6, <1>7, <1>8, <1>9 DEF I!Next

\* The services do not touch each other's tables.
LEMMA TextInvariance ==
    ASSUME Inputs
    PROVE  Spec => []TextIInv
<1>1. Init => TextIInv
  BY TextInitIInv DEF Init
<1>2. TextIInv /\ [Next]_vars => TextIInv'
  <2>1. [Next]_vars => [I!Next]_input
    BY DEF Next, vars, input
  <2> QED
    BY <2>1, TextStepKeeps
<1> QED
  BY <1>1, <1>2, PTL DEF Spec

\* Answers meet the prompt they were given to.
THEOREM TextsAnswer ==
    ASSUME Inputs
    PROVE  Spec => []AnswersMeetTheirPrompt
<1>1. TextIInv => AnswersMeetTheirPrompt
  BY DEF TextIInv, OneBearer, AnswersMeetTheirPrompt, I!AnswersMeetTheirPrompt, I!OncePerPrompt
<1> QED
  BY <1>1, TextInvariance, PTL

\* Dictionaries, prompts and the text in hand keep their types.
THEOREM TextTypeCorrect ==
    ASSUME Inputs
    PROVE  Spec => []I!TypeOK
<1>1. ASSUME TextIInv
      PROVE  I!TypeOK
  <2>1. text.stage \in {"none", "returning", "saving"}
    BY <1>1 DEF TextIInv, InputTyped, I!NoText
  <2> QED
    BY <1>1, <2>1 DEF TextIInv, InputTyped, I!TypeOK
<1> QED
  BY <1>1, TextInvariance, PTL

-----------------------------------------------------------------------------
(* Autopilot workflows.                                                    *)

\* What the constants stand for: the workflow types the service knows.
Autopilots ==
    /\ Types \subseteq {"account", "model", "opportunity", "creator", "readiness", "daily"}
    /\ MaxFlows \in Nat

Flow == [actions : W!Findings(type), status : W!OpenStatuses \cup {"failed", "completed"}]

\* The actions of a workflow are those of its type, and only the newest
\* workflow is open.
FlowIInv ==
    /\ type \in Types
    /\ flows \in Seq(Flow) /\ Len(flows) <= MaxFlows
    /\ followed \in BOOLEAN
    /\ W!OneOpenFlow

\* What was found may be written over what was found before.
LEMMA WrittenTyped ==
    ASSUME Autopilots, NEW t \in Types, NEW old \in W!Findings(t), NEW new \in W!Findings(t)
    PROVE  /\ W!Written(old, new) \in W!Findings(t)
           /\ \A c \in DOMAIN old :
                c \in DOMAIN new /\ (old[c] = "completed" => W!Written(old, new)[c] = "completed")
<1>1. CASE t = "account"
  BY <1>1 DEF W!Findings, W!Written, W!AccountFindings
<1>2. CASE t = "model"
  BY <1>2 DEF W!Findings, W!Written, W!ModelFindings
<1>3. CASE t = "opportunity"
  BY <1>3 DEF W!Findings, W!Written, W!OpportunityFindings
<1>4. CASE t = "creator"
  BY <1>4 DEF W!Findings, W!Written, W!CreatorFindings
<1>5. CASE t = "readiness"
  BY <1>5 DEF W!Findings, W!Written, W!ReadinessFindings
<1>6. CASE t = "daily"
  BY <1>6 DEF W!Findings, W!Written, W!DailyFindings
<1> QED
  BY <1>1, <1>2, <1>3, <1>4, <1>5, <1>6 DEF Autopilots

\* The workflow a run writes: a new one when none is open, else the open one,
\* which is the newest.
LEMMA CurrentFlow ==
    ASSUME FlowIInv
    PROVE  /\ Len(flows) \in Nat
           /\ \A j \in DOMAIN flows : j # W!Current => flows[j].status \notin W!OpenStatuses
           /\ \/ W!Current = Len(flows) + 1
              \/ /\ W!Current = Len(flows) /\ W!Current \in DOMAIN flows
                 /\ flows[W!Current].status \in W!OpenStatuses
<1>1. Len(flows) \in Nat /\ DOMAIN flows = 1 .. Len(flows)
  BY DEF FlowIInv
<1>2. CASE W!Open = {}
  BY <1>1, <1>2 DEF W!Current, W!Open
<1>3. CASE W!Open # {}
  <2>1. W!Open = {Len(flows)} /\ Len(flows) \in DOMAIN flows
    BY <1>3 DEF W!Open, FlowIInv, W!OneOpenFlow
  <2>2. W!Current = Len(flows)
    <3>1. \E i \in W!Open : \A j \in W!Open : j <= i
      BY <1>1, <2>1
    <3>2. W!Current \in W!Open
      BY <1>3, <3>1 DEF W!Current
    <3> QED
      BY <2>1, <3>2
  <2> QED
    BY <1>1, <2>1, <2>2 DEF W!Open
<1> QED
  BY <1>2, <1>3

LEMMA RunKeeps ==
    ASSUME Autopilots, FlowIInv, W!Run
    PROVE  /\ FlowIInv'
           /\ \A i \in DOMAIN flows :
                /\ flows[i].status \notin W!OpenStatuses => flows'[i] = flows[i]
                /\ \A c \in DOMAIN flows[i].actions :
                     flows[i].actions[c] = "completed" => flows'[i].actions[c] = "completed"
<1> DEFINE i == W!Current
<1>1. PICK new \in W!Findings(type) :
        LET actions == IF i > Len(flows) THEN new ELSE W!Written(flows[i].actions, new)
            flow == [actions |-> actions, status |-> W!Summary(actions)]
        IN
        /\ i <= MaxFlows
        /\ flows' = IF i > Len(flows) THEN Append(flows, flow) ELSE [flows EXCEPT ![i] = flow]
        /\ followed' = (followed \/ W!FollowUpWanted(type, new))
        /\ UNCHANGED type
  BY DEF W!Run
<1> DEFINE actions == IF i > Len(flows) THEN new ELSE W!Written(flows[i].actions, new)
           flow == [actions |-> actions, status |-> W!Summary(actions)]
<1>2. /\ Len(flows) \in Nat /\ DOMAIN flows = 1 .. Len(flows) /\ flows \in Seq(Flow)
      /\ type \in Types /\ followed \in BOOLEAN
      /\ \A j \in DOMAIN flows : flows[j] \in Flow
  BY DEF FlowIInv
<1>3. actions \in W!Findings(type)
  <2>1. CASE i > Len(flows)
    BY <2>1
  <2>2. CASE ~(i > Len(flows))
    <3>1. i \in DOMAIN flows
      BY <1>2, <2>2, CurrentFlow
    <3>2. flows[i].actions \in W!Findings(type)
      BY <1>2, <3>1 DEF Flow
    <3> QED
      BY <1>2, <2>2, <3>2, WrittenTyped
  <2> QED
    BY <2>1, <2>2
<1>4. W!Summary(actions) \in W!OpenStatuses \cup {"failed", "completed"}
  BY DEF W!Summary, W!OpenStatuses
<1>5. flow \in Flow /\ flow.actions = actions
  BY <1>3, <1>4 DEF Flow
<1>6. flows' = IF i > Len(flows) THEN Append(flows, flow) ELSE [flows EXCEPT ![i] = flow]
  BY <1>1
<1>7. UNCHANGED type /\ Flow' = Flow /\ followed' \in BOOLEAN /\ i <= MaxFlows
  <2>1. W!FollowUpWanted(type, new) \in BOOLEAN
    BY <1>2 DEF W!FollowUpWanted, Autopilots
  <2> QED
    BY <1>1, <1>2, <2>1 DEF Flow, W!Findings
<1> HIDE DEF flow
<1>8. CASE i > Len(flows)
  <2>1. i = Len(flows) + 1
    BY <1>2, <1>8, CurrentFlow
  <2>2. /\ flows' \in Seq(Flow) /\ Len(flows') = i /\ flows'[i] = flow
        /\ \A j \in DOMAIN flows : flows'[j] = flows[j]
        /\ \A j \in DOMAIN flows' : j = i \/ j \in DOMAIN flows
    BY <1>2, <1>5, <1>6, <1>8, <2>1
  <2>3. W!OneOpenFlow'
    BY <1>2, <2>1, <2>2, CurrentFlow DEF W!OneOpenFlow
  <2> QED
    BY <1>2, <1>7, <2>1, <2>2, <2>3 DEF FlowIInv
<1>9. CASE ~(i > Len(flows))
  <2>1. i = Len(flows) /\ i \in DOMAIN flows /\ flows[i].status \in W!OpenStatuses
    BY <1>2, <1>9, CurrentFlow
  <2>2. /\ flows' \in Seq(Flow) /\ Len(flows') = Len(flows) /\ flows'[i] = flow
        /\ DOMAIN flows' = DOMAIN flows
        /\ \A j \in DOMAIN flows \ {i} : flows'[j] = flows[j]
    BY <1>2, <1>5, <1>6, <1>9, <2>1
  <2>3. W!OneOpenFlow'
    BY <1>2, <2>1, <2>2, CurrentFlow DEF W!OneOpenFlow
  <2>4. \A c \in DOMAIN flows[i].actions :
           flows[i].actions[c] = "completed" => flows'[i].actions[c] = "completed"
    <3>1. flows[i].actions \in W!Findings(type) /\ new \in W!Findings(type)
      BY <1>2, <2>1 DEF Flow
    <3>2. flows'[i].actions = W!Written(flows[i].actions, new)
      BY <1>5, <1>9, <2>2
    <3> QED
      BY <1>2, <3>1, <3>2, WrittenTyped
  <2> QED
    BY <1>2, <1>7, <2>1, <2>2, <2>3, <2>4, CurrentFlow DEF FlowIInv
<1> QED
  BY <1>8, <1>9

LEMMA FlowInvariance ==
    ASSUME Autopilots
    PROVE  Spec => []FlowIInv
<1>1. Init => FlowIInv
  <2> SUFFICES ASSUME Init
               PROVE  FlowIInv
    OBVIOUS
  <2>1. type \in Types /\ flows = <<>>
    BY DEF Init, W!Init
  <2>2. followed \in BOOLEAN
    BY DEF Init, W!Init
  <2>3. flows \in Seq(Flow) /\ Len(flows) <= MaxFlows
    BY <2>1 DEF Autopilots
  <2>4. W!OneOpenFlow
    BY <2>1 DEF W!OneOpenFlow
  <2> QED
    BY <2>1, <2>2, <2>3, <2>4 DEF FlowIInv
<1>2. FlowIInv /\ [Next]_vars => FlowIInv'
  <2> SUFFICES ASSUME FlowIInv, [Next]_vars
               PROVE  FlowIInv'
    OBVIOUS
  <2>1. CASE W!Run
    BY <2>1, RunKeeps
  <2>2. CASE UNCHANGED workflows
    BY <2>2 DEF workflows, FlowIInv, Flow, W!OneOpenFlow, W!Findings
  <2> QED
    BY <2>1, <2>2 DEF Next, vars, workflows, W!Next
<1> QED
  BY <1>1, <1>2, PTL DEF Spec

\* Repeated runs keep their workflows: one is open at most, the newest, and
\* nothing that was achieved is undone.
THEOREM WorkflowsAreKept ==
    ASSUME Autopilots
    PROVE  Spec => FlowsAreKept
<1>1. FlowIInv => W!OneOpenFlow
  BY DEF FlowIInv
<1>2. ASSUME FlowIInv, [Next]_vars
      PROVE  [\A i \in DOMAIN flows :
                /\ flows[i].status \notin W!OpenStatuses => flows'[i] = flows[i]
                /\ \A c \in DOMAIN flows[i].actions :
                     flows[i].actions[c] = "completed" => flows'[i].actions[c] = "completed"
             ]_workflows
  <2>1. CASE W!Run
    BY <1>2, <2>1, RunKeeps
  <2>2. CASE UNCHANGED workflows
    BY <2>2
  <2> QED
    BY <1>2, <2>1, <2>2 DEF Next, vars, workflows, W!Next
<1> QED
  BY <1>1, <1>2, FlowInvariance, PTL DEF Spec, FlowsAreKept, W!FlowsAreKept, W!AchievedIsKept,
              workflows, W!vars

-----------------------------------------------------------------------------
(* Proxies.                                                                *)

\* What the constants stand for: no proxy is no row.
ProxyConstants == NoProxy \notin P!ProxyRow

\* A row whose status says what its score says and that stays out of use once
\* it is archived.  Failures are tests.
GoodProxy(row) ==
    /\ row \in P!ProxyRow
    /\ row.failures + row.successes = row.tests
    /\ row.status = "healthy" => row.score >= 80
    /\ row.status = "critical" => row.score < 50
    /\ row.archived => row.status = "disabled"

ProxyIInv ==
    /\ proxy # NoProxy => GoodProxy(proxy)
    /\ carriers \subseteq Accounts /\ shelved \subseteq Accounts

\* A share of failures costs at most 45 points, whatever the number of tests.
LEMMA ScoreBounds ==
    ASSUME NEW row \in P!ProxyRow
    PROVE  P!Score(row) \in 0 .. 100
<1>1. CASE row.status = "disabled"
  BY <1>1 DEF P!Score
<1>2. CASE row.status # "disabled"
  <2> DEFINE share == IF row.tests = 0 THEN 0 ELSE (row.failures * 45) \div row.tests
             cost == 10 * (IF row.mismatches > 4 THEN 4 ELSE row.mismatches)
  <2>1. row.tests \in Nat /\ row.failures \in Nat /\ row.mismatches \in Nat /\ row.penalty \in Nat
    BY DEF P!ProxyRow, P!Penalties
  <2>2. share \in Nat
    <3>1. ASSUME row.tests # 0
          PROVE  (row.failures * 45) \div row.tests \in Nat
      <4>1. row.failures * 45 \in Nat
        BY <2>1
      <4>2. \A a \in Nat, b \in Nat \ {0} : a \div b \in Nat
        OBVIOUS
      <4> QED
        BY <2>1, <3>1, <4>1, <4>2
    <3> QED
      BY <3>1
  <2>3. cost \in Nat
    BY <2>1
  <2>4. P!Score(row) = P!AtLeast0(100 - share - row.penalty - cost)
    BY <1>2 DEF P!Score
  <2> HIDE DEF share, cost
  <2> QED
    BY <2>1, <2>2, <2>3, <2>4 DEF P!AtLeast0
<1> QED
  BY <1>1, <1>2

\* _sync_proxy_health: what it leaves alone, and that the status fits.
LEMMA SyncedGood ==
    ASSUME NEW row \in P!ProxyRow, row.failures + row.successes = row.tests,
           row.archived => row.status = "disabled"
    PROVE  /\ GoodProxy(P!Synced(row))
           /\ row.status = "disabled" => P!Synced(row).status = "disabled"
<1> DEFINE x == P!Score(row)
           status == IF row.status = "disabled" THEN "disabled" ELSE P!Class(x)
           s == [row EXCEPT !.score = x, !.status = status]
<1>1. x \in 0 .. 100
  BY ScoreBounds
<1>2. P!Synced(row) = s
  BY DEF P!Synced, P!ProxyRow
<1>3. /\ status \in {"healthy", "warning", "critical", "disabled"}
      /\ status = "healthy" => x >= 80
      /\ status = "critical" => x < 50
      /\ row.status = "disabled" => status = "disabled"
  BY <1>1 DEF P!Class
<1> HIDE DEF x, status
<1>4. s \in P!ProxyRow /\ s.status = status /\ s.score = x /\ s.failures = row.failures
      /\ s.successes = row.successes /\ s.tests = row.tests
  BY <1>1, <1>3 DEF P!ProxyRow
<1>5. s.archived <=> row.archived
  BY DEF P!ProxyRow
<1> HIDE DEF s
<1>6. GoodProxy(s)
  BY <1>3, <1>4, <1>5 DEF GoodProxy
<1> QED
  BY <1>2, <1>3, <1>4, <1>6

LEMMA TestedGood ==
    ASSUME NEW row, GoodProxy(row),
           NEW ok \in BOOLEAN, NEW located \in BOOLEAN, NEW penalty \in P!Penalties
    PROVE  /\ GoodProxy(P!Tested(row, ok, located, penalty))
           /\ row.status = "disabled" => P!Tested(row, ok, located, penalty).status = "disabled"
<1> DEFINE r == [row EXCEPT
              !.tests = @ + 1, !.history = TRUE,
              !.successes = IF ok THEN @ + 1 ELSE @,
              !.failures = IF ok THEN @ ELSE @ + 1,
              !.mismatches = IF ok /\ ~located THEN @ + 1 ELSE @,
              !.located = located, !.penalty = penalty]
<1>1. row \in P!ProxyRow /\ row.failures + row.successes = row.tests
  BY DEF GoodProxy
<1>2. P!Tested(row, ok, located, penalty) = P!Synced(r)
  BY DEF P!Tested
<1>3. r \in P!ProxyRow
  <2> DEFINE won == IF ok THEN row.successes + 1 ELSE row.successes
             lost == IF ok THEN row.failures ELSE row.failures + 1
             missed == IF ok /\ ~located THEN row.mismatches + 1 ELSE row.mismatches
  <2>1. row.tests + 1 \in Nat /\ won \in Nat /\ lost \in Nat /\ missed \in Nat
    BY <1>1 DEF P!ProxyRow
  <2>2. r = [row EXCEPT !.tests = row.tests + 1, !.history = TRUE, !.successes = won,
                        !.failures = lost, !.mismatches = missed,
                        !.located = located, !.penalty = penalty]
    BY <1>1
  <2> HIDE DEF r, won, lost, missed
  <2> QED
    BY <1>1, <2>1, <2>2 DEF P!ProxyRow
<1>4. r.failures + r.successes = r.tests /\ r.status = row.status
  BY <1>1 DEF P!ProxyRow
<1>5. r.archived => row.archived
  BY <1>1 DEF P!ProxyRow
<1>6. r.archived => r.status = "disabled"
  BY <1>4, <1>5 DEF GoodProxy
<1> HIDE DEF r
<1> QED
  BY <1>2, <1>3, <1>4, <1>6, SyncedGood

LEMMA RotatedGood ==
    ASSUME NEW row, GoodProxy(row)
    PROVE  /\ GoodProxy(P!Rotated(row))
           /\ row.status = "disabled" => P!Rotated(row).status = "disabled"
<1> DEFINE r == [row EXCEPT !.located = TRUE, !.penalty = 0, !.history = TRUE]
<1>1. row \in P!ProxyRow /\ row.failures + row.successes = row.tests
  BY DEF GoodProxy
<1>2. P!Rotated(row) = P!Synced(r)
  BY DEF P!Rotated
<1>3. r \in P!ProxyRow
  BY <1>1 DEF P!ProxyRow, P!Penalties
<1>4. r.failures + r.successes = r.tests /\ r.status = row.status
  BY <1>1 DEF P!ProxyRow
<1>5. r.archived => row.archived
  BY <1>1 DEF P!ProxyRow
<1>6. r.archived => r.status = "disabled"
  BY <1>4, <1>5 DEF GoodProxy
<1> HIDE DEF r
<1> QED
  BY <1>2, <1>3, <1>4, <1>6, SyncedGood

LEMMA SimulatedGood ==
    ASSUME NEW row, GoodProxy(row)
    PROVE  /\ GoodProxy(P!Simulated(row))
           /\ row.status = "disabled" => P!Simulated(row).status = "disabled"
<1>1. row.penalty \in P!Penalties
  BY DEF GoodProxy, P!ProxyRow
<1> QED
  BY <1>1, TestedGood DEF P!Simulated

LEMMA ArchivedGood ==
    ASSUME NEW row, GoodProxy(row)
    PROVE  GoodProxy(P!Archived(row)) /\ P!Archived(row).status = "disabled"
<1> DEFINE r == P!Archived(row)
<1>1. row \in P!ProxyRow /\ row.failures + row.successes = row.tests
  BY DEF GoodProxy
<1>2. r \in P!ProxyRow
  BY <1>1 DEF P!ProxyRow, P!Archived
<1>3. r.failures + r.successes = r.tests /\ r.status = "disabled"
  BY <1>1 DEF P!ProxyRow, P!Archived
<1> QED
  BY <1>2, <1>3 DEF GoodProxy

\* What an operation on a proxy that is there may do to it: leave it good, in
\* use only if it was, unless a reactivation takes it up.
Worked(new) ==
    /\ GoodProxy(new)
    /\ proxy.status = "disabled" /\ new.status # "disabled"
         => new.status = "warning" /\ new.tests = proxy.tests

\* A change of fields that say nothing about use.
LEMMA TouchedGood ==
    ASSUME NEW row, GoodProxy(row), NEW v \in BOOLEAN
    PROVE  /\ GoodProxy([row EXCEPT !.real = v])
           /\ GoodProxy([row EXCEPT !.history = TRUE])
           /\ GoodProxy([row EXCEPT !.target = TRUE, !.located = v])
<1>1. row \in P!ProxyRow
  BY DEF GoodProxy
<1>2. ASSUME NEW r \in P!ProxyRow, r.status = row.status, r.score = row.score,
             r.failures = row.failures, r.successes = row.successes, r.tests = row.tests,
             r.archived => row.archived
      PROVE  GoodProxy(r)
  BY <1>2 DEF GoodProxy
<1>3. GoodProxy([row EXCEPT !.real = v])
  <2> DEFINE r == [row EXCEPT !.real = v]
  <2>1. /\ r \in P!ProxyRow /\ r.status = row.status /\ r.score = row.score
        /\ r.failures = row.failures /\ r.successes = row.successes /\ r.tests = row.tests
    BY <1>1 DEF P!ProxyRow
  <2>2. r.archived => row.archived
    BY <1>1 DEF P!ProxyRow
  <2> QED
    BY <1>2, <2>1, <2>2
<1>4. GoodProxy([row EXCEPT !.history = TRUE])
  <2> DEFINE r == [row EXCEPT !.history = TRUE]
  <2>1. /\ r \in P!ProxyRow /\ r.status = row.status /\ r.score = row.score
        /\ r.failures = row.failures /\ r.successes = row.successes /\ r.tests = row.tests
    BY <1>1 DEF P!ProxyRow
  <2>2. r.archived => row.archived
    BY <1>1 DEF P!ProxyRow
  <2> QED
    BY <1>2, <2>1, <2>2
<1>5. GoodProxy([row EXCEPT !.target = TRUE, !.located = v])
  <2> DEFINE r == [row EXCEPT !.target = TRUE, !.located = v]
  <2>1. /\ r \in P!ProxyRow /\ r.status = row.status /\ r.score = row.score
        /\ r.failures = row.failures /\ r.successes = row.successes /\ r.tests = row.tests
    BY <1>1 DEF P!ProxyRow
  <2>2. r.archived => row.archived
    BY <1>1 DEF P!ProxyRow
  <2> QED
    BY <1>2, <2>1, <2>2
<1> QED
  BY <1>3, <1>4, <1>5

\* Every operation leaves the proxy good, or takes away one that no account in
\* use carries.
LEMMA ProxyStep ==
    ASSUME ProxyConstants, ProxyIInv, P!Next
    PROVE  /\ proxy # NoProxy /\ proxy' # NoProxy => Worked(proxy')
           /\ proxy = NoProxy /\ proxy' # NoProxy => GoodProxy(proxy')
           /\ proxy # NoProxy /\ proxy' = NoProxy => carriers \subseteq shelved
           /\ carriers' \subseteq Accounts /\ shelved' \subseteq Accounts
<1> DEFINE Goal ==
             /\ proxy # NoProxy /\ proxy' # NoProxy => Worked(proxy')
             /\ proxy = NoProxy /\ proxy' # NoProxy => GoodProxy(proxy')
             /\ proxy # NoProxy /\ proxy' = NoProxy => carriers \subseteq shelved
             /\ carriers' \subseteq Accounts /\ shelved' \subseteq Accounts
<1>1. /\ \A row : GoodProxy(row) => row # NoProxy
      /\ carriers \subseteq Accounts /\ shelved \subseteq Accounts
      /\ proxy # NoProxy => GoodProxy(proxy)
  BY DEF ProxyConstants, GoodProxy, ProxyIInv
<1>2. \* Operations on the row of a proxy, one lemma on rows each.
      ASSUME proxy # NoProxy, GoodProxy(proxy'),
             \/ proxy.status = "disabled" => proxy'.status = "disabled"
             \/ proxy'.status = "warning" /\ proxy'.tests = proxy.tests,
             carriers' \subseteq Accounts, shelved' \subseteq Accounts
      PROVE  Goal
  BY <1>1, <1>2 DEF Worked
<1>3. CASE P!Create
  <2>1. PICK target \in BOOLEAN, placeholder \in BOOLEAN :
          proxy' = [status |-> "healthy", score |-> 100, archived |-> FALSE,
                    placeholder |-> placeholder, real |-> FALSE, history |-> FALSE,
                    target |-> target, located |-> ~target, penalty |-> 0,
                    tests |-> 0, failures |-> 0, successes |-> 0, mismatches |-> 0]
    BY <1>3 DEF P!Create
  <2>2. proxy' \in P!ProxyRow
    BY <2>1 DEF P!ProxyRow, P!Penalties
  <2>3. /\ proxy'.status = "healthy" /\ proxy'.score = 100
        /\ proxy'.failures = 0 /\ proxy'.successes = 0 /\ proxy'.tests = 0
    BY <2>1
  <2>4. ~proxy'.archived
    BY <2>1
  <2>5. GoodProxy(proxy')
    BY <2>2, <2>3, <2>4 DEF GoodProxy
  <2> QED
    BY <1>1, <1>3, <2>5 DEF P!Create, P!Exists, P!Keep
<1>4. CASE P!SimulatedCheck
  BY <1>1, <1>2, <1>4, SimulatedGood DEF P!SimulatedCheck, P!Usable, P!Exists, P!Keep
<1>5. CASE P!RealCheck
  <2>1. /\ proxy # NoProxy /\ GoodProxy(proxy) /\ carriers' \subseteq Accounts
        /\ shelved' \subseteq Accounts
        /\ proxy.located \in BOOLEAN
    BY <1>1, <1>5 DEF P!RealCheck, P!Usable, P!Exists, P!Keep, GoodProxy, P!ProxyRow
  <2>2. CASE proxy' = [proxy EXCEPT !.history = TRUE]
    <3>1. proxy'.status = proxy.status
      BY <2>1, <2>2 DEF GoodProxy, P!ProxyRow
    <3>2. GoodProxy(proxy')
      BY <2>1, <2>2, TouchedGood
    <3> QED
      BY <1>2, <2>1, <3>1, <3>2
  <2>3. CASE proxy' = P!Tested(proxy, FALSE, proxy.located, 0)
    BY <1>2, <2>1, <2>3, TestedGood DEF P!Penalties
  <2>4. ASSUME NEW located \in BOOLEAN, NEW penalty \in P!Penalties,
               proxy' = P!Tested(proxy, TRUE, located, penalty)
        PROVE  Goal
    BY <1>2, <2>1, <2>4, TestedGood
  <2> QED
    BY <1>5, <2>2, <2>3, <2>4 DEF P!RealCheck
<1>6. CASE P!SetRealChecks
  <2>1. PICK real \in BOOLEAN : proxy' = [proxy EXCEPT !.real = real]
    BY <1>6 DEF P!SetRealChecks
  <2>2. /\ proxy # NoProxy /\ GoodProxy(proxy) /\ carriers' \subseteq Accounts
        /\ shelved' \subseteq Accounts
    BY <1>1, <1>6 DEF P!SetRealChecks, P!Usable, P!Exists, P!Keep
  <2>3. proxy'.status = proxy.status
    BY <2>1, <2>2 DEF GoodProxy, P!ProxyRow
  <2>4. GoodProxy(proxy')
    BY <2>1, <2>2, TouchedGood
  <2> QED
    BY <1>2, <2>2, <2>3, <2>4
<1>7. CASE P!Rotate
  BY <1>1, <1>2, <1>7, RotatedGood DEF P!Rotate, P!Usable, P!Exists, P!Keep
<1>8. CASE P!Repair
  <2>1. /\ proxy # NoProxy /\ GoodProxy(proxy) /\ carriers' \subseteq Accounts
        /\ shelved' \subseteq Accounts
        /\ proxy.located \in BOOLEAN
        /\ proxy' = P!Tested(P!Rotated(P!Tested(proxy, FALSE, proxy.located, 0)), TRUE, TRUE, 0)
    BY <1>1, <1>8 DEF P!Repair, P!Usable, P!Exists, P!Keep, GoodProxy, P!ProxyRow
  <2> DEFINE failed == P!Tested(proxy, FALSE, proxy.located, 0)
             rotated == P!Rotated(failed)
  <2>2. GoodProxy(failed) /\ (proxy.status = "disabled" => failed.status = "disabled")
    BY <2>1, TestedGood DEF P!Penalties
  <2> HIDE DEF failed
  <2>3. GoodProxy(rotated) /\ (failed.status = "disabled" => rotated.status = "disabled")
    BY <2>2, RotatedGood
  <2>4. proxy' = P!Tested(rotated, TRUE, TRUE, 0)
    BY <2>1 DEF failed
  <2> HIDE DEF rotated
  <2>5. GoodProxy(proxy') /\ (rotated.status = "disabled" => proxy'.status = "disabled")
    BY <2>3, <2>4, TestedGood DEF P!Penalties
  <2> QED
    BY <1>2, <2>1, <2>2, <2>3, <2>5
<1>9. CASE P!Retarget
  <2>1. PICK located \in BOOLEAN : proxy' = [proxy EXCEPT !.target = TRUE, !.located = located]
    BY <1>9 DEF P!Retarget
  <2>2. /\ proxy # NoProxy /\ GoodProxy(proxy) /\ carriers' \subseteq Accounts
        /\ shelved' \subseteq Accounts
    BY <1>1, <1>9 DEF P!Retarget, P!Exists, P!Keep
  <2>3. proxy'.status = proxy.status
    BY <2>1, <2>2 DEF GoodProxy, P!ProxyRow
  <2>4. GoodProxy(proxy')
    BY <2>1, <2>2, TouchedGood
  <2> QED
    BY <1>2, <2>2, <2>3, <2>4
<1>10. CASE P!Disable
  <2>1. /\ proxy # NoProxy /\ GoodProxy(proxy) /\ carriers' \subseteq Accounts
        /\ shelved' \subseteq Accounts /\ proxy' = [proxy EXCEPT !.status = "disabled"]
    BY <1>1, <1>10 DEF P!Disable, P!Usable, P!Exists, P!Keep
  <2>2. /\ proxy' \in P!ProxyRow /\ proxy'.status = "disabled" /\ proxy'.tests = proxy.tests
        /\ proxy'.failures = proxy.failures /\ proxy'.successes = proxy.successes
    BY <2>1 DEF GoodProxy, P!ProxyRow
  <2>3. GoodProxy(proxy')
    BY <2>1, <2>2 DEF GoodProxy
  <2> QED
    BY <1>2, <2>1, <2>2, <2>3
<1>11. CASE P!Reactivate
  <2>1. /\ proxy # NoProxy /\ GoodProxy(proxy) /\ carriers' \subseteq Accounts
        /\ shelved' \subseteq Accounts /\ proxy' = [proxy EXCEPT !.status = "warning"]
        /\ ~proxy.archived
    BY <1>1, <1>11 DEF P!Reactivate, P!Usable, P!Exists, P!Keep
  <2>2. /\ proxy' \in P!ProxyRow /\ proxy'.status = "warning" /\ proxy'.tests = proxy.tests
        /\ proxy'.failures = proxy.failures /\ proxy'.successes = proxy.successes
    BY <2>1 DEF GoodProxy, P!ProxyRow
  <2>3. ~proxy'.archived
    BY <2>1 DEF GoodProxy, P!ProxyRow
  <2>4. GoodProxy(proxy')
    BY <2>1, <2>2, <2>3 DEF GoodProxy
  <2> QED
    BY <1>2, <2>1, <2>2, <2>4
<1>12. CASE P!Archive
  BY <1>1, <1>2, <1>12, ArchivedGood DEF P!Archive, P!Exists, P!Keep
<1>13. CASE P!Delete
  BY <1>1, <1>13 DEF P!Delete, P!Deleted, P!Assigned, P!Exists
<1>14. CASE P!CleanUp
  <2>1. CASE P!Deleted /\ carriers = {}
    BY <1>1, <1>14, <2>1 DEF P!CleanUp, P!Deleted, P!Exists
  <2>2. CASE proxy' = P!Archived(proxy) /\ P!Keep
    BY <1>1, <1>2, <1>14, <2>2, ArchivedGood DEF P!CleanUp, P!Exists, P!Keep
  <2> QED
    BY <1>14, <2>1, <2>2 DEF P!CleanUp
<1>15. ASSUME NEW a \in Accounts, P!Assign(a)
       PROVE  Goal
  BY <1>1, <1>2, <1>15, SimulatedGood DEF P!Assign, P!Usable, P!Exists
<1>16. ASSUME NEW a \in Accounts, P!Remove(a) \/ P!ArchiveAccount(a)
       PROVE  Goal
  <2>1. proxy' = proxy /\ carriers' \subseteq Accounts /\ shelved' \subseteq Accounts
    BY <1>1, <1>16 DEF P!Remove, P!ArchiveAccount
  <2> QED
    BY <1>1, <1>2, <2>1
<1> QED
  BY <1>3, <1>4, <1>5, <1>6, <1>7, <1>8, <1>9, <1>10, <1>11, <1>12, <1>13, <1>14, <1>15, <1>16
     DEF P!Next

LEMMA ProxyInvariance ==
    ASSUME ProxyConstants
    PROVE  Spec => []ProxyIInv
<1>1. Init => ProxyIInv
  BY DEF Init, P!Init, ProxyIInv
<1>2. ProxyIInv /\ [Next]_vars => ProxyIInv'
  <2> SUFFICES ASSUME ProxyIInv, [Next]_vars
               PROVE  ProxyIInv'
    OBVIOUS
  <2>1. CASE P!Next
    BY <2>1, ProxyStep DEF ProxyIInv, Worked
  <2>2. CASE UNCHANGED proxies
    BY <2>2 DEF proxies, ProxyIInv, GoodProxy
  <2> QED
    BY <2>1, <2>2 DEF Next, vars, proxies
<1> QED
  BY <1>1, <1>2, PTL DEF Spec

\* A proxy is used as its page shows it, along whatever sequence of checks,
\* rotations, repairs, assignments and clean-ups, and a session gets a suffix
\* that the window has not seen (services/proxies.py).
THEOREM ProxiesAreUsedAsShown ==
    ASSUME ProxyConstants, Window \in Nat, NoSuffix \notin Suffixes
    PROVE  Spec => UseAsShown
<1>1. ProxyIInv => P!StatusFitsScore /\ P!ArchivedStaysDisabled
  BY DEF ProxyIInv, GoodProxy, P!StatusFitsScore, P!ArchivedStaysDisabled, P!Exists
<1>2. ASSUME ProxyIInv, [Next]_vars
      PROVE  /\ [P!Exists /\ P!Exists' /\ proxy.status = "disabled" /\ proxy'.status # "disabled"
                   => proxy'.status = "warning" /\ proxy'.tests = proxy.tests]_proxies
             /\ [P!Exists /\ ~P!Exists' => carriers \subseteq shelved]_proxies
  <2>1. CASE P!Next
    BY <1>2, <2>1, ProxyStep DEF P!Exists, Worked
  <2>2. CASE UNCHANGED proxies
    BY <2>2
  <2> QED
    BY <1>2, <2>1, <2>2 DEF Next, vars, proxies
<1>3. Spec => FreshRotation
  <2>1. Init => RotationInit
    BY DEF Init
  <2>2. [Next]_vars => [RotationNext]_rotationVars
    BY DEF Next, vars
  <2> QED
    BY <2>1, <2>2, RotationsAreFresh, PTL DEF Spec, RotationSpec
<1> QED
  BY <1>1, <1>2, <1>3, ProxyInvariance, PTL
     DEF Spec, UseAsShown, P!UseAsShown, P!DisabledUntilReactivated, P!NoAccountLosesProxy,
         proxies, P!vars

-----------------------------------------------------------------------------
(* The review of failing buttons.                                          *)

Recommendation == [page : Pages, status : F!RecStatuses, revalidated : 0 .. now]

\* A scan checks pages of the bot, and shows of some only the working label.
ReviewConstants ==
    MaxTime \in Nat /\ Announced # {} /\ Announced \subseteq Scanned /\ Scanned \subseteq Pages

\* A time is reached by a page that succeeded then or later.
Reached(time) == \E p \in Pages : success[p] >= time

\* No page succeeds and fails at the same moment, and no recommendation was
\* revalidated later than some success.
ReviewIInv ==
    /\ now \in 0 .. MaxTime
    /\ errors \subseteq [page : Pages, at : 1 .. now]
    /\ success \in [Pages -> 0 .. now]
    /\ recs \in Seq(Recommendation)
    /\ shown \subseteq errors
    /\ \A e \in errors, p \in Pages : success[p] # e.at
    /\ \A i \in DOMAIN recs : recs[i].revalidated = 0 \/ Reached(recs[i].revalidated)
    /\ F!OneOpenRecommendation

LEMMA NewestIs ==
    ASSUME NEW n \in Nat, NEW times \in SUBSET (0 .. n)
    PROVE  /\ F!Newest(times) \in times \cup {0}
           /\ \A x \in times : x <= F!Newest(times)
<1> DEFINE S == times \cup {0}
<1>1. \E x \in S : \A y \in S : x >= y
  <2>1. S \subseteq 0 .. n /\ S # {}
    OBVIOUS
  <2> HIDE DEF S
  <2>2. PICK x \in S : \A y \in S : y <= x
    BY <2>1, HasGreatest
  <2> QED
    BY <2>1, <2>2
<1>2. F!Newest(times) = CHOOSE x \in S : \A y \in S : x >= y
  BY DEF F!Newest, F!Max
<1>3. F!Newest(times) \in S /\ \A y \in S : F!Newest(times) >= y
  BY <1>1, <1>2
<1> QED
  BY <1>3

\* A review, of a scan at time scanned or of none, moves nothing back and
\* leaves the invariant intact: if it calls something historical, its boundary
\* was reached by some page, and there are grounds.
LEMMA ReviewKeeps ==
    ASSUME ReviewIInv, now' \in 0 .. MaxTime, now <= now', errors' = errors,
           NEW passed, NEW failing, NEW scanned \in 0 .. now', NEW kept \in BOOLEAN,
           NEW looked \in SUBSET errors,
           NEW done \in [Pages -> 0 .. now'], success' = done,
           \A p \in Pages : done[p] >= success[p],
           \A e \in errors, p \in Pages : done[p] # e.at,
           scanned # 0 => \E p \in Pages : done[p] >= scanned,
           \A p \in passed : done[p] > now,
           F!Reviewed(passed, failing, scanned, looked, done, kept)
    PROVE  ReviewIInv' /\ \A e \in shown' : F!HasGrounds(e) /\ e.page \notin failing
<1> DEFINE boundary == F!Boundary(scanned, looked, done)
           working == F!WorkingPages(passed, looked, done)
           old == {e \in looked : F!Verdict(e, working, failing, boundary) = "historical"}
           fixed == {e.page : e \in old}
           revalidated == {recs[i].revalidated : i \in F!Resolved}
           overcome == {done[e.page] : e \in F!Overcome(looked, done)}
<1>1. /\ now \in Nat /\ now' \in Nat
      /\ \A i \in DOMAIN recs : recs[i] \in Recommendation
      /\ \A e \in errors : e.page \in Pages /\ e.at \in 1 .. now
  BY DEF ReviewIInv
<1>2. /\ shown' = old
      /\ recs' = IF kept THEN F!Closed(fixed, boundary) ELSE recs
  BY DEF F!Reviewed
<1>3. revalidated \in SUBSET (0 .. now') /\ overcome \in SUBSET (0 .. now')
  BY <1>1 DEF F!Resolved, F!Overcome, Recommendation
<1>4. \A x \in revalidated \cup overcome : x = 0 \/ \E p \in Pages : done[p] >= x
  <2>1. ASSUME NEW i \in DOMAIN recs
        PROVE  recs[i].revalidated = 0 \/ \E p \in Pages : done[p] >= recs[i].revalidated
    <3>1. recs[i].revalidated = 0 \/ \E p \in Pages : success[p] >= recs[i].revalidated
      BY DEF ReviewIInv, Reached
    <3>2. recs[i].revalidated \in 0 .. now /\ success \in [Pages -> 0 .. now]
      BY <1>1 DEF ReviewIInv, Recommendation
    <3> QED
      BY <1>1, <3>1, <3>2
  <2>2. ASSUME NEW e \in errors
        PROVE  \E p \in Pages : done[p] >= done[e.page]
    BY <1>1
  <2> QED
    BY <2>1, <2>2 DEF F!Resolved, F!Overcome
<1>5. /\ boundary \in 0 .. now'
      /\ boundary = scanned \/ boundary = 0 \/ \E p \in Pages : done[p] >= boundary
  <2> DEFINE first == IF scanned # 0 THEN scanned ELSE F!Newest(revalidated)
  <2>1. boundary = F!Newest({first} \cup overcome)
    BY DEF F!Boundary
  <2> HIDE DEF boundary, revalidated, overcome
  <2>2. F!Newest(revalidated) \in revalidated \cup {0}
    BY <1>1, <1>3, NewestIs
  <2>3. first \in 0 .. now' /\ (first = scanned \/ first \in revalidated \cup {0})
    BY <1>1, <1>3, <2>2
  <2> HIDE DEF first
  <2>4. ({first} \cup overcome) \in SUBSET (0 .. now')
    BY <1>3, <2>3
  <2>5. boundary \in ({first} \cup overcome) \cup {0}
    BY <1>1, <2>1, <2>4, NewestIs
  <2> QED
    BY <1>1, <1>4, <2>3, <2>4, <2>5
<1> HIDE DEF boundary, working
<1>6. \A e \in old : /\ e \in errors /\ e.page \notin failing /\ e.page \in working
                     /\ boundary # 0 /\ e.at <= boundary
                     /\ \E p \in Pages : done[p] >= boundary
  <2> SUFFICES ASSUME NEW e \in old
               PROVE  /\ e \in errors /\ e.page \notin failing /\ e.page \in working
                      /\ boundary # 0 /\ e.at <= boundary
                      /\ \E p \in Pages : done[p] >= boundary
    OBVIOUS
  <2>1. e \in errors /\ F!Verdict(e, working, failing, boundary) = "historical"
    OBVIOUS
  <2>2. e.page \notin failing /\ e.page \in working /\ boundary # 0 /\ ~(e.at > boundary)
    BY <2>1 DEF F!Verdict
  <2>3. e.page \in Pages /\ e.at \in Nat /\ boundary \in Nat
    BY <1>1, <1>5, <2>1
  <2> QED
    BY <1>5, <2>1, <2>2, <2>3
<1>7. \A e \in old : \E p \in Pages : done[p] > e.at
  BY <1>1, <1>5, <1>6
<1>8. /\ Len(recs) \in Nat /\ DOMAIN recs = 1 .. Len(recs) /\ recs' \in Seq(Recommendation')
      /\ DOMAIN recs' = DOMAIN recs
      /\ \A i \in DOMAIN recs :
           /\ recs'[i].page = recs[i].page
           /\ recs'[i].status = "open" => recs[i].status = "open"
           /\ recs'[i].revalidated \in {recs[i].revalidated, boundary}
           /\ recs'[i].revalidated # recs[i].revalidated => old # {}
  <2>1. \A i \in DOMAIN recs : recs[i] \in Recommendation'
    BY <1>1 DEF Recommendation, F!RecStatuses
  <2>2. Len(recs) \in Nat /\ DOMAIN recs = 1 .. Len(recs) /\ recs \in Seq(Recommendation')
    BY <2>1 DEF ReviewIInv
  <2>3. CASE recs' = recs
    BY <2>2, <2>3
  <2>4. CASE recs' = F!Closed(fixed, boundary)
    <3> DEFINE closed(i) == IF recs[i].page \in fixed /\ recs[i].status \in {"open", "acknowledged"}
                            THEN [recs[i] EXCEPT !.status = "resolved", !.revalidated = boundary]
                            ELSE recs[i]
    <3>1. recs' = [i \in DOMAIN recs |-> closed(i)]
      BY <2>4 DEF F!Closed
    <3>2. ASSUME NEW i \in DOMAIN recs
          PROVE  /\ closed(i) \in Recommendation'
                 /\ closed(i).page = recs[i].page
                 /\ closed(i).status = "open" => recs[i].status = "open"
                 /\ closed(i).revalidated \in {recs[i].revalidated, boundary}
                 /\ closed(i).revalidated # recs[i].revalidated => old # {}
      <4> HIDE DEF old
      <4>1. CASE recs[i].page \in fixed /\ recs[i].status \in {"open", "acknowledged"}
        BY <1>1, <1>5, <2>1, <4>1 DEF Recommendation, F!RecStatuses
      <4>2. CASE ~(recs[i].page \in fixed /\ recs[i].status \in {"open", "acknowledged"})
        BY <2>1, <4>2
      <4> QED
        BY <4>1, <4>2
    <3> HIDE DEF closed
    <3> QED
      BY <2>2, <3>1, <3>2
  <2> QED
    BY <1>2, <2>3, <2>4
<1>9. \A i \in DOMAIN recs : recs'[i].revalidated = 0 \/ \E p \in Pages : done[p] >= recs'[i].revalidated
  <2> SUFFICES ASSUME NEW i \in DOMAIN recs
               PROVE  recs'[i].revalidated = 0 \/ \E p \in Pages : done[p] >= recs'[i].revalidated
    OBVIOUS
  <2>1. CASE recs'[i].revalidated = recs[i].revalidated
    <3>1. recs[i].revalidated = 0 \/ \E p \in Pages : success[p] >= recs[i].revalidated
      BY DEF ReviewIInv, Reached
    <3>2. recs[i].revalidated \in 0 .. now /\ success \in [Pages -> 0 .. now]
      BY <1>1 DEF ReviewIInv, Recommendation
    <3> QED
      BY <1>1, <2>1, <3>1, <3>2
  <2>2. CASE recs'[i].revalidated # recs[i].revalidated
    BY <1>6, <1>8, <2>2
  <2> QED
    BY <2>1, <2>2
<1>10. F!OneOpenRecommendation'
  <2> HIDE DEF old
  <2> QED
    BY <1>8 DEF ReviewIInv, F!OneOpenRecommendation
<1>11. errors' \subseteq [page : Pages, at : 1 .. now']
  BY <1>1 DEF ReviewIInv
<1>12. shown' \subseteq errors'
  BY <1>2
<1> HIDE DEF old
<1>13. ReviewIInv'
  BY <1>2, <1>8, <1>9, <1>10, <1>11, <1>12 DEF ReviewIInv, Reached
<1>14. ASSUME NEW e \in old
       PROVE  F!HasGrounds(e)
  <2>1. e \in errors /\ e.page \in working /\ \E p \in Pages : done[p] > e.at
    BY <1>6, <1>7
  <2>2. CASE e.page \in passed
    BY <1>1, <2>1, <2>2 DEF F!HasGrounds
  <2>3. CASE e.page \notin passed
    <3>1. \/ \E i \in F!Resolved : recs[i].page = e.page
          \/ \E f \in F!Overcome(looked, done) : f.page = e.page
      BY <2>1, <2>3 DEF working, F!WorkingPages
    <3>2. \/ \E i \in F!Resolved : recs[i].page = e.page
          \/ \E f \in errors : f.page = e.page /\ success'[e.page] > f.at
      BY <3>1 DEF F!Overcome
    <3> QED
      BY <2>1, <3>2 DEF F!HasGrounds
  <2> QED
    BY <2>2, <2>3
<1> QED
  BY <1>2, <1>6, <1>13, <1>14

\* Time that passes leaves the recommendations typed.
LEMMA RecommendationsStay ==
    ASSUME ReviewIInv, now' \in 0 .. MaxTime, now <= now'
    PROVE  /\ Len(recs) \in Nat /\ DOMAIN recs = 1 .. Len(recs)
           /\ recs \in Seq(Recommendation')
           /\ \A i \in DOMAIN recs : recs[i] \in Recommendation'
<1>1. \A i \in DOMAIN recs : recs[i] \in Recommendation
  BY DEF ReviewIInv
<1>2. \A i \in DOMAIN recs : recs[i] \in Recommendation'
  BY <1>1 DEF Recommendation, F!RecStatuses, ReviewIInv
<1> QED
  BY <1>2 DEF ReviewIInv

LEMMA FailKeeps ==
    ASSUME MaxTime \in Nat, ReviewIInv, NEW p \in Pages, F!Fail(p)
    PROVE  ReviewIInv'
<1>1. /\ now \in Nat /\ now' = now + 1 /\ now' \in 0 .. MaxTime /\ now <= now'
      /\ errors' = errors \cup {[page |-> p, at |-> now']}
      /\ success' = success /\ shown' = shown
  BY DEF F!Fail, F!Pass, ReviewIInv
<1>2. errors' \subseteq [page : Pages, at : 1 .. now']
  BY <1>1 DEF ReviewIInv
<1>3. success' \in [Pages -> 0 .. now']
  BY <1>1 DEF ReviewIInv
<1>4. \A e \in errors', q \in Pages : success'[q] # e.at
  BY <1>1 DEF ReviewIInv
<1>5. CASE F!OpenFor(p) # {}
  <2>1. recs' = recs
    BY <1>5 DEF F!Fail
  <2> QED
    BY <1>1, <1>2, <1>3, <1>4, <2>1, RecommendationsStay DEF ReviewIInv, Reached, F!OneOpenRecommendation
<1>6. CASE F!OpenFor(p) = {}
  <2> DEFINE new == [page |-> p, status |-> "open", revalidated |-> 0]
  <2>1. recs' = Append(recs, new)
    BY <1>6 DEF F!Fail
  <2>2. new \in Recommendation' /\ new.revalidated = 0 /\ new.page = p
    BY <1>1 DEF Recommendation, F!RecStatuses
  <2> HIDE DEF new
  <2>3. /\ recs' \in Seq(Recommendation') /\ Len(recs) \in Nat
        /\ DOMAIN recs = 1 .. Len(recs) /\ DOMAIN recs' = 1 .. Len(recs) + 1
        /\ recs'[Len(recs) + 1] = new
        /\ \A i \in DOMAIN recs : recs'[i] = recs[i]
    BY <1>1, <2>1, <2>2, RecommendationsStay
  <2>4. \A i \in DOMAIN recs' : i = Len(recs) + 1 \/ i \in DOMAIN recs
    BY <2>3
  <2>5. \A i \in DOMAIN recs' : recs'[i].revalidated = 0 \/ Reached(recs'[i].revalidated)
    BY <2>2, <2>3, <2>4 DEF ReviewIInv
  <2>6. F!OneOpenRecommendation'
    BY <1>6, <2>2, <2>3, <2>4 DEF ReviewIInv, F!OneOpenRecommendation, F!OpenFor
  <2> QED
    BY <1>1, <1>2, <1>3, <1>4, <2>3, <2>5, <2>6 DEF ReviewIInv, Reached
<1> QED
  BY <1>5, <1>6

LEMMA SucceedKeeps ==
    ASSUME MaxTime \in Nat, ReviewIInv, NEW p \in Pages, F!Succeed(p)
    PROVE  ReviewIInv'
<1>1. /\ now \in Nat /\ now' = now + 1 /\ now' \in 0 .. MaxTime /\ now <= now'
      /\ success' = [success EXCEPT ![p] = now']
      /\ errors' = errors /\ recs' = recs /\ shown' = shown
      /\ success \in [Pages -> 0 .. now]
  BY DEF F!Succeed, F!Pass, ReviewIInv
<1>2. errors' \subseteq [page : Pages, at : 1 .. now'] /\ \A e \in errors : e.at \in 1 .. now
  BY <1>1 DEF ReviewIInv
<1>3. success' \in [Pages -> 0 .. now'] /\ \A q \in Pages : success'[q] >= success[q]
  BY <1>1
<1>4. \A e \in errors', q \in Pages : success'[q] # e.at
  BY <1>1, <1>2 DEF ReviewIInv
<1>5. \A i \in DOMAIN recs' : recs'[i].revalidated = 0 \/ (\E q \in Pages : success'[q] >= recs'[i].revalidated)
  <2> SUFFICES ASSUME NEW i \in DOMAIN recs, recs[i].revalidated # 0
               PROVE  \E q \in Pages : success'[q] >= recs[i].revalidated
    BY <1>1
  <2>1. PICK q \in Pages : success[q] >= recs[i].revalidated
    BY DEF ReviewIInv, Reached
  <2>2. recs[i].revalidated \in Nat
    <3>1. recs[i] \in Recommendation
      BY DEF ReviewIInv
    <3> QED
      BY <3>1 DEF Recommendation
  <2>3. success[q] \in Nat /\ success'[q] \in Nat
    BY <1>1, <1>3
  <2> QED
    BY <1>3, <2>1, <2>2, <2>3
<1> QED
  BY <1>1, <1>2, <1>3, <1>4, <1>5, RecommendationsStay
     DEF ReviewIInv, Reached, F!OneOpenRecommendation

LEMMA DecideKeeps ==
    ASSUME ReviewIInv, NEW i \in DOMAIN recs, F!Decide(i)
    PROVE  ReviewIInv'
<1>1. PICK status \in F!RecStatuses \ {"open"} : recs' = [recs EXCEPT ![i].status = status]
  BY DEF F!Decide
<1>2. UNCHANGED <<now, errors, success, shown>>
  BY DEF F!Decide
<1>3. \A j \in DOMAIN recs : recs[j] \in Recommendation
  BY DEF ReviewIInv
<1>4. /\ recs' \in Seq(Recommendation) /\ DOMAIN recs' = DOMAIN recs
      /\ \A j \in DOMAIN recs : /\ recs'[j].page = recs[j].page
                                /\ recs'[j].revalidated = recs[j].revalidated
                                /\ recs'[j].status = "open" => recs[j].status = "open"
  <2> DEFINE new == [recs[i] EXCEPT !.status = status]
  <2>1. new \in Recommendation /\ new.status # "open" /\ new.page = recs[i].page
        /\ new.revalidated = recs[i].revalidated
    BY <1>3 DEF Recommendation
  <2>2. recs' = [recs EXCEPT ![i] = new]
    BY <1>1
  <2> HIDE DEF new
  <2> QED
    BY <1>3, <2>1, <2>2 DEF ReviewIInv
<1>5. F!OneOpenRecommendation'
  BY <1>4 DEF ReviewIInv, F!OneOpenRecommendation
<1> QED
  BY <1>2, <1>4, <1>5 DEF ReviewIInv, Recommendation, Reached

\* What a scan finds to fail is no history; what it finds to work succeeded now.
LEMMA VerifyKeeps ==
    ASSUME ReviewConstants, ReviewIInv, F!Verify
    PROVE  /\ ReviewIInv'
           /\ \A e \in shown' : /\ F!HasGrounds(e)
                                /\ e.page \in Scanned => success'[e.page] = now'
<1>1. /\ now \in Nat /\ now' = now + 1 /\ now' \in 0 .. MaxTime /\ now <= now'
      /\ errors' = errors /\ success \in [Pages -> 0 .. now]
  BY DEF F!Verify, F!Pass, ReviewIInv, ReviewConstants
<1>2. PICK limit \in Limits, passed \in SUBSET Scanned :
        /\ Announced \subseteq passed
        /\ success' = [p \in Pages |-> IF p \in passed THEN now' ELSE success[p]]
        /\ F!Reviewed(passed, Scanned \ passed, now', F!Recent(limit), success', TRUE)
  BY DEF F!Verify
<1>3. success' \in [Pages -> 0 .. now'] /\ \A p \in Pages : success'[p] >= success[p]
  BY <1>1, <1>2
<1>4. \A e \in errors, p \in Pages : success'[p] # e.at
  BY <1>1, <1>2 DEF ReviewIInv
<1>5. \A p \in passed : p \in Pages /\ success'[p] = now' /\ success'[p] > now
  BY <1>1, <1>2 DEF ReviewConstants
<1>6. \E p \in Pages : success'[p] >= now'
  BY <1>1, <1>2, <1>5 DEF ReviewConstants
<1>7. now' \in 0 .. now' /\ F!Recent(limit) \in SUBSET errors
  BY <1>1 DEF F!Recent
<1>8. ReviewIInv' /\ \A e \in shown' : F!HasGrounds(e) /\ e.page \notin Scanned \ passed
  <2> DEFINE failing == Scanned \ passed
             looked == F!Recent(limit)
             done == success'
  <2>1. F!Reviewed(passed, failing, now', looked, done, TRUE)
    BY <1>2
  <2>2. /\ done \in [Pages -> 0 .. now'] /\ success' = done /\ looked \in SUBSET errors
        /\ \A p \in Pages : done[p] >= success[p]
        /\ \A e \in errors, p \in Pages : done[p] # e.at
        /\ \E p \in Pages : done[p] >= now'
        /\ \A p \in passed : done[p] > now
    BY <1>3, <1>4, <1>5, <1>6, <1>7
  <2> HIDE DEF failing, looked, done
  <2>3. ReviewIInv' /\ \A e \in shown' : F!HasGrounds(e) /\ e.page \notin failing
    BY <1>1, <1>7, <2>1, <2>2, ReviewKeeps
  <2> QED
    BY <2>3 DEF failing
<1> QED
  BY <1>5, <1>8

\* Every step keeps the invariant, calls nothing historical without grounds and
\* believes a scan.
LEMMA FailureStep ==
    ASSUME ReviewConstants, ReviewIInv, [Next]_vars
    PROVE  /\ ReviewIInv'
           /\ \A e \in shown' \ shown : F!HasGrounds(e)
           /\ \A e \in shown' : e.page \in Scanned /\ success'[e.page] < now' => ~F!Verify
<1>1. now \in Nat
  BY DEF ReviewIInv
<1>2. ReviewIInv' /\ \A e \in shown' \ shown : F!HasGrounds(e)
  <2>1. CASE \E p \in Pages : F!Fail(p) \/ F!Succeed(p)
    BY <2>1, FailKeeps, SucceedKeeps DEF F!Fail, F!Succeed, ReviewConstants
  <2>2. CASE \E i \in DOMAIN recs : F!Decide(i)
    BY <2>2, DecideKeeps DEF F!Decide
  <2>3. CASE F!Review
    <3>1. PICK limit \in Limits, kept \in BOOLEAN :
            F!Reviewed({}, {}, 0, F!Recent(limit), success, kept)
      BY <2>3 DEF F!Review
    <3>2. /\ now' = now /\ errors' = errors /\ success' = success /\ now' \in 0 .. MaxTime
          /\ success \in [Pages -> 0 .. now'] /\ 0 \in 0 .. now' /\ now <= now'
          /\ \A p \in Pages : success[p] >= success[p]
          /\ \A e \in errors, p \in Pages : success[p] # e.at
          /\ F!Recent(limit) \in SUBSET errors
      BY <2>3 DEF F!Review, ReviewIInv, F!Recent
    <3> DEFINE passed == {}
               failing == {}
               scanned == 0
               looked == F!Recent(limit)
               done == success
    <3>3. F!Reviewed(passed, failing, scanned, looked, done, kept)
      BY <3>1
    <3>4. /\ looked \in SUBSET errors /\ scanned \in 0 .. now'
          /\ done \in [Pages -> 0 .. now'] /\ success' = done
          /\ \A p \in Pages : done[p] >= success[p]
          /\ \A e \in errors, p \in Pages : done[p] # e.at
          /\ \A p \in passed : done[p] > now
          /\ scanned # 0 => \E p \in Pages : done[p] >= scanned
      BY <3>2
    <3> HIDE DEF passed, failing, scanned, looked, done
    <3>5. \A e \in shown' : F!HasGrounds(e) /\ e.page \notin failing
      BY <3>2, <3>3, <3>4, ReviewKeeps
    <3>6. ReviewIInv'
      BY <3>2, <3>3, <3>4, ReviewKeeps
    <3> QED
      BY <3>5, <3>6
  <2>4. CASE F!Verify
    BY <2>4, VerifyKeeps
  <2>5. CASE UNCHANGED failures
    BY <2>5 DEF failures, ReviewIInv, Recommendation, Reached, F!OneOpenRecommendation
  <2> QED
    BY <2>1, <2>2, <2>3, <2>4, <2>5 DEF Next, vars, failures, F!Next
<1>3. ASSUME F!Verify, NEW e \in shown', e.page \in Scanned
      PROVE  ~(success'[e.page] < now')
  <2>1. success'[e.page] = now'
    BY <1>3, VerifyKeeps
  <2>2. now' \in Nat
    BY <1>1, <1>3 DEF F!Verify, F!Pass
  <2> QED
    BY <2>1, <2>2
<1> QED
  BY <1>2, <1>3

LEMMA ReviewInvariance ==
    ASSUME ReviewConstants
    PROVE  Spec => []ReviewIInv
<1>1. Init => ReviewIInv
  <2> SUFFICES ASSUME F!Init
               PROVE  ReviewIInv
    BY DEF Init
  <2> QED
    BY DEF F!Init, ReviewIInv, F!OneOpenRecommendation, ReviewConstants
<1>2. ReviewIInv /\ [Next]_vars => ReviewIInv'
  BY FailureStep
<1> QED
  BY <1>1, <1>2, PTL DEF Spec

\* However presses, reviews, scans and decisions from old pages follow each
\* other, a page has one open recommendation at most, what is called historical
\* has grounds, and what a scan reproduces is not (services/callbacks.py).
THEOREM FailuresAreReviewedFairly ==
    ASSUME ReviewConstants
    PROVE  Spec => ReviewIsFair
<1>1. ReviewIInv => F!OneOpenRecommendation
  BY DEF ReviewIInv
<1>2. ReviewIInv /\ [Next]_vars =>
        /\ [\A e \in shown' \ shown : F!HasGrounds(e)]_failures
        /\ [\A e \in shown' : e.page \in Scanned /\ success'[e.page] < now' => ~F!Verify]_failures
  BY FailureStep
<1> QED
  BY <1>1, <1>2, ReviewInvariance, PTL
     DEF Spec, ReviewIsFair, F!ReviewIsFair, F!HistoryHasGrounds, F!ScanIsBelieved, failures, F!vars

-----------------------------------------------------------------------------
(* The memory of decisions.                                                *)

NotedVersions == (D!Severities \X Versions) \cup {<<>>}

Memory == [outcome : D!Outcomes, lifecycle : D!Lifecycles, useful : 0 .. 100,
           version : NotedVersions]

\* What the constants stand for: the categories the service has resolvers for,
\* and no memory is no row.
DecisionConstants ==
    /\ Categories \subseteq {"recovery", "telegram_bot", "notification", "navigation",
                             "platform_connection", "opportunity"}
    /\ NoMemory \notin Memory

\* A row whose dismissal is noted twice, in its life and as its outcome, so that
\* showing it does not wake it up.
Dismissible(m) == m \in Memory /\ (m.lifecycle = "dismissed" => m.outcome = "dismissed")

MemoryIInv ==
    /\ category \in Categories /\ seen \in D!Possible(category)
    /\ recalled # NoMemory => Dismissible(recalled)
    /\ D!CriticalIsListed

\* What becomes of a row while a page of evidence e is made.
Follows(m, new, e) ==
    /\ Dismissible(new)
    /\ new.lifecycle = "resolved" => e.healthy \/ m.lifecycle = "resolved"
    /\ m.lifecycle = "dismissed" => new.lifecycle = "dismissed"

LEMMA AdjustedTyped ==
    ASSUME NEW score \in 0 .. 100, NEW delta \in Int
    PROVE  D!Adjusted(score, delta) \in 0 .. 100
BY DEF D!Adjusted

LEMMA ResolverFollows ==
    ASSUME NEW m, Dismissible(m), DecisionConstants, NEW e \in D!Evidence
    PROVE  D!Resolver(m, e) # NoMemory /\ Follows(m, D!Resolver(m, e), e)
<1> DEFINE r == D!Resolver(m, e)
<1>1. m \in Memory /\ m # NoMemory /\ m.useful \in 0 .. 100
  BY DEF Dismissible, Memory, DecisionConstants
<1>2. D!Worth \in Int
  BY DEF D!Worth
<1>3. D!Adjusted(m.useful, D!Worth) \in 0 .. 100 /\ D!Adjusted(m.useful, 12) \in 0 .. 100
  <2>1. \A s \in 0 .. 100, d \in Int : D!Adjusted(s, d) \in 0 .. 100
    BY AdjustedTyped
  <2>2. 12 \in Int
    OBVIOUS
  <2> HIDE DEF r
  <2> QED
    BY <1>1, <1>2, <2>1, <2>2
<1>4. ASSUME NEW new \in Memory, new.lifecycle # "dismissed", m.lifecycle # "dismissed",
             new.lifecycle = "resolved" => e.healthy
      PROVE  new # NoMemory /\ Follows(m, new, e)
  BY <1>4 DEF Follows, Dismissible, DecisionConstants
<1>5. CASE m.lifecycle \in {"resolved", "dismissed"}
  BY <1>1, <1>5 DEF D!Resolver, Follows
<1>6. CASE m.lifecycle \notin {"resolved", "dismissed"} /\ e.healthy
  <2> DEFINE new == [m EXCEPT !.outcome = "resolved", !.lifecycle = "resolved",
                              !.useful = D!Adjusted(@, D!Worth)]
  <2>1. r = new
    BY <1>1, <1>6 DEF D!Resolver
  <2>2. new \in Memory /\ new.lifecycle = "resolved"
    BY <1>1, <1>3 DEF Memory, D!Outcomes, D!Lifecycles
  <2> HIDE DEF new, r
  <2> QED
    BY <1>4, <1>6, <2>1, <2>2 DEF r
<1>7. CASE m.lifecycle \notin {"resolved", "dismissed"} /\ ~e.healthy /\ e.restore # "none"
  <2> DEFINE life == IF e.restore = "passed" THEN "in_progress" ELSE "waiting_for_evidence"
             new == [m EXCEPT !.outcome = "acted_on", !.useful = D!Adjusted(@, 12),
                              !.lifecycle = life]
  <2>1. r = new
    BY <1>1, <1>7 DEF D!Resolver
  <2>2. life \in {"in_progress", "waiting_for_evidence"}
    OBVIOUS
  <2> HIDE DEF life
  <2>3. new \in Memory /\ new.lifecycle = life
    BY <1>1, <1>3, <2>2 DEF Memory, D!Outcomes, D!Lifecycles
  <2> HIDE DEF new, r
  <2> QED
    BY <1>4, <1>7, <2>1, <2>2, <2>3 DEF r
<1>8. CASE /\ m.lifecycle \notin {"resolved", "dismissed"} /\ ~e.healthy /\ e.restore = "none"
           /\ category = "platform_connection"
  <2> DEFINE new == [m EXCEPT !.lifecycle = "waiting_for_evidence"]
  <2>1. r = new
    BY <1>1, <1>8 DEF D!Resolver
  <2>2. new \in Memory /\ new.lifecycle = "waiting_for_evidence"
    BY <1>1 DEF Memory, D!Lifecycles
  <2> HIDE DEF new, r
  <2> QED
    BY <1>4, <1>8, <2>1, <2>2 DEF r
<1>9. CASE /\ m.lifecycle \notin {"resolved", "dismissed"} /\ ~e.healthy /\ e.restore = "none"
           /\ category # "platform_connection"
  <2>1. r = m
    BY <1>1, <1>9 DEF D!Resolver
  <2> HIDE DEF r
  <2> QED
    BY <1>1, <1>4, <1>9, <2>1 DEF r
<1> QED
  BY <1>5, <1>6, <1>7, <1>8, <1>9

\* What is noted of the evidence says nothing about the life of the row.
LEMMA NotedFollows ==
    ASSUME NEW m, Dismissible(m), NEW e \in D!Evidence
    PROVE  /\ Dismissible(D!Noted(m, e))
           /\ D!Noted(m, e).lifecycle = m.lifecycle /\ D!Noted(m, e).outcome = m.outcome
<1>1. D!Version(e) \in NotedVersions
  BY DEF D!Version, NotedVersions, D!Evidence
<1>2. CASE D!Noted(m, e) = m
  BY <1>2
<1>3. CASE D!Noted(m, e) = [m EXCEPT !.version = D!Version(e)]
  BY <1>1, <1>3 DEF Dismissible, Memory
<1> QED
  BY <1>2, <1>3 DEF D!Noted

\* Every word of the owner wakes up a dismissed row at most to wait for
\* evidence, and resolves none.
LEMMA RecordedFollows ==
    ASSUME NEW m, Dismissible(m), NEW action \in D!Actions
    PROVE  /\ Dismissible(D!Recorded(m, action))
           /\ D!Recorded(m, action).lifecycle = "resolved" => m.lifecycle = "resolved"
           /\ m.lifecycle = "dismissed" =>
                \/ D!Recorded(m, action).lifecycle = "dismissed"
                \/ /\ D!Recorded(m, action).lifecycle = "waiting_for_evidence"
                   /\ D!Recorded(m, action).outcome = "stale"
<1> DEFINE moved == D!Moved(m, action)
           useful == D!Adjusted(D!Usefulness(m), D!Delta(action))
<1>1. m \in Memory /\ m.useful \in 0 .. 100
  BY DEF Dismissible, Memory
<1>2. useful \in 0 .. 100
  <2>1. D!Delta(action) \in Int
    BY DEF D!Delta, D!Actions
  <2>2. D!Usefulness(m) \in 0 .. 100
    BY <1>1 DEF D!Usefulness
  <2> QED
    BY <2>1, <2>2, AdjustedTyped
<1>3. D!Recorded(m, action) = [moved EXCEPT !.useful = useful]
  BY DEF D!Recorded
<1> HIDE DEF useful
<1>4. /\ moved \in Memory
      /\ moved.lifecycle = "dismissed" => moved.outcome = "dismissed"
      /\ moved.lifecycle = "resolved" => m.lifecycle = "resolved"
      /\ m.lifecycle = "dismissed" =>
           \/ moved.lifecycle = "dismissed"
           \/ moved.lifecycle = "waiting_for_evidence" /\ moved.outcome = "stale"
  <2>1. CASE action = "shown"
    BY <1>1, <2>1 DEF D!Moved, Dismissible, Memory, D!Outcomes, D!Lifecycles
  <2>2. CASE action = "dismissed"
    BY <1>1, <2>2 DEF D!Moved, Dismissible, Memory, D!Outcomes, D!Lifecycles
  <2>3. CASE action = "remind_later"
    BY <1>1, <2>3 DEF D!Moved, Dismissible, Memory, D!Outcomes, D!Lifecycles
  <2>4. CASE action \notin {"shown", "dismissed", "remind_later"}
    BY <1>1, <2>4 DEF D!Moved, Dismissible, Memory, D!Outcomes, D!Lifecycles
  <2> QED
    BY <2>1, <2>2, <2>3, <2>4
<1> HIDE DEF moved
<1>5. /\ [moved EXCEPT !.useful = useful] \in Memory
      /\ [moved EXCEPT !.useful = useful].lifecycle = moved.lifecycle
      /\ [moved EXCEPT !.useful = useful].outcome = moved.outcome
  BY <1>2, <1>4 DEF Memory
<1> QED
  BY <1>3, <1>4, <1>5 DEF Dismissible

\* What a page does to the memory that is there.
LEMMA MemoryStep ==
    ASSUME DecisionConstants, MemoryIInv, D!Next
    PROVE  /\ MemoryIInv'
           /\ recalled' # NoMemory /\ recalled'.lifecycle = "resolved" =>
                seen'.healthy \/ (recalled # NoMemory /\ recalled.lifecycle = "resolved")
           /\ recalled # NoMemory /\ recalled.lifecycle = "dismissed" =>
                \/ recalled'.lifecycle = "dismissed"
                \/ recalled'.lifecycle = "waiting_for_evidence" /\ recalled'.outcome = "stale"
<1>1. PICK e \in D!Possible(category) : D!Briefing(e) \/ D!Feedback(e)
  BY DEF D!Next
<1> DEFINE m == D!Resolver(recalled, e)
           noted == D!Generate(e)
           row == D!Row(noted)
<1>2. e \in D!Evidence /\ category \in Categories
  BY DEF D!Possible, MemoryIInv
<1>3. /\ seen' = e /\ listed' = D!Listed(m, e) /\ category' = category
      /\ \/ recalled' = recalled \/ recalled' = noted
         \/ \E action \in D!Actions : recalled' = D!Recorded(row, action)
  BY <1>1 DEF D!Briefing, D!Feedback, D!Actions
<1>4. e.severity = "critical" => D!Listed(m, e)
  BY DEF D!Listed, D!Hidden
<1>5. noted = D!Noted(m, e)
  BY DEF D!Generate
<1>6. CASE recalled = NoMemory
  <2>1. m = NoMemory /\ noted = NoMemory
    BY <1>5, <1>6 DEF D!Resolver, D!Noted
  <2>2. Dismissible(row) /\ row.lifecycle = "active"
    <3>1. row = [outcome |-> "shown", lifecycle |-> "active", useful |-> 50, version |-> <<>>]
      BY <2>1 DEF D!Row
    <3>2. <<>> \in NotedVersions
      BY DEF NotedVersions
    <3> QED
      BY <3>1, <3>2 DEF Dismissible, Memory, D!Outcomes, D!Lifecycles
  <2> HIDE DEF m, noted, row
  <2>3. CASE recalled' = NoMemory
    BY <1>2, <1>3, <1>4, <1>6, <2>3 DEF MemoryIInv, D!CriticalIsListed
  <2>4. ASSUME NEW action \in D!Actions, recalled' = D!Recorded(row, action)
        PROVE  Dismissible(recalled') /\ recalled'.lifecycle # "resolved"
    BY <2>2, <2>4, RecordedFollows
  <2> QED
    BY <1>2, <1>3, <1>4, <1>6, <2>1, <2>3, <2>4 DEF MemoryIInv, D!CriticalIsListed
<1>7. CASE recalled # NoMemory
  <2>1. Dismissible(recalled)
    BY <1>7 DEF MemoryIInv
  <2>2. Follows(recalled, m, e)
    BY <1>2, <2>1, ResolverFollows
  <2> HIDE DEF m
  <2>3. Follows(recalled, noted, e)
    BY <1>2, <1>5, <2>2, NotedFollows DEF Follows
  <2> HIDE DEF noted
  <2>4. row = noted
    BY <2>3 DEF D!Row, Follows, Dismissible, DecisionConstants
  <2> HIDE DEF row
  <2>5. CASE recalled' = recalled
    BY <1>2, <1>3, <1>4, <2>1, <2>5 DEF MemoryIInv, D!CriticalIsListed
  <2>6. CASE recalled' = noted
    BY <1>2, <1>3, <1>4, <1>7, <2>3, <2>6 DEF MemoryIInv, D!CriticalIsListed, Follows
  <2>7. ASSUME NEW action \in D!Actions, recalled' = D!Recorded(noted, action)
        PROVE  /\ Dismissible(recalled')
               /\ recalled'.lifecycle = "resolved" => e.healthy \/ recalled.lifecycle = "resolved"
               /\ recalled.lifecycle = "dismissed" =>
                    \/ recalled'.lifecycle = "dismissed"
                    \/ recalled'.lifecycle = "waiting_for_evidence" /\ recalled'.outcome = "stale"
    BY <2>3, <2>7, RecordedFollows DEF Follows
  <2> QED
    BY <1>2, <1>3, <1>4, <1>7, <2>4, <2>5, <2>6, <2>7 DEF MemoryIInv, D!CriticalIsListed
<1> QED
  BY <1>6, <1>7

LEMMA MemoryInvariance ==
    ASSUME DecisionConstants
    PROVE  Spec => []MemoryIInv
<1>1. Init => MemoryIInv
  BY DEF Init, D!Init, MemoryIInv, D!CriticalIsListed
<1>2. MemoryIInv /\ [Next]_vars => MemoryIInv'
  <2> SUFFICES ASSUME MemoryIInv, [Next]_vars
               PROVE  MemoryIInv'
    OBVIOUS
  <2>1. CASE D!Next
    BY <2>1, MemoryStep
  <2>2. CASE UNCHANGED decisions
    BY <2>2 DEF decisions, MemoryIInv, D!CriticalIsListed, Dismissible, Memory, NotedVersions, D!Possible
  <2> QED
    BY <2>1, <2>2 DEF Next, vars, decisions
<1> QED
  BY <1>1, <1>2, PTL DEF Spec

\* A critical decision is listed whatever is remembered of it, a memory is
\* resolved by evidence only, and a dismissal lasts until the owner asks to be
\* reminded, however pages and feedback follow each other
\* (services/decision_engine.py).
THEOREM DecisionsAreRememberedFairly ==
    ASSUME DecisionConstants
    PROVE  Spec => MemoryIsFair
<1>1. MemoryIInv => D!CriticalIsListed
  BY DEF MemoryIInv
<1>2. ASSUME MemoryIInv, [Next]_vars
      PROVE  /\ [recalled' # NoMemory /\ recalled'.lifecycle = "resolved"
                   => seen'.healthy \/ (recalled # NoMemory /\ recalled.lifecycle = "resolved")
                ]_decisions
             /\ [recalled # NoMemory /\ recalled.lifecycle = "dismissed"
                   => \/ recalled'.lifecycle = "dismissed"
                      \/ recalled'.lifecycle = "waiting_for_evidence" /\ recalled'.outcome = "stale"
                ]_decisions
  <2>1. CASE D!Next
    BY <1>2, <2>1, MemoryStep
  <2>2. CASE UNCHANGED decisions
    BY <2>2
  <2> QED
    BY <1>2, <2>1, <2>2 DEF Next, vars, decisions
<1> QED
  BY <1>1, <1>2, MemoryInvariance, PTL
     DEF Spec, MemoryIsFair, D!MemoryIsFair, D!ResolvedByEvidence, D!DismissalLasts,
         decisions, D!vars

-----------------------------------------------------------------------------
(* Scores and risk.                                                        *)

\* Multiplication by a natural keeps the order, and adds a factor for a step.
LEMMA ProductGrows ==
    ASSUME NEW b \in Nat, NEW x \in Nat, NEW y \in Nat, x <= y
    PROVE  b * x \in Nat /\ b * y \in Nat /\ b * x <= b * y
<1>1. PICK d \in Nat : y = x + d
  BY y - x \in Nat
<1>2. b * y = b * x + b * d /\ b * d \in Nat /\ b * x \in Nat
  BY <1>1
<1> QED
  BY <1>2

LEMMA Division ==
    ASSUME NEW a \in Nat, NEW b \in Nat \ {0}
    PROVE  /\ a \div b \in Nat /\ a % b \in Nat /\ a % b < b
           /\ a = b * (a \div b) + (a % b)
  OBVIOUS

\* Python's round, of natural a and positive b, keeps the order.
LEMMA RoundingKeepsOrder ==
    ASSUME NEW a \in Nat, NEW c \in Nat, NEW b \in Nat \ {0}, a <= c
    PROVE  L!Rounded(a, b) \in Nat /\ L!Rounded(a, b) <= L!Rounded(c, b)
<1> DEFINE q == a \div b
           r == a % b
           s == c \div b
           u == c % b
<1>1. /\ q \in Nat /\ r \in Nat /\ r < b /\ a = b * q + r
      /\ s \in Nat /\ u \in Nat /\ u < b /\ c = b * s + u
  BY Division
<1>2. /\ L!Rounded(a, b) = IF 2 * r > b \/ (2 * r = b /\ q % 2 = 1) THEN q + 1 ELSE q
      /\ L!Rounded(c, b) = IF 2 * u > b \/ (2 * u = b /\ s % 2 = 1) THEN s + 1 ELSE s
  BY DEF L!Rounded
<1> HIDE DEF q, r, s, u
<1>3. CASE q = s
  <2>1. r <= u
    <3>1. b * q \in Nat
      BY <1>1
    <3> QED
      BY <1>1, <1>3, <3>1
  <2> QED
    BY <1>1, <1>2, <1>3, <2>1
<1>4. CASE q + 1 <= s
  BY <1>1, <1>2, <1>4
<1>5. CASE s + 1 <= q
  <2>1. b * (s + 1) <= b * q /\ b * (s + 1) = b * s + b /\ b * s \in Nat /\ b * q \in Nat
    BY <1>1, <1>5, ProductGrows
  <2> QED
    BY <1>1, <2>1
<1> QED
  BY <1>1, <1>3, <1>4, <1>5

LEMMA EarnedKeepsOrder ==
    ASSUME NEW weight \in Nat, NEW x \in Nat, NEW y \in Nat, x <= y, NEW whole \in Nat \ {0}
    PROVE  /\ L!Earned(weight, x, whole) \in Nat /\ L!Earned(weight, y, whole) \in Nat
           /\ L!Earned(weight, x, whole) <= L!Earned(weight, y, whole)
<1>1. weight * x \in Nat /\ weight * y \in Nat /\ weight * x <= weight * y
  BY ProductGrows
<1>2. \A a, c \in Nat : a <= c => /\ L!Rounded(a, whole) \in Nat /\ L!Rounded(c, whole) \in Nat
                                  /\ L!Rounded(a, whole) <= L!Rounded(c, whole)
  BY RoundingKeepsOrder
<1> QED
  BY <1>1, <1>2 DEF L!Earned

\* What the constants stand for: percentages and areas.
ScoreConstants ==
    /\ Rates \subseteq 0 .. 100 /\ Rates # {}
    /\ Domains \in Nat \ {0} /\ MaxPressure \in Nat

\* Levels of facts that fit together.
KnownFacts(e) == (\A f \in L!Facts : e[f] \in L!Levels(f)) /\ L!Possible(e)

\* The evidence d is nowhere worse than e.
NoWorse(d, e) == \A f \in L!Facts : d[f] >= e[f]

\* The levels by name.
LEMMA LevelsByName ==
    ASSUME ScoreConstants, NEW e, KnownFacts(e)
    PROVE  /\ e["success"] \in 0 .. 100 /\ e["active"] \in 0 .. Domains /\ e["known"] \in 0 .. Domains
           /\ e["speed"] \in 0 .. 3 /\ e["issues"] \in 0 .. 3 /\ e["backup"] \in 0 .. 3
           /\ e["attempts"] \in 0 .. 4 /\ e["restore"] \in 0 .. 6 /\ e["checks"] \in 0 .. 5
           /\ e["relief"] \in {0, MaxPressure}
           /\ \A f \in {"copies", "screens", "manual", "recent", "saved", "sources", "creators"} :
                e[f] \in 0 .. 2
           /\ \A f \in {"menus", "buttons", "offsite", "storage", "last", "claimed", "tested", "memories", "ai",
                        "search", "outcomes", "lessons", "predictions", "posts", "chatters"} :
                e[f] \in 0 .. 1
<1>1. \A f \in L!Facts : e[f] \in L!Levels(f)
  BY DEF KnownFacts
<1>2. e["success"] \in 0 .. 100 /\ e["relief"] \in {0, MaxPressure} /\ e["checks"] \in 0 .. 5
  BY <1>1 DEF L!Facts, L!Levels, ScoreConstants
<1>3. e["active"] \in 0 .. Domains /\ e["known"] \in 0 .. Domains
  BY <1>1 DEF L!Facts, L!Levels
<1>4. e["speed"] \in 0 .. 3 /\ e["issues"] \in 0 .. 3 /\ e["backup"] \in 0 .. 3
  BY <1>1 DEF L!Facts, L!Levels
<1>5. e["attempts"] \in 0 .. 4 /\ e["restore"] \in 0 .. 6
  BY <1>1 DEF L!Facts, L!Levels
<1>6. \A f \in {"copies", "screens", "manual", "recent", "saved", "sources", "creators"} :
        e[f] \in 0 .. 2
  BY <1>1 DEF L!Facts, L!Levels
<1>7. \A f \in {"menus", "buttons", "offsite", "storage", "last", "claimed", "tested", "memories", "ai",
                "search", "outcomes", "lessons", "predictions", "posts", "chatters"} :
        f \in L!Facts /\ L!Levels(f) = 0 .. 1
  BY DEF L!Facts, L!Levels
<1> QED
  BY <1>1, <1>2, <1>3, <1>4, <1>5, <1>6, <1>7

LEMMA PressureKeepsOrder ==
    ASSUME ScoreConstants, NEW e, NEW d, KnownFacts(e), KnownFacts(d), NoWorse(d, e),
           NEW x \in Int, NEW y \in Int, x <= y
    PROVE  /\ L!Pressed(x, e) \in 0 .. 100 /\ L!Pressed(y, d) \in 0 .. 100
           /\ L!Pressed(x, e) <= L!Pressed(y, d)
<1>1. e["relief"] \in {0, MaxPressure} /\ d["relief"] \in {0, MaxPressure} /\ MaxPressure \in Nat
  BY LevelsByName DEF ScoreConstants
<1>2. e["relief"] <= d["relief"]
  <2>1. "relief" \in L!Facts
    BY DEF L!Facts
  <2> QED
    BY <1>1, <2>1 DEF NoWorse
<1> QED
  BY <1>1, <1>2 DEF L!Pressed, L!Clamped

\* Two levels of a fact, the better one second.
LEMMA Improved ==
    ASSUME NEW e, NEW d, NoWorse(d, e), NEW f \in L!Facts, NEW n \in Nat,
           e[f] \in 0 .. n, d[f] \in 0 .. n
    PROVE  e[f] <= d[f]
BY DEF NoWorse

\* The tables that give points for a level rise.
LEMMA PointTables ==
    ASSUME NEW i, NEW j
    PROVE  /\ i \in 0 .. 3 /\ j \in 0 .. 3 /\ i <= j =>
                /\ <<0, 35, 43, 50>>[i + 1] \in Nat /\ <<0, 35, 43, 50>>[j + 1] \in Nat
                /\ <<0, 35, 43, 50>>[i + 1] <= <<0, 35, 43, 50>>[j + 1]
                /\ <<2, 9, 16, 20>>[i + 1] \in Nat /\ <<2, 9, 16, 20>>[j + 1] \in Nat
                /\ <<2, 9, 16, 20>>[i + 1] <= <<2, 9, 16, 20>>[j + 1]
                /\ <<0, 5, 12, 20>>[i + 1] \in Nat /\ <<0, 5, 12, 20>>[j + 1] \in Nat
                /\ <<0, 5, 12, 20>>[i + 1] <= <<0, 5, 12, 20>>[j + 1]
                /\ <<70, 30, 15, 0>>[i + 1] \in Nat /\ <<70, 30, 15, 0>>[j + 1] \in Nat
                /\ <<70, 30, 15, 0>>[i + 1] >= <<70, 30, 15, 0>>[j + 1]
           /\ i \in 0 .. 6 /\ j \in 0 .. 6 /\ i <= j =>
                /\ <<0, 0, 0, 0, 15, 15, 25>>[i + 1] \in Nat
                /\ <<0, 0, 0, 0, 15, 15, 25>>[j + 1] \in Nat
                /\ <<0, 0, 0, 0, 15, 15, 25>>[i + 1] <= <<0, 0, 0, 0, 15, 15, 25>>[j + 1]
                /\ <<25, 25, 20, 15, 15, 10, 0>>[i + 1] \in 0 .. 25
                /\ <<25, 25, 20, 15, 15, 10, 0>>[j + 1] \in 0 .. 25
                /\ <<25, 25, 20, 15, 15, 10, 0>>[i + 1] >= <<25, 25, 20, 15, 15, 10, 0>>[j + 1]
           /\ i \in 0 .. 2 /\ j \in 0 .. 2 /\ i <= j =>
                /\ <<0, 7, 15>>[i + 1] \in Nat /\ <<0, 7, 15>>[j + 1] \in Nat
                /\ <<0, 7, 15>>[i + 1] <= <<0, 7, 15>>[j + 1]
                /\ <<0, 8, 15>>[i + 1] \in Nat /\ <<0, 8, 15>>[j + 1] \in Nat
                /\ <<0, 8, 15>>[i + 1] <= <<0, 8, 15>>[j + 1]
                /\ <<0, 3, 5>>[i + 1] \in Nat /\ <<0, 3, 5>>[j + 1] \in Nat
                /\ <<0, 3, 5>>[i + 1] <= <<0, 3, 5>>[j + 1]
                /\ <<5, 12, 20>>[i + 1] \in Nat /\ <<5, 12, 20>>[j + 1] \in Nat
                /\ <<5, 12, 20>>[i + 1] <= <<5, 12, 20>>[j + 1]
                /\ <<0, 8, 20>>[i + 1] \in Nat /\ <<0, 8, 20>>[j + 1] \in Nat
                /\ <<0, 8, 20>>[i + 1] <= <<0, 8, 20>>[j + 1]
                /\ <<0, 6, 15>>[i + 1] \in Nat /\ <<0, 6, 15>>[j + 1] \in Nat
                /\ <<0, 6, 15>>[i + 1] <= <<0, 6, 15>>[j + 1]
                /\ <<25, 15, 0>>[i + 1] \in Nat /\ <<25, 15, 0>>[j + 1] \in Nat
                /\ <<25, 15, 0>>[i + 1] >= <<25, 15, 0>>[j + 1]
  OBVIOUS

LEMMA ReliabilityRises ==
    ASSUME ScoreConstants, NEW e, NEW d, KnownFacts(e), KnownFacts(d), NoWorse(d, e)
    PROVE  /\ L!Reliability(e) \in Nat /\ L!Reliability(d) \in Nat
           /\ L!Reliability(e) <= L!Reliability(d)
<1> DEFINE share(x) == L!Earned(25, x["success"], 100)
           speed(x) == <<2, 9, 16, 20>>[x["speed"] + 1]
           issues(x) == <<0, 5, 12, 20>>[x["issues"] + 1]
           menus(x) == IF x["menus"] = 1 THEN 10 ELSE 5
<1>1. /\ {"success", "speed", "issues", "menus"} \subseteq L!Facts
      /\ e["success"] \in 0 .. 100 /\ d["success"] \in 0 .. 100
      /\ e["speed"] \in 0 .. 3 /\ d["speed"] \in 0 .. 3
      /\ e["issues"] \in 0 .. 3 /\ d["issues"] \in 0 .. 3
      /\ e["menus"] \in 0 .. 1 /\ d["menus"] \in 0 .. 1
  BY LevelsByName DEF L!Facts
<1>2. /\ e["success"] <= d["success"] /\ e["speed"] <= d["speed"]
      /\ e["issues"] <= d["issues"] /\ e["menus"] <= d["menus"]
  BY <1>1, Improved
<1>3. share(e) \in Nat /\ share(d) \in Nat /\ share(e) <= share(d)
  <2>1. e["success"] \in Nat /\ d["success"] \in Nat /\ 25 \in Nat /\ 100 \in Nat \ {0}
    BY <1>1
  <2> QED
    BY <1>2, <2>1, EarnedKeepsOrder
<1>4. speed(e) \in Nat /\ speed(d) \in Nat /\ speed(e) <= speed(d)
  BY <1>1, <1>2, PointTables
<1>5. issues(e) \in Nat /\ issues(d) \in Nat /\ issues(e) <= issues(d)
  BY <1>1, <1>2, PointTables
<1>6. menus(e) \in Nat /\ menus(d) \in Nat /\ menus(e) <= menus(d)
  BY <1>1, <1>2
<1>7. /\ L!Reliability(e) = 2 * share(e) + speed(e) + issues(e) + menus(e)
      /\ L!Reliability(d) = 2 * share(d) + speed(d) + issues(d) + menus(d)
  BY DEF L!Reliability
<1> HIDE DEF share, speed, issues, menus
<1> QED
  BY <1>3, <1>4, <1>5, <1>6, <1>7

LEMMA RecoverySafetyRises ==
    ASSUME ScoreConstants, NEW e, NEW d, KnownFacts(e), KnownFacts(d), NoWorse(d, e)
    PROVE  /\ L!RecoverySafety(e) \in Nat /\ L!RecoverySafety(d) \in Nat
           /\ L!RecoverySafety(e) <= L!RecoverySafety(d)
<1> DEFINE backup(x) == <<0, 35, 43, 50>>[x["backup"] + 1]
           restore(x) == <<0, 0, 0, 0, 15, 15, 25>>[x["restore"] + 1]
           copies(x) == <<0, 7, 15>>[x["copies"] + 1]
           sum(x) == backup(x) + restore(x) + copies(x) + 10 * x["storage"]
<1>1. /\ {"backup", "restore", "copies", "storage"} \subseteq L!Facts
      /\ e["backup"] \in 0 .. 3 /\ d["backup"] \in 0 .. 3
      /\ e["restore"] \in 0 .. 6 /\ d["restore"] \in 0 .. 6
      /\ e["copies"] \in 0 .. 2 /\ d["copies"] \in 0 .. 2
      /\ e["storage"] \in 0 .. 1 /\ d["storage"] \in 0 .. 1
  BY LevelsByName DEF L!Facts
<1>2. /\ e["backup"] <= d["backup"] /\ e["restore"] <= d["restore"]
      /\ e["copies"] <= d["copies"] /\ e["storage"] <= d["storage"]
  BY <1>1, Improved
<1>3. backup(e) \in Nat /\ backup(d) \in Nat /\ backup(e) <= backup(d)
  BY <1>1, <1>2, PointTables
<1>4. restore(e) \in Nat /\ restore(d) \in Nat /\ restore(e) <= restore(d)
  BY <1>1, <1>2, PointTables
<1>5. copies(e) \in Nat /\ copies(d) \in Nat /\ copies(e) <= copies(d)
  BY <1>1, <1>2, PointTables
<1>6. L!RecoverySafety(e) = L!Pressed(sum(e), e) /\ L!RecoverySafety(d) = L!Pressed(sum(d), d)
  BY DEF L!RecoverySafety
<1> HIDE DEF backup, restore, copies
<1>7. sum(e) \in Int /\ sum(d) \in Int /\ sum(e) <= sum(d)
  BY <1>1, <1>2, <1>3, <1>4, <1>5
<1> HIDE DEF sum
<1> QED
  BY <1>6, <1>7, PressureKeepsOrder

LEMMA AgencyVisibilityRises ==
    ASSUME ScoreConstants, NEW e, NEW d, KnownFacts(e), KnownFacts(d), NoWorse(d, e)
    PROVE  /\ L!AgencyVisibility(e) \in Nat /\ L!AgencyVisibility(d) \in Nat
           /\ L!AgencyVisibility(e) <= L!AgencyVisibility(d)
<1> DEFINE active(x) == L!Earned(30, x["active"], Domains)
           connected(x) == L!Earned(25, x["active"], Domains)
           manual(x) == <<0, 8, 15>>[x["manual"] + 1]
           recent(x) == <<0, 8, 15>>[x["recent"] + 1]
           known(x) == L!Earned(15, x["known"], Domains)
           sum(x) == active(x) + connected(x) + manual(x) + recent(x) + known(x)
<1>1. /\ {"active", "known", "manual", "recent"} \subseteq L!Facts
      /\ e["active"] \in 0 .. Domains /\ d["active"] \in 0 .. Domains
      /\ e["known"] \in 0 .. Domains /\ d["known"] \in 0 .. Domains
      /\ e["manual"] \in 0 .. 2 /\ d["manual"] \in 0 .. 2
      /\ e["recent"] \in 0 .. 2 /\ d["recent"] \in 0 .. 2
      /\ Domains \in Nat \ {0}
  BY LevelsByName DEF L!Facts, ScoreConstants
<1>2. /\ e["active"] <= d["active"] /\ e["known"] <= d["known"]
      /\ e["manual"] <= d["manual"] /\ e["recent"] <= d["recent"]
  BY <1>1, Improved
<1>3. /\ e["active"] \in Nat /\ d["active"] \in Nat /\ e["known"] \in Nat /\ d["known"] \in Nat
      /\ 30 \in Nat /\ 25 \in Nat /\ 15 \in Nat
  BY <1>1
<1>4. active(e) \in Nat /\ active(d) \in Nat /\ active(e) <= active(d)
  BY <1>1, <1>2, <1>3, EarnedKeepsOrder
<1>5. connected(e) \in Nat /\ connected(d) \in Nat /\ connected(e) <= connected(d)
  BY <1>1, <1>2, <1>3, EarnedKeepsOrder
<1>6. known(e) \in Nat /\ known(d) \in Nat /\ known(e) <= known(d)
  BY <1>1, <1>2, <1>3, EarnedKeepsOrder
<1>7. /\ manual(e) \in Nat /\ manual(d) \in Nat /\ manual(e) <= manual(d)
      /\ recent(e) \in Nat /\ recent(d) \in Nat /\ recent(e) <= recent(d)
  BY <1>1, <1>2, PointTables
<1>8. L!AgencyVisibility(e) = L!Pressed(sum(e), e) /\ L!AgencyVisibility(d) = L!Pressed(sum(d), d)
  BY DEF L!AgencyVisibility
<1> HIDE DEF active, connected, manual, recent, known
<1>9. sum(e) \in Int /\ sum(d) \in Int /\ sum(e) <= sum(d)
  BY <1>4, <1>5, <1>6, <1>7
<1> HIDE DEF sum
<1> QED
  BY <1>8, <1>9, PressureKeepsOrder

LEMMA IntelligenceRises ==
    ASSUME ScoreConstants, NEW e, NEW d, KnownFacts(e), KnownFacts(d), NoWorse(d, e)
    PROVE  /\ L!Intelligence(e) \in Nat /\ L!Intelligence(d) \in Nat
           /\ L!Intelligence(e) <= L!Intelligence(d)
<1> DEFINE once == {"memories", "ai", "search", "outcomes", "lessons", "predictions"}
           kept(x) == <<0, 3, 5>>[x["saved"] + 1]
           memories(x) == IF x["memories"] = 1 THEN 15 ELSE 7
           learned(x) == IF x["outcomes"] = 1 THEN 15 ELSE 8
           lessons(x) == IF x["lessons"] = 1 THEN 10 ELSE 3
           predictions(x) == IF x["predictions"] = 1 THEN 10 ELSE 4
<1>1. /\ once \cup {"saved"} \subseteq L!Facts
      /\ \A f \in once : e[f] \in 0 .. 1 /\ d[f] \in 0 .. 1
      /\ e["saved"] \in 0 .. 2 /\ d["saved"] \in 0 .. 2
  BY LevelsByName DEF L!Facts
<1>2. e["saved"] <= d["saved"] /\ \A f \in once : e[f] <= d[f]
  BY <1>1, Improved
<1>3. kept(e) \in Nat /\ kept(d) \in Nat /\ kept(e) <= kept(d)
  BY <1>1, <1>2, PointTables
<1>4. memories(e) \in Nat /\ memories(d) \in Nat /\ memories(e) <= memories(d)
  BY <1>1, <1>2
<1>5. learned(e) \in Nat /\ learned(d) \in Nat /\ learned(e) <= learned(d)
  BY <1>1, <1>2
<1>6. lessons(e) \in Nat /\ lessons(d) \in Nat /\ lessons(e) <= lessons(d)
  BY <1>1, <1>2
<1>7. predictions(e) \in Nat /\ predictions(d) \in Nat /\ predictions(e) <= predictions(d)
  BY <1>1, <1>2
<1>8. /\ L!Intelligence(e) = 15 + memories(e) + 15 * e["ai"] + 15 * e["search"]
                             + learned(e) + lessons(e) + predictions(e) + kept(e)
      /\ L!Intelligence(d) = 15 + memories(d) + 15 * d["ai"] + 15 * d["search"]
                             + learned(d) + lessons(d) + predictions(d) + kept(d)
  BY DEF L!Intelligence
<1> HIDE DEF kept, memories, learned, lessons, predictions
<1> QED
  BY <1>1, <1>2, <1>3, <1>4, <1>5, <1>6, <1>7, <1>8

LEMMA RevenueIntelligenceRises ==
    ASSUME ScoreConstants, NEW e, NEW d, KnownFacts(e), KnownFacts(d), NoWorse(d, e)
    PROVE  /\ L!RevenueIntelligence(e) \in Nat /\ L!RevenueIntelligence(d) \in Nat
           /\ L!RevenueIntelligence(e) <= L!RevenueIntelligence(d)
<1> DEFINE sources(x) == <<0, 8, 20>>[x["sources"] + 1]
           creators(x) == <<0, 6, 15>>[x["creators"] + 1]
<1>1. /\ {"sources", "creators", "posts", "chatters"} \subseteq L!Facts
      /\ e["sources"] \in 0 .. 2 /\ d["sources"] \in 0 .. 2
      /\ e["creators"] \in 0 .. 2 /\ d["creators"] \in 0 .. 2
      /\ e["posts"] \in 0 .. 1 /\ d["posts"] \in 0 .. 1
      /\ e["chatters"] \in 0 .. 1 /\ d["chatters"] \in 0 .. 1
  BY LevelsByName DEF L!Facts
<1>2. /\ e["sources"] <= d["sources"] /\ e["creators"] <= d["creators"]
      /\ e["posts"] <= d["posts"] /\ e["chatters"] <= d["chatters"]
  BY <1>1, Improved
<1>3. /\ sources(e) \in Nat /\ sources(d) \in Nat /\ sources(e) <= sources(d)
      /\ creators(e) \in Nat /\ creators(d) \in Nat /\ creators(e) <= creators(d)
  BY <1>1, <1>2, PointTables
<1>4. /\ L!RevenueIntelligence(e) = sources(e) + creators(e) + 15 * e["posts"] + 10 * e["chatters"]
      /\ L!RevenueIntelligence(d) = sources(d) + creators(d) + 15 * d["posts"] + 10 * d["chatters"]
  BY DEF L!RevenueIntelligence
<1> HIDE DEF sources, creators
<1> QED
  BY <1>1, <1>2, <1>3, <1>4

LEMMA TeamReadinessRises ==
    ASSUME ScoreConstants, NEW e, NEW d, KnownFacts(e), KnownFacts(d), NoWorse(d, e)
    PROVE  /\ L!TeamReadiness(e) \in Nat /\ L!TeamReadiness(d) \in Nat
           /\ L!TeamReadiness(e) <= L!TeamReadiness(d)
<1> DEFINE share(x) == L!Earned(25, L!Reliability(x), 100)
           screens(x) == <<5, 12, 20>>[x["screens"] + 1]
           steps(x) == IF L!Reliability(x) >= 80 /\ x["buttons"] = 1 THEN 15
                       ELSE IF L!Reliability(x) >= 60 THEN 9 ELSE 4
           sum(x) == share(x) + screens(x) + 15 + 10 + 15 + steps(x)
<1>1. /\ {"screens", "buttons"} \subseteq L!Facts
      /\ e["screens"] \in 0 .. 2 /\ d["screens"] \in 0 .. 2
      /\ e["buttons"] \in 0 .. 1 /\ d["buttons"] \in 0 .. 1
  BY LevelsByName DEF L!Facts
<1>2. e["screens"] <= d["screens"] /\ e["buttons"] <= d["buttons"]
  BY <1>1, Improved
<1>3. /\ L!Reliability(e) \in Nat /\ L!Reliability(d) \in Nat
      /\ L!Reliability(e) <= L!Reliability(d)
  BY ReliabilityRises
<1>4. share(e) \in Nat /\ share(d) \in Nat /\ share(e) <= share(d)
  <2>1. 25 \in Nat /\ 100 \in Nat \ {0}
    OBVIOUS
  <2> QED
    BY <1>3, <2>1, EarnedKeepsOrder
<1>5. screens(e) \in Nat /\ screens(d) \in Nat /\ screens(e) <= screens(d)
  BY <1>1, <1>2, PointTables
<1>6. steps(e) \in Nat /\ steps(d) \in Nat /\ steps(e) <= steps(d)
  BY <1>1, <1>2, <1>3
<1>7. L!TeamReadiness(e) = L!Pressed(sum(e), e) /\ L!TeamReadiness(d) = L!Pressed(sum(d), d)
  BY DEF L!TeamReadiness
<1> HIDE DEF share, screens, steps
<1>8. sum(e) \in Int /\ sum(d) \in Int /\ sum(e) <= sum(d)
  BY <1>4, <1>5, <1>6
<1> HIDE DEF sum
<1> QED
  BY <1>7, <1>8, PressureKeepsOrder

LEMMA AgencyOSRises ==
    ASSUME ScoreConstants, NEW e, NEW d, KnownFacts(e), KnownFacts(d), NoWorse(d, e)
    PROVE  /\ L!AgencyOS(e) \in Nat /\ L!AgencyOS(d) \in Nat
           /\ L!AgencyOS(e) <= L!AgencyOS(d)
<1> DEFINE checks(x) == L!Earned(20, x["checks"], 5)
           safety(x) == L!Earned(15, L!RecoverySafety(x), 100)
           reliability(x) == L!Earned(15, L!Reliability(x), 100)
           intelligence(x) == L!Earned(20, L!Intelligence(x), 100)
           visibility(x) == L!Earned(15, L!AgencyVisibility(x), 100)
           revenue(x) == L!Earned(15, L!RevenueIntelligence(x), 100)
           sum(x) == checks(x) + safety(x) + reliability(x) + intelligence(x) + visibility(x)
                     + revenue(x)
<1>1. e["checks"] \in 0 .. 5 /\ d["checks"] \in 0 .. 5 /\ "checks" \in L!Facts
  BY LevelsByName DEF L!Facts
<1>2. e["checks"] <= d["checks"] /\ e["checks"] \in Nat /\ d["checks"] \in Nat
  BY <1>1, Improved
<1>3. 15 \in Nat /\ 20 \in Nat /\ 5 \in Nat \ {0} /\ 100 \in Nat \ {0}
  OBVIOUS
<1>4. checks(e) \in Nat /\ checks(d) \in Nat /\ checks(e) <= checks(d)
  BY <1>2, <1>3, EarnedKeepsOrder
<1>5. safety(e) \in Nat /\ safety(d) \in Nat /\ safety(e) <= safety(d)
  BY <1>3, RecoverySafetyRises, EarnedKeepsOrder
<1>6. reliability(e) \in Nat /\ reliability(d) \in Nat /\ reliability(e) <= reliability(d)
  BY <1>3, ReliabilityRises, EarnedKeepsOrder
<1>7. intelligence(e) \in Nat /\ intelligence(d) \in Nat /\ intelligence(e) <= intelligence(d)
  BY <1>3, IntelligenceRises, EarnedKeepsOrder
<1>8. visibility(e) \in Nat /\ visibility(d) \in Nat /\ visibility(e) <= visibility(d)
  BY <1>3, AgencyVisibilityRises, EarnedKeepsOrder
<1>9. revenue(e) \in Nat /\ revenue(d) \in Nat /\ revenue(e) <= revenue(d)
  BY <1>3, RevenueIntelligenceRises, EarnedKeepsOrder
<1>10. L!AgencyOS(e) = L!Pressed(sum(e), e) /\ L!AgencyOS(d) = L!Pressed(sum(d), d)
  BY DEF L!AgencyOS
<1> HIDE DEF checks, safety, reliability, intelligence, visibility, revenue
<1>11. sum(e) \in Int /\ sum(d) \in Int /\ sum(e) <= sum(d)
  BY <1>4, <1>5, <1>6, <1>7, <1>8, <1>9
<1> HIDE DEF sum
<1> QED
  BY <1>10, <1>11, PressureKeepsOrder

\* What the risk asks of better evidence: a failed attempt less, a copy more.
\* A restore test that had nothing to restore is a recent one.
LEMMA RiskFalls ==
    ASSUME ScoreConstants, NEW e, NEW d, KnownFacts(e), KnownFacts(d), NoWorse(d, e)
    PROVE  L!RecoveryRisk(d) <= L!RecoveryRisk(e)
<1> DEFINE backup(x) == <<70, 30, 15, 0>>[x["backup"] + 1]
           last(x) == IF x["last"] = 0 THEN 10 ELSE 0
           failed(x) == 5 * L!Failures(x)
           copies(x) == <<25, 15, 0>>[x["copies"] + 1]
           storage(x) == IF x["storage"] = 0 THEN 10 ELSE 0
           tested(x) == <<25, 25, 20, 15, 15, 10, 0>>[x["restore"] + 1]
           restore(x) == IF x["claimed"] = 1 THEN 0 ELSE tested(x)
           untested(x) == IF x["restore"] # 1 /\ x["tested"] = 0 THEN 15 ELSE 0
           sum(x) == backup(x) + last(x) + failed(x) + copies(x) + storage(x)
                     + restore(x) + untested(x)
<1>1. /\ {"backup", "last", "attempts", "copies", "storage", "restore", "claimed", "tested"}
           \subseteq L!Facts
      /\ e["backup"] \in 0 .. 3 /\ d["backup"] \in 0 .. 3
      /\ e["last"] \in 0 .. 1 /\ d["last"] \in 0 .. 1
      /\ e["attempts"] \in 0 .. 4 /\ d["attempts"] \in 0 .. 4
      /\ e["copies"] \in 0 .. 2 /\ d["copies"] \in 0 .. 2
      /\ e["storage"] \in 0 .. 1 /\ d["storage"] \in 0 .. 1
      /\ e["restore"] \in 0 .. 6 /\ d["restore"] \in 0 .. 6
      /\ e["claimed"] \in 0 .. 1 /\ d["claimed"] \in 0 .. 1
      /\ e["tested"] \in 0 .. 1 /\ d["tested"] \in 0 .. 1
  BY LevelsByName DEF L!Facts
<1>2. /\ e["backup"] <= d["backup"] /\ e["last"] <= d["last"] /\ e["attempts"] <= d["attempts"]
      /\ e["copies"] <= d["copies"] /\ e["storage"] <= d["storage"]
      /\ e["restore"] <= d["restore"] /\ e["claimed"] <= d["claimed"]
      /\ e["tested"] <= d["tested"]
  BY <1>1, Improved
<1>3. backup(e) \in Nat /\ backup(d) \in Nat /\ backup(d) <= backup(e)
  BY <1>1, <1>2, PointTables
<1>4. copies(e) \in Nat /\ copies(d) \in Nat /\ copies(d) <= copies(e)
  BY <1>1, <1>2, PointTables
<1>5. last(e) \in Nat /\ last(d) \in Nat /\ last(d) <= last(e)
  BY <1>1, <1>2
<1>6. storage(e) \in Nat /\ storage(d) \in Nat /\ storage(d) <= storage(e)
  BY <1>1, <1>2
<1>7. failed(e) \in Nat /\ failed(d) \in Nat /\ failed(d) <= failed(e)
  BY <1>1, <1>2 DEF L!Failures
<1>8. restore(e) \in Nat /\ restore(d) \in Nat /\ restore(d) <= restore(e)
  <2>1. tested(e) \in Nat /\ tested(d) \in Nat /\ tested(d) <= tested(e)
    BY <1>1, <1>2, PointTables
  <2> HIDE DEF tested
  <2> QED
    BY <1>1, <1>2, <2>1
<1>9. e["restore"] = 1 => e["tested"] = 1
  BY DEF KnownFacts, L!Possible
<1>10. untested(e) \in Nat /\ untested(d) \in Nat /\ untested(d) <= untested(e)
  BY <1>1, <1>2, <1>9
<1>11. /\ L!RecoveryRisk(e) = L!Clamped(sum(e))
       /\ L!RecoveryRisk(d) = L!Clamped(sum(d))
  BY DEF L!RecoveryRisk
<1> HIDE DEF backup, last, failed, copies, storage, restore, untested
<1>12. sum(e) \in Int /\ sum(d) \in Int /\ sum(d) <= sum(e)
  BY <1>3, <1>4, <1>5, <1>6, <1>7, <1>8, <1>10
<1> HIDE DEF sum
<1> QED
  BY <1>11, <1>12 DEF L!Clamped

\* At most one failure and the untested copies are left of the risk.
LEMMA HealthyIsSafe ==
    ASSUME ScoreConstants, NEW e, KnownFacts(e), L!RecoveryStatus(e) = "healthy"
    PROVE  L!RecoveryRisk(e) <= 49
<1>1. /\ e["backup"] \in 0 .. 3 /\ e["last"] \in 0 .. 1 /\ e["attempts"] \in 0 .. 4
      /\ e["copies"] \in 0 .. 2 /\ e["storage"] \in 0 .. 1 /\ e["restore"] \in 0 .. 6
      /\ e["tested"] \in 0 .. 1 /\ e["offsite"] \in 0 .. 1
  BY LevelsByName
<1>2. /\ e["storage"] # 0 /\ e["backup"] = 3 /\ e["offsite"] = 1 /\ L!Failures(e) < 2
      /\ e["restore"] = 6
  <2> DEFINE weak == e["backup"] < 3 \/ e["offsite"] = 0 \/ L!Failures(e) >= 2 \/ e["restore"] = 0
  <2>1. e["storage"] # 0
    BY DEF L!RecoveryStatus
  <2>2. ~weak
    BY <2>1 DEF L!RecoveryStatus
  <2>3. e["restore"] = 6
    BY <2>1, <2>2 DEF L!RecoveryStatus, L!Restored
  <2> QED
    BY <1>1, <2>1, <2>2, <2>3 DEF L!Failures
<1>3. e["copies"] \in {1, 2}
  BY <1>1, <1>2 DEF KnownFacts, L!Possible
<1>4. <<70, 30, 15, 0>>[e["backup"] + 1] = 0 /\ <<25, 25, 20, 15, 15, 10, 0>>[e["restore"] + 1] = 0
  BY <1>2
<1>5. <<25, 15, 0>>[e["copies"] + 1] \in {15, 0}
  BY <1>3
<1>6. 5 * L!Failures(e) <= 5 /\ L!Failures(e) \in Nat
  BY <1>1, <1>2 DEF L!Failures
<1> QED
  BY <1>2, <1>4, <1>5, <1>6 DEF L!RecoveryRisk, L!Clamped

ScoreIInv ==
    /\ evidence = [f \in L!Facts |-> evidence[f]]
    /\ KnownFacts(evidence)

\* The worst and the best evidence are among the levels of each fact.
LEMMA EndsAreLevels ==
    ASSUME ScoreConstants, NEW f \in L!Facts
    PROVE  /\ L!Least(f) \in L!Levels(f) /\ \A k \in L!Levels(f) : L!Least(f) <= k
           /\ L!Most(f) \in L!Levels(f) /\ \A k \in L!Levels(f) : k <= L!Most(f)
<1>1. PICK n \in Nat : L!Levels(f) \subseteq 0 .. n /\ L!Levels(f) # {}
  <2>1. CASE f = "success"
    BY <2>1 DEF L!Levels, ScoreConstants
  <2>2. CASE f \in {"active", "known"}
    BY <2>2 DEF L!Levels, ScoreConstants
  <2>3. CASE f = "relief"
    BY <2>3 DEF L!Levels, ScoreConstants
  <2>4. CASE f \notin {"success", "active", "known", "relief"}
    BY <2>4 DEF L!Levels
  <2> QED
    BY <2>1, <2>2, <2>3, <2>4
<1>2. \E l \in L!Levels(f) : \A k \in L!Levels(f) : l <= k
  BY <1>1, HasLeast
<1>3. \E l \in L!Levels(f) : \A k \in L!Levels(f) : k <= l
  BY <1>1, HasGreatest
<1> QED
  BY <1>2, <1>3 DEF L!Least, L!Most

LEMMA ScoreInvariance ==
    ASSUME ScoreConstants
    PROVE  Spec => []ScoreIInv
<1>1. Init => ScoreIInv
  <2> SUFFICES ASSUME L!Init
               PROVE  ScoreIInv
    BY DEF Init
  <2> DEFINE worst == [f \in L!Facts |-> L!Least(f)]
             best == [f \in L!Facts |-> L!Most(f)]
  <2>1. evidence \in {worst, best}
    BY DEF L!Init
  <2>2. \A f \in L!Facts : worst[f] \in L!Levels(f) /\ best[f] \in L!Levels(f)
    BY EndsAreLevels
  <2>3. L!Possible(worst)
    <3>1. \A f \in L!Facts : 0 \in L!Levels(f) /\ L!Levels(f) \subseteq Nat => worst[f] = 0
      BY EndsAreLevels
    <3>2. \A f \in {"active", "known", "attempts", "last", "backup", "copies", "offsite", "restore",
                    "claimed", "tested", "sources", "creators"} :
             f \in L!Facts /\ 0 \in L!Levels(f) /\ L!Levels(f) \subseteq Nat
      BY DEF L!Facts, L!Levels, ScoreConstants
    <3>3. \A f \in {"active", "known", "attempts", "last", "backup", "copies", "offsite", "restore",
                    "claimed", "tested", "sources", "creators"} : worst[f] = 0
      BY <3>1, <3>2
    <3> HIDE DEF worst
    <3> QED
      BY <3>3 DEF L!Possible
  <2>4. L!Possible(best)
    <3>1. \A f \in L!Facts, n \in Nat : L!Levels(f) = 0 .. n => best[f] = n
      <4> SUFFICES ASSUME NEW f \in L!Facts, NEW n \in Nat, L!Levels(f) = 0 .. n
                   PROVE  L!Most(f) = n
        OBVIOUS
      <4>1. L!Most(f) \in 0 .. n /\ \A k \in 0 .. n : k <= L!Most(f)
        BY EndsAreLevels
      <4> QED
        BY <4>1
    <3>2. /\ {"active", "known", "last", "backup", "copies", "offsite", "restore", "tested",
              "sources", "creators"} \subseteq L!Facts
          /\ L!Levels("active") = 0 .. Domains /\ L!Levels("known") = 0 .. Domains
          /\ L!Levels("last") = 0 .. 1 /\ L!Levels("backup") = 0 .. 3 /\ L!Levels("copies") = 0 .. 2
          /\ L!Levels("restore") = 0 .. 6 /\ L!Levels("creators") = 0 .. 2
      BY DEF L!Facts, L!Levels
    <3>3. /\ best["active"] = Domains /\ best["known"] = Domains /\ best["last"] = 1
          /\ best["backup"] = 3 /\ best["copies"] = 2 /\ best["restore"] = 6 /\ best["creators"] = 2
      <4> HIDE DEF best
      <4> QED
        BY <3>1, <3>2 DEF ScoreConstants
    <3> HIDE DEF best
    <3> QED
      BY <3>3 DEF L!Possible, L!Restored, ScoreConstants
  <2> QED
    BY <2>1, <2>2, <2>3, <2>4 DEF ScoreIInv, KnownFacts
<1>2. ScoreIInv /\ [Next]_vars => ScoreIInv'
  <2> SUFFICES ASSUME ScoreIInv, [Next]_vars
               PROVE  ScoreIInv'
    OBVIOUS
  <2>1. ASSUME NEW f \in L!Facts, NEW l \in L!Levels(f), L!Learn(f, l)
        PROVE  ScoreIInv'
    BY <2>1 DEF L!Learn, ScoreIInv, KnownFacts
  <2>2. CASE UNCHANGED scores
    BY <2>2 DEF scores, ScoreIInv, KnownFacts
  <2> QED
    BY <2>1, <2>2 DEF Next, vars, scores, L!Next
<1> QED
  BY <1>1, <1>2, PTL DEF Spec

\* For every set of rates, number of areas and weight of the drift: better
\* evidence lowers no score and raises no risk, through roundings, thresholds
\* and scores made from scores, and a recovery whose status is healthy has no
\* high risk (services/live_scores.py, services/recovery.py).
THEOREM BetterEvidenceIsNeverWorse ==
    ASSUME ScoreConstants
    PROVE  Spec => ScoresAgree
<1>1. ScoreIInv => L!HealthyIsNoHighRisk
  BY HealthyIsSafe DEF ScoreIInv, L!HealthyIsNoHighRisk
<1>2. ASSUME ScoreIInv, ScoreIInv'
      PROVE  [evidence' # evidence /\ (\A f \in L!Facts : evidence'[f] >= evidence[f])
              => /\ \A i \in 1 .. 7 : L!Scores(evidence')[i] >= L!Scores(evidence)[i]
                 /\ L!RecoveryRisk(evidence') <= L!RecoveryRisk(evidence)]_scores
  <2> SUFFICES ASSUME NEW d, d = evidence', NEW e, e = evidence, NoWorse(d, e)
               PROVE  /\ \A i \in 1 .. 7 : L!Scores(d)[i] >= L!Scores(e)[i]
                      /\ L!RecoveryRisk(d) <= L!RecoveryRisk(e)
    BY DEF NoWorse
  <2>1. KnownFacts(e) /\ KnownFacts(d)
    BY <1>2 DEF ScoreIInv, KnownFacts
  <2>2. L!RecoveryRisk(d) <= L!RecoveryRisk(e)
    BY <2>1, RiskFalls
  <2>3. /\ L!RecoverySafety(e) \in Nat /\ L!RecoverySafety(d) \in Nat
        /\ L!RecoverySafety(e) <= L!RecoverySafety(d)
        /\ L!Reliability(e) \in Nat /\ L!Reliability(d) \in Nat
        /\ L!Reliability(e) <= L!Reliability(d)
        /\ L!AgencyVisibility(e) \in Nat /\ L!AgencyVisibility(d) \in Nat
        /\ L!AgencyVisibility(e) <= L!AgencyVisibility(d)
        /\ L!Intelligence(e) \in Nat /\ L!Intelligence(d) \in Nat
        /\ L!Intelligence(e) <= L!Intelligence(d)
        /\ L!TeamReadiness(e) \in Nat /\ L!TeamReadiness(d) \in Nat
        /\ L!TeamReadiness(e) <= L!TeamReadiness(d)
        /\ L!RevenueIntelligence(e) \in Nat /\ L!RevenueIntelligence(d) \in Nat
        /\ L!RevenueIntelligence(e) <= L!RevenueIntelligence(d)
        /\ L!AgencyOS(e) \in Nat /\ L!AgencyOS(d) \in Nat
        /\ L!AgencyOS(e) <= L!AgencyOS(d)
    BY <2>1, RecoverySafetyRises, ReliabilityRises, AgencyVisibilityRises, IntelligenceRises,
       TeamReadinessRises, RevenueIntelligenceRises, AgencyOSRises
  <2>4. \A i \in 1 .. 7 : L!Scores(d)[i] >= L!Scores(e)[i]
    BY <2>3 DEF L!Scores
  <2> QED
    BY <2>2, <2>4
<1> QED
  BY <1>1, <1>2, ScoreInvariance, PTL
     DEF Spec, ScoresAgree, L!ScoresAgree, L!BetterEvidenceHelps, scores, L!vars

-----------------------------------------------------------------------------
(* Reports of the command center.                                          *)

CacheRow == [report : C!Reports, left : 1 .. Ttl]

Snapshot == [percent : Int, evidence : Truths, delta : Int]

\* What the constants stand for: a truth begins with its percentage, and nothing
\* is no report, work, cached report or snapshot.
ReportConstants ==
    /\ Ttl \in Nat /\ Pressures \subseteq Nat
    /\ \A t \in Truths : t[1] \in Int
    /\ Nothing \notin C!Reports \cup C!Works \cup CacheRow \cup Snapshot

\* What a thread works on: its report is no older than the work, and its
\* percentage is that of its evidence.
SoundWork(w, pressed) ==
    /\ w \in C!Works
    /\ w.report = Nothing <=> w.at = "build"
    /\ w.at # "build" =>
         /\ w.report \in C!Reports
         /\ w.report.age <= w.elapsed
         /\ w.report.percent = w.report.evidence[1] - pressed
    /\ w.at \in {"record", "commit"} => w.kind = "refresh"

\* A refresh that nobody disturbed since it looked at the newest snapshot.
Continues(w, pressed, last) ==
    w.kind = "refresh" /\ w.at # "build" /\ last # Nothing =>
        /\ pressed = 0 => w.report.delta = w.report.percent - last.percent
        /\ w.at = "commit" => last.evidence # w.report.evidence

ReportIInv ==
    /\ truth \in Truths /\ pressure \in Pressures /\ disturbed \subseteq Threads
    /\ work = [t \in Threads |-> work[t]]
    /\ \A t \in Threads : work[t] # Nothing =>
         /\ SoundWork(work[t], pressure)
         /\ t \notin disturbed => Continues(work[t], pressure, newest)
    /\ cache # Nothing => cache \in CacheRow /\ cache.report.age + cache.left <= Ttl
    /\ newest # Nothing => /\ newest \in Snapshot
                           /\ newest.percent = newest.evidence[1] - pressure

\* A thread moves on by itself; those it does not disturb go on as they were.
LEMMA OneMoves ==
    ASSUME ReportIInv, NEW t \in Threads, NEW w, work' = [work EXCEPT ![t] = w],
           w # Nothing => SoundWork(w, pressure) /\ (t \notin disturbed' => Continues(w, pressure, newest)),
           disturbed' \subseteq Threads, disturbed \ {t} \subseteq disturbed',
           truth' = truth, pressure' = pressure, newest' = newest,
           cache' # Nothing => cache' \in CacheRow /\ cache'.report.age + cache'.left <= Ttl
    PROVE  ReportIInv'
<1>1. work' = [u \in Threads |-> work'[u]]
  BY DEF ReportIInv
<1>2. \A u \in Threads : work'[u] = IF u = t THEN w ELSE work[u]
  BY DEF ReportIInv
<1>3. \A u \in Threads : work'[u] # Nothing =>
        /\ SoundWork(work'[u], pressure)
        /\ u \notin disturbed' => Continues(work'[u], pressure, newest)
  BY <1>2 DEF ReportIInv
<1> QED
  BY <1>1, <1>3 DEF ReportIInv, CacheRow, Snapshot

LEMMA BegunSound ==
    ASSUME ReportConstants, NEW kind \in {"page", "forced", "refresh"}
    PROVE  SoundWork(C!Begun(kind), pressure) /\ Continues(C!Begun(kind), pressure, newest)
<1> DEFINE w == C!Begun(kind)
<1>1. w \in C!Works /\ w.at = "build" /\ w.report = Nothing
  BY DEF C!Begun, C!Works, ReportConstants
<1> QED
  BY <1>1 DEF SoundWork, Continues

\* What a thread holds, once it is known to be sound.
LEMMA HeldWork ==
    ASSUME ReportIInv, NEW t \in Threads, work[t] # Nothing
    PROVE  /\ work[t] \in C!Works /\ SoundWork(work[t], pressure)
           /\ work[t].at # "build" => work[t].report \in C!Reports
           /\ \A w : [work EXCEPT ![t] = w] = [u \in Threads |-> IF u = t THEN w ELSE work[u]]
BY DEF ReportIInv, SoundWork

LEMMA BuildKeeps ==
    ASSUME ReportConstants, ReportIInv, NEW t \in Threads, C!Build(t)
    PROVE  ReportIInv'
<1> DEFINE w == [work[t] EXCEPT !.at = "store", !.report = C!Report]
<1>1. /\ work[t] # Nothing /\ work[t].at = "build"
      /\ work' = [work EXCEPT ![t].at = "store", ![t].report = C!Report]
      /\ UNCHANGED <<truth, pressure, cache, newest, disturbed>>
  BY DEF C!Build
<1>2. work[t] \in C!Works
  BY <1>1, HeldWork
<1>3. work' = [work EXCEPT ![t] = w]
  BY <1>1 DEF ReportIInv
<1>4. truth[1] \in Int /\ pressure \in Int /\ truth \in Truths
  BY DEF ReportIInv, ReportConstants
<1>5. newest # Nothing => newest.percent \in Int
  BY DEF ReportIInv, Snapshot
<1>6. /\ C!Report \in C!Reports /\ C!Report.age = 0
      /\ C!Report.percent = C!Report.evidence[1] - pressure
      /\ newest # Nothing /\ pressure = 0 => C!Report.delta = C!Report.percent - newest.percent
  <2> DEFINE delta == IF newest = Nothing THEN 0 ELSE truth[1] - newest.percent
             percent == truth[1] - pressure
  <2>1. C!Report = [percent |-> percent, evidence |-> truth, age |-> 0, delta |-> delta]
    BY DEF C!Report
  <2>2. delta \in Int /\ percent \in Int /\ 0 \in 0 .. Ttl
    BY <1>4, <1>5 DEF ReportConstants
  <2>3. newest # Nothing /\ pressure = 0 => delta = percent - newest.percent
    BY <1>4, <1>5
  <2>4. percent = truth[1] - pressure
    OBVIOUS
  <2> HIDE DEF delta, percent
  <2> QED
    BY <1>4, <2>1, <2>2, <2>3, <2>4 DEF C!Reports
<1>7. C!Report # Nothing
  BY <1>6 DEF ReportConstants
<1>8. /\ w \in C!Works /\ w.at = "store" /\ w.report = C!Report /\ w.elapsed = work[t].elapsed
  BY <1>2, <1>6 DEF C!Works
<1> HIDE DEF w
<1>9. SoundWork(w, pressure) /\ Continues(w, pressure, newest)
  <2>1. w.elapsed \in Nat /\ C!Report.age <= w.elapsed
    BY <1>6, <1>8 DEF C!Works, ReportConstants
  <2> QED
    BY <1>6, <1>7, <1>8, <2>1 DEF SoundWork, Continues
<1>10. cache' # Nothing => cache' \in CacheRow /\ cache'.report.age + cache'.left <= Ttl
  BY <1>1 DEF ReportIInv
<1> QED
  BY <1>1, <1>3, <1>9, <1>10, OneMoves DEF ReportIInv

\* A report in the cache and the time it has left make up the time to live at
\* most, since the time counts from before the report was built.
LEMMA KeptSound ==
    ASSUME ReportConstants, NEW r \in C!Reports, NEW left \in Int, r.age + left <= Ttl,
           C!Kept(r, left) # Nothing
    PROVE  /\ C!Kept(r, left) \in CacheRow
           /\ C!Kept(r, left).report.age + C!Kept(r, left).left <= Ttl
<1>1. left > 0 /\ C!Kept(r, left) = [report |-> r, left |-> left]
  BY DEF C!Kept
<1>2. r.age \in Nat /\ Ttl \in Nat
  BY DEF C!Reports, ReportConstants
<1>3. left \in 1 .. Ttl
  BY <1>1, <1>2
<1> QED
  BY <1>1, <1>3 DEF CacheRow

LEMMA StoreKeeps ==
    ASSUME ReportConstants, ReportIInv, NEW t \in Threads, C!Store(t)
    PROVE  ReportIInv'
<1> DEFINE r == work[t].report
<1>1. /\ work[t] # Nothing /\ work[t].at = "store"
      /\ cache' = C!Kept(r, C!TimeLeft(work[t]))
      /\ UNCHANGED <<truth, pressure, newest>>
  BY DEF C!Store
<1>2. /\ work[t] \in C!Works /\ r \in C!Reports /\ r.age <= work[t].elapsed
      /\ r.percent = r.evidence[1] - pressure
  BY <1>1, HeldWork DEF SoundWork
<1>3. r.age \in Nat /\ work[t].elapsed \in Nat /\ C!TimeLeft(work[t]) = Ttl - work[t].elapsed
  BY <1>2 DEF C!Reports, C!Works, C!TimeLeft
<1>4. cache' # Nothing => cache' \in CacheRow /\ cache'.report.age + cache'.left <= Ttl
  <2>1. C!TimeLeft(work[t]) \in Int /\ r.age + C!TimeLeft(work[t]) <= Ttl
    BY <1>2, <1>3 DEF ReportConstants
  <2> QED
    BY <1>1, <1>2, <2>1, KeptSound
<1>5. CASE /\ work[t].kind = "refresh" /\ disturbed' = disturbed
           /\ work' = [work EXCEPT ![t] = C!Recording(@.report)]
  <2> DEFINE w == C!Recording(r)
             young == [r EXCEPT !.age = 0]
  <2>1. work' = [work EXCEPT ![t] = w]
    BY <1>5 DEF ReportIInv
  <2>2. /\ young \in C!Reports /\ young.age = 0 /\ young.percent = r.percent
        /\ young.evidence = r.evidence /\ young.delta = r.delta
    BY <1>2 DEF C!Reports, ReportConstants
  <2>3. young # Nothing
    BY <2>2 DEF ReportConstants
  <2>4. w = [kind |-> "refresh", at |-> "record", elapsed |-> 0, report |-> young]
    BY DEF C!Recording
  <2> HIDE DEF young
  <2>5. w \in C!Works /\ w.report = young /\ w.kind = "refresh" /\ w.at = "record" /\ w.elapsed = 0
    BY <2>2, <2>4 DEF C!Works, ReportConstants
  <2> HIDE DEF w
  <2>6. SoundWork(w, pressure)
    BY <1>2, <2>2, <2>3, <2>5 DEF SoundWork
  <2>7. t \notin disturbed' => Continues(w, pressure, newest)
    <3>1. t \notin disturbed => Continues(work[t], pressure, newest)
      BY <1>1 DEF ReportIInv
    <3> QED
      BY <1>1, <1>5, <2>2, <2>5, <3>1 DEF Continues
  <2> QED
    BY <1>1, <1>4, <1>5, <2>1, <2>6, <2>7, OneMoves DEF ReportIInv
<1>6. CASE work' = [work EXCEPT ![t] = C!Refreshed] /\ disturbed' = disturbed \ {t}
  <2>1. SoundWork(C!Refreshed, pressure) /\ Continues(C!Refreshed, pressure, newest)
    BY BegunSound DEF C!Refreshed
  <2> QED
    BY <1>1, <1>4, <1>6, <2>1, OneMoves DEF ReportIInv
<1>7. CASE work' = [work EXCEPT ![t] = Nothing] /\ disturbed' = disturbed
  BY <1>1, <1>4, <1>7, OneMoves DEF ReportIInv
<1> QED
  BY <1>5, <1>6, <1>7 DEF C!Store

LEMMA InsertKeeps ==
    ASSUME ReportConstants, ReportIInv, NEW t \in Threads, C!Insert(t)
    PROVE  ReportIInv'
<1> DEFINE r == work[t].report
           w == [work[t] EXCEPT !.at = "commit"]
<1>1. /\ work[t] # Nothing /\ work[t].at = "record"
      /\ work' = [work EXCEPT ![t] = IF C!Moved(@.report) THEN [@ EXCEPT !.at = "commit"] ELSE Nothing]
      /\ UNCHANGED <<truth, pressure, cache, newest, disturbed>>
  BY DEF C!Insert
<1>2. /\ work[t] \in C!Works /\ r \in C!Reports /\ r # Nothing /\ r.age <= work[t].elapsed
      /\ work[t].kind = "refresh" /\ r.percent = r.evidence[1] - pressure
  BY <1>1, HeldWork DEF SoundWork
<1>3. cache' # Nothing => cache' \in CacheRow /\ cache'.report.age + cache'.left <= Ttl
  BY <1>1 DEF ReportIInv
<1>4. CASE ~C!Moved(r)
  <2>1. work' = [work EXCEPT ![t] = Nothing]
    BY <1>1, <1>4 DEF ReportIInv
  <2> QED
    BY <1>1, <1>3, <2>1, OneMoves DEF ReportIInv
<1>5. CASE C!Moved(r)
  <2>1. work' = [work EXCEPT ![t] = w]
    BY <1>1, <1>5 DEF ReportIInv
  <2>2. /\ w \in C!Works /\ w.at = "commit" /\ w.report = r /\ w.kind = "refresh"
        /\ w.elapsed = work[t].elapsed
    BY <1>2 DEF C!Works
  <2>3. newest # Nothing => newest.evidence # r.evidence
    <3> SUFFICES ASSUME newest # Nothing, newest.evidence = r.evidence
                 PROVE  FALSE
      OBVIOUS
    <3>1. newest.percent = r.percent /\ r.percent \in Int
      BY <1>2 DEF ReportIInv, C!Reports
    <3>2. newest.percent - r.percent \in -1 .. 1
      BY <3>1
    <3> QED
      BY <1>5, <3>2 DEF C!Moved
  <2> HIDE DEF w, r
  <2>4. SoundWork(w, pressure)
    BY <1>2, <2>2 DEF SoundWork
  <2>5. t \notin disturbed' => Continues(w, pressure, newest)
    <3>1. t \notin disturbed => Continues(work[t], pressure, newest)
      BY <1>1 DEF ReportIInv
    <3> QED
      BY <1>1, <1>2, <2>2, <2>3, <3>1 DEF Continues, r
  <2> QED
    BY <1>1, <1>3, <2>1, <2>4, <2>5, OneMoves DEF ReportIInv
<1> QED
  BY <1>4, <1>5

LEMMA CommitKeeps ==
    ASSUME ReportConstants, ReportIInv, NEW t \in Threads, C!Commit(t)
    PROVE  /\ ReportIInv'
           /\ \A u \in Threads : work'[u] = IF u = t THEN Nothing ELSE work[u]
           /\ newest'.evidence = work[t].report.evidence
           /\ newest'.percent = work[t].report.percent
           /\ newest'.delta = work[t].report.delta
<1> DEFINE r == work[t].report
<1>1. /\ work[t] # Nothing /\ work[t].at = "commit"
      /\ newest' = [percent |-> r.percent, evidence |-> r.evidence, delta |-> r.delta]
      /\ work' = [work EXCEPT ![t] = Nothing]
      /\ disturbed' = disturbed \union (Threads \ {t})
      /\ UNCHANGED <<truth, pressure, cache>>
  BY DEF C!Commit
<1>2. r \in C!Reports /\ r.percent = r.evidence[1] - pressure
  BY <1>1, HeldWork DEF SoundWork
<1> HIDE DEF r
<1>3. newest' \in Snapshot /\ newest'.percent = newest'.evidence[1] - pressure
      /\ newest'.evidence = r.evidence /\ newest'.percent = r.percent /\ newest'.delta = r.delta
  BY <1>1, <1>2 DEF Snapshot, C!Reports
<1>4. \A u \in Threads : work'[u] = IF u = t THEN Nothing ELSE work[u]
  BY <1>1 DEF ReportIInv
<1>5. work' = [u \in Threads |-> work'[u]]
  BY <1>1 DEF ReportIInv
<1>6. \A u \in Threads : work'[u] # Nothing => SoundWork(work'[u], pressure) /\ u \in disturbed'
  BY <1>1, <1>4 DEF ReportIInv
<1>7. disturbed' \subseteq Threads
  BY <1>1 DEF ReportIInv
<1>8. ReportIInv'
  BY <1>1, <1>3, <1>5, <1>6, <1>7 DEF ReportIInv, CacheRow, Snapshot
<1> QED
  BY <1>3, <1>4, <1>8 DEF r

\* Reports and the work on them grow old together.
LEMMA TimePasses ==
    ASSUME ReportConstants, NEW w, SoundWork(w, pressure), w.at \notin {"record", "commit"}
    PROVE  LET older == [w EXCEPT !.elapsed = C!Later(@), !.report = C!Aged(@)]
           IN  /\ SoundWork(older, pressure)
               /\ Continues(w, pressure, newest) => Continues(older, pressure, newest)
<1> DEFINE elapsed == C!Later(w.elapsed)
           report == C!Aged(w.report)
           older == [w EXCEPT !.elapsed = elapsed, !.report = report]
<1>1. /\ w \in C!Works /\ w.elapsed \in 0 .. Ttl /\ Ttl \in Nat
      /\ w.at # "build" => w.report \in C!Reports /\ w.report.age \in 0 .. Ttl
  BY DEF SoundWork, C!Works, C!Reports, ReportConstants
<1>2. elapsed \in 0 .. Ttl /\ \A age \in 0 .. Ttl : C!Later(age) \in 0 .. Ttl
  BY <1>1 DEF C!Later
<1>3. \A age \in 0 .. Ttl : age <= w.elapsed => C!Later(age) <= elapsed
  BY <1>1 DEF C!Later
<1>4. w.at = "build" => report = Nothing
  BY DEF SoundWork, C!Aged
<1>5. w.at # "build" =>
        /\ report \in C!Reports /\ report # Nothing /\ report.age <= elapsed
        /\ report.percent = w.report.percent /\ report.evidence = w.report.evidence
        /\ report.delta = w.report.delta
  <2> SUFFICES ASSUME w.at # "build"
               PROVE  /\ report \in C!Reports /\ report # Nothing /\ report.age <= elapsed
                      /\ report.percent = w.report.percent /\ report.evidence = w.report.evidence
                      /\ report.delta = w.report.delta
    OBVIOUS
  <2> DEFINE age == C!Later(w.report.age)
  <2>1. w.report \in C!Reports /\ w.report # Nothing /\ w.report.age <= w.elapsed
    BY DEF SoundWork
  <2>2. report = [w.report EXCEPT !.age = age]
    BY <2>1 DEF C!Aged
  <2>3. age \in 0 .. Ttl /\ age <= elapsed
    BY <1>1, <1>2, <1>3, <2>1
  <2> HIDE DEF age, report, elapsed
  <2>4. /\ report \in C!Reports /\ report.age = age
        /\ report.percent = w.report.percent /\ report.evidence = w.report.evidence
        /\ report.delta = w.report.delta
    BY <2>1, <2>2, <2>3 DEF C!Reports
  <2>5. report # Nothing
    BY <2>4 DEF ReportConstants
  <2> QED
    BY <2>3, <2>4, <2>5
<1> HIDE DEF elapsed, report
<1>6. report \in C!Reports \cup {Nothing}
  BY <1>4, <1>5
<1>7. /\ older \in C!Works /\ older.kind = w.kind /\ older.at = w.at
      /\ older.elapsed = elapsed /\ older.report = report
  BY <1>1, <1>2, <1>6 DEF C!Works
<1> HIDE DEF older
<1>8. SoundWork(older, pressure)
  BY <1>4, <1>5, <1>7 DEF SoundWork
<1>9. Continues(w, pressure, newest) => Continues(older, pressure, newest)
  BY <1>5, <1>7 DEF Continues
<1> QED
  BY <1>8, <1>9 DEF older, elapsed, report

LEMMA TickKeeps ==
    ASSUME ReportConstants, ReportIInv, C!Tick
    PROVE  ReportIInv'
<1>1. /\ cache' = IF cache = Nothing THEN cache ELSE C!Kept(C!Aged(cache.report), cache.left - 1)
      /\ work' = [t \in Threads |->
                    IF work[t] = Nothing \/ work[t].at \in {"record", "commit"} THEN work[t]
                    ELSE [work[t] EXCEPT !.elapsed = C!Later(@), !.report = C!Aged(@)]]
      /\ UNCHANGED <<truth, pressure, newest, disturbed>>
  BY DEF C!Tick
<1>2. cache' # Nothing => cache' \in CacheRow /\ cache'.report.age + cache'.left <= Ttl
  <2> SUFFICES ASSUME cache # Nothing, cache' # Nothing
               PROVE  cache' \in CacheRow /\ cache'.report.age + cache'.left <= Ttl
    BY <1>1
  <2> DEFINE r == cache.report
             aged == C!Aged(r)
  <2>1. r \in C!Reports /\ cache.left \in 1 .. Ttl /\ r.age + cache.left <= Ttl /\ Ttl \in Nat
    BY DEF ReportIInv, CacheRow, ReportConstants
  <2>2. r # Nothing /\ r.age \in 0 .. Ttl
    BY <2>1 DEF ReportConstants, C!Reports
  <2>3. C!Later(r.age) \in 0 .. Ttl /\ C!Later(r.age) <= r.age + 1
    BY <2>1, <2>2 DEF C!Later
  <2>4. aged \in C!Reports /\ aged.age = C!Later(r.age)
    BY <2>1, <2>2, <2>3 DEF C!Aged, C!Reports
  <2> HIDE DEF aged, r
  <2>5. cache.left - 1 \in Int /\ aged.age + (cache.left - 1) <= Ttl
    BY <2>1, <2>2, <2>3, <2>4
  <2>6. cache' = C!Kept(aged, cache.left - 1)
    BY <1>1 DEF aged, r
  <2> QED
    BY <2>4, <2>5, <2>6, KeptSound
<1>3. ASSUME NEW t \in Threads, work'[t] # Nothing
      PROVE  /\ SoundWork(work'[t], pressure)
             /\ t \notin disturbed => Continues(work'[t], pressure, newest)
  <2>1. work[t] # Nothing
    BY <1>1, <1>3
  <2>2. /\ SoundWork(work[t], pressure)
        /\ t \notin disturbed => Continues(work[t], pressure, newest)
    BY <2>1 DEF ReportIInv
  <2>3. CASE work[t].at \in {"record", "commit"}
    BY <1>1, <2>2, <2>3
  <2>4. CASE work[t].at \notin {"record", "commit"}
    <3>1. work'[t] = [work[t] EXCEPT !.elapsed = C!Later(@), !.report = C!Aged(@)]
      BY <1>1, <2>1, <2>4
    <3> QED
      BY <2>2, <2>4, <3>1, TimePasses
  <2> QED
    BY <2>3, <2>4
<1>4. work' = [t \in Threads |-> work'[t]]
  BY <1>1
<1> QED
  BY <1>1, <1>2, <1>3, <1>4 DEF ReportIInv, CacheRow, Snapshot

LEMMA ReportInvariance ==
    ASSUME ReportConstants
    PROVE  Spec => []ReportIInv
<1>1. Init => ReportIInv
  BY DEF Init, C!Init, ReportIInv
<1>2. ReportIInv /\ [Next]_vars => ReportIInv'
  <2> SUFFICES ASSUME ReportIInv, [Next]_vars
               PROVE  ReportIInv'
    OBVIOUS
  <2>1. ASSUME NEW t \in Threads, C!Open(t) \/ C!Force(t)
        PROVE  ReportIInv'
    <3>1. PICK kind \in {"page", "forced", "refresh"} :
            /\ work' = [work EXCEPT ![t] = C!Begun(kind)]
            /\ UNCHANGED <<truth, pressure, cache, newest, disturbed>>
      BY <2>1 DEF C!Open, C!Force
    <3>2. SoundWork(C!Begun(kind), pressure) /\ Continues(C!Begun(kind), pressure, newest)
      BY BegunSound
    <3> QED
      BY <3>1, <3>2, OneMoves DEF ReportIInv
  <2>2. ASSUME NEW t \in Threads, C!Build(t) \/ C!Store(t) \/ C!Insert(t) \/ C!Commit(t)
        PROVE  ReportIInv'
    BY <2>2, BuildKeeps, StoreKeeps, InsertKeeps, CommitKeeps
  <2>3. CASE C!Change
    BY <2>3 DEF C!Change, ReportIInv, CacheRow, Snapshot
  <2>4. CASE C!Tick
    BY <2>4, TickKeeps
  <2>5. CASE UNCHANGED reports
    BY <2>5 DEF reports, ReportIInv, CacheRow, Snapshot
  <2> QED
    BY <2>1, <2>2, <2>3, <2>4, <2>5 DEF Next, vars, reports, C!Next
<1> QED
  BY <1>1, <1>2, PTL DEF Spec

\* Only a commit ends the work of a thread that was about to commit.
LEMMA OnlyCommits ==
    ASSUME ReportIInv, C!Next, NEW t \in Threads, work[t] # Nothing, work[t].at = "commit",
           work'[t] = Nothing
    PROVE  C!Commit(t)
<1>1. ASSUME NEW u \in Threads,
             C!Open(u) \/ C!Force(u) \/ C!Build(u) \/ C!Store(u) \/ C!Insert(u) \/ C!Commit(u)
      PROVE  C!Commit(t)
  <2>1. u = t
    <3>1. CASE C!Build(u)
      BY <3>1 DEF C!Build, ReportIInv
    <3>2. CASE C!Store(u)
      BY <3>2 DEF C!Store, ReportIInv
    <3>3. CASE C!Open(u) \/ C!Force(u) \/ C!Insert(u) \/ C!Commit(u)
      BY <3>3 DEF C!Open, C!Force, C!Insert, C!Commit, ReportIInv
    <3> QED
      BY <1>1, <3>1, <3>2, <3>3
  <2> QED
    BY <1>1, <2>1 DEF C!Open, C!Force, C!Build, C!Store, C!Insert
<1>2. CASE C!Change
  BY <1>2 DEF C!Change
<1>3. CASE C!Tick
  BY <1>3 DEF C!Tick
<1> QED
  BY <1>1, <1>2, <1>3 DEF C!Next

\* Whichever threads overlap, the cache serves facts younger than the time to
\* live, and a refresh that no other one disturbs records something new, with
\* the movement from the snapshot before it (services/live_scores.py).
THEOREM ReportsStayRecent ==
    ASSUME ReportConstants
    PROVE  Spec => ReportsAreRecent
<1>1. ReportIInv => C!CacheIsRecent
  <2> SUFFICES ASSUME ReportIInv, cache # Nothing
               PROVE  cache.report.age < Ttl
    BY DEF C!CacheIsRecent
  <2>1. cache.report.age + cache.left <= Ttl /\ cache.left \in 1 .. Ttl /\ cache.report \in C!Reports
    BY DEF ReportIInv, CacheRow
  <2>2. cache.report.age \in Nat /\ Ttl \in Nat
    BY <2>1 DEF C!Reports, ReportConstants
  <2> QED
    BY <2>1, <2>2
<1>2. ASSUME ReportIInv, [Next]_vars
      PROVE  [\A t \in Threads \ disturbed :
                 work[t] # Nothing /\ work[t].at = "commit" /\ work'[t] = Nothing /\ newest # Nothing
                 => /\ newest'.evidence # newest.evidence
                    /\ pressure = 0 => newest'.delta = newest'.percent - newest.percent]_reports
  <2>1. CASE C!Next
    <3> SUFFICES ASSUME NEW t \in Threads \ disturbed, work[t] # Nothing, work[t].at = "commit",
                        work'[t] = Nothing, newest # Nothing
                 PROVE  /\ newest'.evidence # newest.evidence
                        /\ pressure = 0 => newest'.delta = newest'.percent - newest.percent
      OBVIOUS
    <3>1. C!Commit(t)
      BY <1>2, <2>1, OnlyCommits
    <3>2. Continues(work[t], pressure, newest) /\ SoundWork(work[t], pressure)
      BY <1>2 DEF ReportIInv
    <3>3. work[t].kind = "refresh"
      BY <3>2 DEF SoundWork
    <3>4. /\ newest'.evidence = work[t].report.evidence
          /\ newest'.percent = work[t].report.percent
          /\ newest'.delta = work[t].report.delta
      BY <1>2, <3>1, CommitKeeps
    <3> QED
      BY <3>2, <3>3, <3>4 DEF Continues
  <2>2. CASE UNCHANGED reports
    BY <2>2
  <2> QED
    BY <1>2, <2>1, <2>2 DEF Next, vars, reports
<1> QED
  BY <1>1, <1>2, ReportInvariance, PTL
     DEF Spec, ReportsAreRecent, C!ReportsAreRecent, C!MovementIsReal, reports, C!vars

-----------------------------------------------------------------------------
(* The pages.                                                              *)

\* A keyboard whose every button names a page.
Fits(k) ==
    /\ k.buttons \subseteq B!page_names
    /\ k.back \in B!page_names \cup {B!NoBack}

LEMMA FacesFit ==
    /\ \A p \in DOMAIN B!screens : \A k \in B!screens[p] : Fits(k)
    /\ \A p \in DOMAIN B!started_pages : \A k \in B!started_pages[p] : Fits(k)
    /\ \A r \in B!Roles : \A k \in B!render_main_menu(r) : Fits(k)
    /\ \A k \in B!placeholder : Fits(k)
    /\ Fits(B!NoButtons)
    /\ \A p \in B!page_names : \A k \in B!render_callback_error_page(p) : Fits(k)
<1>1. \A k \in B!keyboards : k.buttons \cup {k.back} \subseteq B!page_names
  BY DEF B!page_names
<1>2. \A k \in B!keyboards : Fits(k)
  BY <1>1 DEF Fits
<1>3. \A p \in DOMAIN B!screens : B!screens[p] \subseteq B!keyboards
  BY DEF B!keyboards
<1>4. \A p \in DOMAIN B!started_pages : B!started_pages[p] \subseteq B!keyboards
  BY DEF B!keyboards
<1>5. \A r \in B!Roles : B!render_main_menu(r) \subseteq B!keyboards
  BY DEF B!keyboards
<1>6. {"menu", "reliability"} \subseteq B!page_names
  BY DEF B!page_names
<1>7. \A k \in B!placeholder : Fits(k)
  BY <1>6 DEF B!placeholder, B!page_menu, B!Keys, Fits
<1>8. Fits(B!NoButtons)
  BY DEF B!NoButtons, Fits
<1>9. \A p \in B!page_names : \A k \in B!render_callback_error_page(p) : Fits(k)
  BY <1>6 DEF B!render_callback_error_page, Fits
<1> QED
  BY <1>2, <1>3, <1>4, <1>5, <1>7, <1>8, <1>9

\* Where a press of a known page ends.
LEMMA LandsOnPages ==
    ASSUME NEW b \in B!page_names
    PROVE  B!Lands(B!Normal(b)) \subseteq B!page_names
<1>1. B!Normal(b) \in B!page_names
  BY DEF B!Normal, B!page_names
<1>2. \A p \in DOMAIN B!operations : B!operations[p] \subseteq B!page_names
  BY DEF B!page_names
<1>3. {r.list : r \in B!record_lists} \subseteq B!page_names
  BY DEF B!page_names
<1> DEFINE q == B!Normal(b)
<1>4. B!Lands(q) \subseteq B!page_names
  <2>1. q \in B!page_names
    BY <1>1
  <2> HIDE DEF q
  <2> QED
    BY <2>1, <1>2, <1>3 DEF B!Lands
<1> QED
  BY <1>4

\* What a step may put up.
LEMMA ShownFits ==
    ASSUME B!TypeOK, NEW p \in B!page_names, NEW faces, \A k \in faces : Fits(k),
           NEW how \in B!Fates, B!Show(p, faces, how)
    PROVE  place' \in B!page_names /\ Fits(keyboard') /\ fate' \in B!Fates
  BY DEF B!Show

LEMMA HomeFits ==
    ASSUME B!TypeOK, NEW how \in B!Fates, B!ShowHome(how)
    PROVE  place' \in B!page_names /\ Fits(keyboard') /\ fate' \in B!Fates
<1>1. "menu" \in B!page_names /\ reader \in B!Roles
  BY DEF B!page_names, B!TypeOK
<1>2. B!Show("menu", B!render_main_menu(reader), how)
  BY DEF B!ShowHome
<1> QED
  BY <1>1, <1>2, FacesFit, ShownFits

LEMMA PressFits ==
    ASSUME B!TypeOK, NEW b \in B!page_names, B!navigate(b)
    PROVE  place' \in B!page_names /\ Fits(keyboard') /\ fate' \in B!Fates
<1>0. {"screen", "home", "placeholder", "working", "error"} = B!Fates
  BY DEF B!Fates
<1>1. CASE B!stale_press
  BY <1>0, <1>1, HomeFits DEF B!stale_press
<1>2. CASE B!keep(b)
  <2>1. CASE UNCHANGED <<place, keyboard, fate>>
    BY <2>1 DEF B!TypeOK, Fits
  <2>2. CASE B!Show(b, {B!NoButtons}, "working")
    BY <1>0, <2>2, FacesFit, ShownFits
  <2> QED
    BY <1>2, <2>1, <2>2 DEF B!keep
<1>3. CASE B!handle_here(b)
  <2>1. CASE B!ShowHome("screen")
    BY <1>0, <2>1, HomeFits
  <2>2. CASE b \in DOMAIN B!started_pages /\ B!Show(b, B!started_pages[b], "screen")
    BY <1>0, <2>2, FacesFit, ShownFits
  <2> QED
    BY <1>3, <2>1, <2>2 DEF B!handle_here
<1>4. CASE B!screen_for_page(b)
  <2>1. PICK p \in B!Lands(B!Normal(b)) :
          \/ B!ShowHome("screen") \/ B!ShowHome("home")
          \/ p \in DOMAIN B!screens /\ B!Show(p, B!screens[p], "screen")
          \/ B!Show(p, B!placeholder, "placeholder")
    BY <1>4 DEF B!screen_for_page
  <2>2. p \in B!page_names
    BY LandsOnPages
  <2>3. CASE B!ShowHome("screen") \/ B!ShowHome("home")
    BY <1>0, <2>3, HomeFits
  <2>4. CASE p \in DOMAIN B!screens /\ B!Show(p, B!screens[p], "screen")
    BY <1>0, <2>2, <2>4, FacesFit, ShownFits
  <2>5. CASE B!Show(p, B!placeholder, "placeholder")
    BY <1>0, <2>2, <2>5, FacesFit, ShownFits
  <2> QED
    BY <2>1, <2>3, <2>4, <2>5
<1> QED
  BY <1>1, <1>2, <1>3, <1>4 DEF B!navigate

\* A reader is always on a page, and every button of the message names one.
THEOREM PagesTyped == Spec => []B!TypeOK
<1>1. Init => B!TypeOK
  <2> SUFFICES ASSUME Init
               PROVE  B!TypeOK
    OBVIOUS
  <2>1. B!Init
    BY DEF Init
  <2>2. Fits(keyboard)
    BY <2>1, FacesFit DEF B!Init
  <2>3. place \in B!page_names /\ fate \in B!Fates /\ leaving \in BOOLEAN
    BY <2>1 DEF B!Init, B!page_names, B!Fates
  <2> QED
    BY <2>1, <2>2, <2>3 DEF B!Init, Fits, B!TypeOK
<1>2. B!TypeOK /\ [Next]_vars => B!TypeOK'
  <2> SUFFICES ASSUME B!TypeOK, [Next]_vars
               PROVE  B!TypeOK'
    OBVIOUS
  <2>1. reader \in B!Roles /\ place \in B!page_names /\ Fits(keyboard) /\ fate \in B!Fates
        /\ leaving \in BOOLEAN
    BY DEF B!TypeOK, Fits
  <2>2. CASE B!Press
    <3>1. PICK b \in keyboard.buttons : B!navigate(b)
      BY <2>2 DEF B!Press
    <3>2. b \in B!page_names
      BY <2>1 DEF Fits
    <3>3. place' \in B!page_names /\ Fits(keyboard') /\ fate' \in B!Fates
      BY <3>1, <3>2, PressFits
    <3> QED
      BY <2>1, <2>2, <3>3 DEF B!Press, B!TypeOK, Fits
  <2>3. CASE B!Back
    <3>1. keyboard.back \in B!page_names
      BY <2>1, <2>3 DEF B!Back, Fits
    <3>2. place' \in B!page_names /\ Fits(keyboard') /\ fate' \in B!Fates
      BY <2>3, <3>1, PressFits DEF B!Back
    <3> QED
      BY <2>1, <2>3, <3>2 DEF B!Back, B!TypeOK, Fits
  <2>4. CASE B!callback_failure
    <3>1. PICK b \in keyboard.buttons : B!Show(b, B!render_callback_error_page(b), "error")
      BY <2>4 DEF B!callback_failure
    <3>2. b \in B!page_names /\ "error" \in B!Fates
      BY <2>1 DEF Fits, B!Fates
    <3>3. place' \in B!page_names /\ Fits(keyboard') /\ fate' \in B!Fates
      BY <3>1, <3>2, FacesFit, ShownFits
    <3> QED
      BY <2>1, <2>4, <3>3 DEF B!callback_failure, B!TypeOK, Fits
  <2>5. CASE B!start
    <3>1. place' \in B!page_names /\ Fits(keyboard') /\ fate' \in B!Fates
      BY <2>5, HomeFits DEF B!start, B!Fates
    <3> QED
      BY <2>1, <2>5, <3>1 DEF B!start, B!TypeOK, Fits
  <2>6. CASE B!Leave
    BY <2>1, <2>6 DEF B!Leave, B!TypeOK, Fits
  <2>7. CASE UNCHANGED browsing
    BY <2>1, <2>7 DEF browsing, B!TypeOK, Fits
  <2> QED
    BY <2>2, <2>3, <2>4, <2>5, <2>6, <2>7 DEF Next, vars, browsing, B!Next
<1> QED
  BY <1>1, <1>2, PTL DEF Spec

-----------------------------------------------------------------------------
(* The queue of work.                                                      *)

\* What the constants stand for: two bounds.
WorkConstants == MaxWork \in Nat /\ MaxActs \in Nat

\* Completed work has its date.
GoodWork(row) == row \in O!Work /\ (row.status = "completed" => row.done)

\* What may become of the row of some work in one step.
GrewFrom(new, old) ==
    /\ GoodWork(new)
    /\ new.source = old.source /\ new.priority = old.priority
    /\ old.done => new.done

\* Every alert and every result has its work in the queue, and no more
\* predictions were made of any than there were acts.
WorkIInv ==
    /\ O!TypeOK
    /\ \A w \in DOMAIN queue : GoodWork(queue[w])
    /\ \A i \in DOMAIN results : results[i].work \in DOMAIN queue
    /\ \A w \in O!Works : predicted[w] <= acts
    /\ O!ResultsAreRemembered /\ O!AlertsAreWhole /\ O!EndsAreDated

\* What every step does to the queue.
QueueKept ==
    /\ queue' \in Seq(O!Work) /\ Len(queue') <= MaxWork
    /\ \A w \in DOMAIN queue' : GoodWork(queue'[w])
    /\ \A w \in DOMAIN queue : w \in DOMAIN queue' /\ GrewFrom(queue'[w], queue[w])

LEMMA QueueUntouched ==
    ASSUME WorkIInv, queue' = queue
    PROVE  QueueKept
BY DEF WorkIInv, QueueKept, GrewFrom, O!TypeOK

\* Work begins with somebody's name or up for review.
LEMMA WorkBegins ==
    ASSUME WorkConstants, WorkIInv, NEW source \in {"manual", "creator", "own_post"},
           NEW p \in Priorities, NEW c \in Chatters \cup {NoChatter},
           Len(queue) < MaxWork, queue' = Append(queue, O!Begun(source, p, c))
    PROVE  /\ QueueKept
           /\ Len(queue) \in Nat /\ Len(queue') = Len(queue) + 1
           /\ DOMAIN queue = 1 .. Len(queue) /\ DOMAIN queue' = 1 .. Len(queue) + 1
           /\ \A w \in DOMAIN queue : queue'[w] = queue[w]
           /\ queue'[Len(queue) + 1] = O!Begun(source, p, c)
<1> DEFINE row == O!Begun(source, p, c)
<1>1. row \in O!Work /\ row.status # "completed"
  BY DEF O!Begun, O!Work, O!Statuses
<1>2. /\ queue \in Seq(O!Work) /\ Len(queue) \in Nat /\ DOMAIN queue = 1 .. Len(queue)
      /\ \A w \in DOMAIN queue : GoodWork(queue[w])
  BY DEF WorkIInv, O!TypeOK
<1> HIDE DEF row
<1>3. queue' = Append(queue, row)
  BY DEF row
<1>4. /\ queue' \in Seq(O!Work) /\ Len(queue') = Len(queue) + 1
      /\ \A w \in DOMAIN queue : queue'[w] = queue[w]
      /\ queue'[Len(queue) + 1] = row /\ DOMAIN queue' = 1 .. Len(queue) + 1
  BY <1>1, <1>2, <1>3
<1>5. GoodWork(row)
  BY <1>1 DEF GoodWork
<1>6. \A w \in DOMAIN queue' : GoodWork(queue'[w])
  BY <1>2, <1>4, <1>5
<1>7. Len(queue') <= MaxWork
  BY <1>2, <1>4 DEF WorkConstants
<1>8. QueueKept
  BY <1>2, <1>4, <1>6, <1>7 DEF QueueKept, GrewFrom
<1> QED
  BY <1>2, <1>4, <1>8 DEF row

LEMMA OneWorkChanges ==
    ASSUME WorkIInv, NEW w \in DOMAIN queue, NEW row, GrewFrom(row, queue[w]),
           queue' = [queue EXCEPT ![w] = row]
    PROVE  QueueKept
<1>1. /\ queue \in Seq(O!Work) /\ Len(queue) \in Nat /\ DOMAIN queue = 1 .. Len(queue)
      /\ Len(queue) <= MaxWork
      /\ \A v \in DOMAIN queue : GoodWork(queue[v])
  BY DEF WorkIInv, O!TypeOK
<1>2. row \in O!Work /\ GoodWork(row)
  BY DEF GrewFrom, GoodWork
<1>3. queue' \in Seq(O!Work) /\ Len(queue') = Len(queue) /\ DOMAIN queue' = DOMAIN queue
  BY <1>1, <1>2
<1>4. queue'[w] = row /\ \A v \in DOMAIN queue \ {w} : queue'[v] = queue[v]
  BY <1>1
<1> QED
  BY <1>1, <1>2, <1>3, <1>4 DEF QueueKept, GrewFrom

\* Scores and results, assignments and statuses by hand.
LEMMA RowsFollow ==
    ASSUME NEW row, GoodWork(row)
    PROVE  /\ GrewFrom(O!Scored(row), row)
           /\ \A s : GrewFrom(O!Reported(row, s), row)
           /\ \A c \in Chatters : GrewFrom([row EXCEPT !.assignee = c, !.status = "assigned"], row)
           /\ \A s \in O!Statuses :
                GrewFrom([row EXCEPT !.status = s, !.done = @ \/ s = "completed"], row)
<1>1. row \in O!Work /\ (row.status = "completed" => row.done)
  BY DEF GoodWork
<1>2. GrewFrom(O!Scored(row), row)
  BY <1>1 DEF O!Scored, GrewFrom, GoodWork, O!Work, O!Statuses
<1>3. \A s : GrewFrom(O!Reported(row, s), row)
  BY <1>1 DEF O!Reported, GrewFrom, GoodWork, O!Work, O!Statuses
<1>4. \A c \in Chatters : GrewFrom([row EXCEPT !.assignee = c, !.status = "assigned"], row)
  BY <1>1 DEF GrewFrom, GoodWork, O!Work, O!Statuses
<1>5. \A s \in O!Statuses :
         GrewFrom([row EXCEPT !.status = s, !.done = @ \/ s = "completed"], row)
  BY <1>1 DEF GrewFrom, GoodWork, O!Work
<1> QED
  BY <1>2, <1>3, <1>4, <1>5

LEMMA AllAreScored ==
    ASSUME WorkIInv, O!ScoreAll
    PROVE  QueueKept
<1>1. /\ queue \in Seq(O!Work) /\ Len(queue) \in Nat /\ DOMAIN queue = 1 .. Len(queue)
      /\ Len(queue) <= MaxWork
      /\ \A v \in DOMAIN queue : GoodWork(queue[v])
  BY DEF WorkIInv, O!TypeOK
<1>2. /\ DOMAIN queue' = 1 .. Len(queue)
      /\ \A w \in 1 .. Len(queue) : queue'[w] = queue[w] \/ queue'[w] = O!Scored(queue[w])
      /\ queue' = [w \in 1 .. Len(queue) |-> queue'[w]]
  BY <1>1 DEF O!ScoreAll
<1>3. ASSUME NEW w \in 1 .. Len(queue)
      PROVE  GrewFrom(queue'[w], queue[w])
  <2>1. GoodWork(queue[w])
    BY <1>1
  <2>2. GrewFrom(queue[w], queue[w]) /\ GrewFrom(O!Scored(queue[w]), queue[w])
    BY <2>1, RowsFollow DEF GrewFrom
  <2> QED
    BY <1>2, <2>2
<1>4. \A w \in 1 .. Len(queue) : queue'[w] \in O!Work /\ GoodWork(queue'[w])
  BY <1>3 DEF GrewFrom, GoodWork
<1>5. queue' \in Seq(O!Work) /\ Len(queue') = Len(queue)
  BY <1>1, <1>2, <1>4
<1> QED
  BY <1>1, <1>2, <1>3, <1>4, <1>5 DEF QueueKept

\* The alerts and the dates of the work stay right whatever the step does to
\* the queue.
LEMMA AlertsStay ==
    ASSUME WorkIInv, QueueKept, watch'.kind = watch.kind, alerts' = alerts
    PROVE  O!AlertsAreWhole'
<1>1. /\ \A i \in DOMAIN alerts : alerts[i].work \in DOMAIN queue
      /\ O!AlertsAreWhole
  BY DEF WorkIInv, O!AlertsAreWhole
<1>2. \A w \in DOMAIN queue :
        /\ w \in DOMAIN queue'
        /\ queue'[w].source = queue[w].source /\ queue'[w].priority = queue[w].priority
  BY DEF QueueKept, GrewFrom
<1> QED
  BY <1>1, <1>2 DEF O!AlertsAreWhole, O!TaskPriority

LEMMA DatesStay ==
    ASSUME WorkIInv, QueueKept, results' = results
    PROVE  /\ O!EndsAreDated'
           /\ \A i \in DOMAIN results' : results'[i].work \in DOMAIN queue'
<1>1. \A i \in DOMAIN results : results[i].work \in DOMAIN queue
  BY DEF WorkIInv
<1>2. \A i \in DOMAIN results : results[i].status = "posted" => queue[results[i].work].done
  BY DEF WorkIInv, O!EndsAreDated
<1>3. \A w \in DOMAIN queue : w \in DOMAIN queue' /\ (queue[w].done => queue'[w].done)
  BY DEF QueueKept, GrewFrom
<1>4. \A w \in DOMAIN queue' : queue'[w].status = "completed" => queue'[w].done
  BY DEF QueueKept, GoodWork
<1> QED
  BY <1>1, <1>2, <1>3, <1>4 DEF O!EndsAreDated

\* No memory of work changes and neither does its history.
LEMMA MemoriesStay ==
    ASSUME WorkIInv, UNCHANGED <<results, predicted, proven>>,
           \A w \in O!Works : outcomes'[w] = outcomes[w]
    PROVE  O!ResultsAreRemembered'
<1>1. /\ \A w : O!Of(w)' = O!Of(w) /\ O!Fruitful(w)' = O!Fruitful(w)
      /\ \A w, s : O!OfStatus(w, s)' = O!OfStatus(w, s)
  BY DEF O!Of, O!Fruitful, O!OfStatus
<1>2. O!ResultsAreRemembered
  BY DEF WorkIInv
<1> QED
  BY <1>1, <1>2 DEF O!ResultsAreRemembered

\* The two names of one definition.
LEMMA SameCount ==
    \A S : O!Cardinality(S) = Cardinality(S)
BY DEF O!Cardinality, Cardinality

\* A set of numbers up to n gets one more, or stays as it is.
Joined(old, new, n) == old \in SUBSET (1 .. n) /\ new = old \cup {n + 1}
Stayed(old, new, n) == old \in SUBSET (1 .. n) /\ new = old

LEMMA OneMore ==
    ASSUME NEW n \in Nat, NEW old, NEW new
    PROVE  /\ Joined(old, new, n) =>
                Cardinality(old) \in Nat /\ Cardinality(new) = Cardinality(old) + 1
           /\ Stayed(old, new, n) =>
                Cardinality(old) \in Nat /\ Cardinality(new) = Cardinality(old)
<1>1. ASSUME old \in SUBSET (1 .. n)
      PROVE  /\ Cardinality(old) \in Nat
             /\ Cardinality(old \cup {n + 1}) = Cardinality(old) + 1
  <2>1. IsFiniteSet(1 .. n)
    BY FS_Interval
  <2>2. IsFiniteSet(old) /\ Cardinality(old) \in Nat
    BY <1>1, <2>1, FS_Subset, FS_CardinalityType
  <2>3. n + 1 \notin old
    BY <1>1
  <2> QED
    BY <2>2, <2>3, FS_AddElement
<1> QED
  BY <1>1 DEF Joined, Stayed

\* The rows of opportunity_results.
Result == [work : O!Works, status : O!ResultStatuses, fruitful : BOOLEAN, prediction : 0 .. MaxActs]

LEMMA PartsAreFinite ==
    ASSUME results \in Seq(Result)
    PROVE  \A w : /\ Cardinality(O!Of(w)) \in Nat
                  /\ \A s : Cardinality(O!OfStatus(w, s)) \in Nat
<1>1. Len(results) \in Nat /\ DOMAIN results = 1 .. Len(results)
  OBVIOUS
<1>2. /\ \A w : O!Of(w) \in SUBSET (1 .. Len(results))
      /\ \A w, s : O!OfStatus(w, s) \in SUBSET (1 .. Len(results))
  BY <1>1 DEF O!Of, O!OfStatus
<1>3. IsFiniteSet(1 .. Len(results))
  BY <1>1, FS_Interval
<1>4. ASSUME NEW S \in SUBSET (1 .. Len(results))
      PROVE  Cardinality(S) \in Nat
  BY <1>3, FS_Subset, FS_CardinalityType
<1> QED
  BY <1>2, <1>4

\* What learning an outcome adds to each count.
LEMMA LearnedCounts ==
    ASSUME NEW counts \in [O!Counters -> Nat], NEW outcome
    PROVE  /\ O!Learned(counts, outcome) \in [O!Counters -> Nat]
           /\ O!Learned(counts, outcome)["occurrences"] = counts["occurrences"] + 1
           /\ \A c \in O!Counters \ {"occurrences"} :
                O!Learned(counts, outcome)[c] = counts[c] + (IF c = outcome THEN 1 ELSE 0)
BY DEF O!Learned, O!Counters

OfPrediction(w, k) == {i \in O!Of(w) : results[i].prediction = k}

\* A result is written of some work.
Writes(row) == results' = Append(results, row)

\* It joins the history of its work, of that work under its status and, if it
\* is fruitful, among the fruitful ones, and of the latest prediction.
HistoryOf(row, n) ==
    /\ Joined(O!Of(row.work), O!Of(row.work)', n)
    /\ IF row.fruitful THEN Joined(O!Fruitful(row.work), O!Fruitful(row.work)', n)
       ELSE Stayed(O!Fruitful(row.work), O!Fruitful(row.work)', n)
    /\ \A s : IF row.status = s THEN Joined(O!OfStatus(row.work, s), O!OfStatus(row.work, s)', n)
              ELSE Stayed(O!OfStatus(row.work, s), O!OfStatus(row.work, s)', n)
    /\ \A k : IF row.prediction = k
              THEN Joined(OfPrediction(row.work, k), OfPrediction(row.work, k)', n)
              ELSE Stayed(OfPrediction(row.work, k), OfPrediction(row.work, k)', n)

\* And of no other.
OthersOf(row) ==
    \A w : w # row.work =>
        /\ O!Of(w)' = O!Of(w) /\ O!Fruitful(w)' = O!Fruitful(w)
        /\ \A s : O!OfStatus(w, s)' = O!OfStatus(w, s)
        /\ \A k : OfPrediction(w, k)' = OfPrediction(w, k)

LEMMA HistoryGrows ==
    ASSUME results \in Seq(Result), NEW row \in Result, Writes(row)
    PROVE  Len(results) \in Nat /\ HistoryOf(row, Len(results)) /\ OthersOf(row)
<1> DEFINE n == Len(results)
<1>1. /\ n \in Nat /\ DOMAIN results = 1 .. n /\ DOMAIN results' = 1 .. n + 1
      /\ results'[n + 1] = row /\ \A i \in 1 .. n : results'[i] = results[i]
  BY DEF Writes
<1> HIDE DEF n
<1>2. 1 .. n + 1 = (1 .. n) \cup {n + 1} /\ n + 1 \notin 1 .. n
  BY <1>1
<1>3. \A w : /\ O!Of(w) = {i \in 1 .. n : results[i].work = w}
             /\ O!Of(w)' = {i \in (1 .. n) \cup {n + 1} : results'[i].work = w}
  BY <1>1, <1>2 DEF O!Of
<1>4. /\ \A w : w # row.work => O!Of(w)' = O!Of(w)
      /\ O!Of(row.work)' = O!Of(row.work) \cup {n + 1}
      /\ \A w : O!Of(w) \subseteq 1 .. n
  BY <1>1, <1>2, <1>3
<1>5. /\ \A w : /\ O!Fruitful(w) = {i \in O!Of(w) : results[i].fruitful}
                /\ O!Fruitful(w)' = {i \in O!Of(w)' : results'[i].fruitful}
      /\ \A w, s : /\ O!OfStatus(w, s) = {i \in O!Of(w) : results[i].status = s}
                   /\ O!OfStatus(w, s)' = {i \in O!Of(w)' : results'[i].status = s}
      /\ \A w, k : /\ OfPrediction(w, k) = {i \in O!Of(w) : results[i].prediction = k}
                   /\ OfPrediction(w, k)' = {i \in O!Of(w)' : results'[i].prediction = k}
  BY DEF O!Fruitful, O!OfStatus, OfPrediction
<1>6. ASSUME NEW w, w # row.work
      PROVE  /\ O!Of(w)' = O!Of(w) /\ O!Fruitful(w)' = O!Fruitful(w)
             /\ \A s : O!OfStatus(w, s)' = O!OfStatus(w, s)
             /\ \A k : OfPrediction(w, k)' = OfPrediction(w, k)
  <2>1. O!Of(w)' = O!Of(w) /\ \A i \in O!Of(w) : results'[i] = results[i]
    BY <1>1, <1>4, <1>6
  <2>2. O!Fruitful(w)' = O!Fruitful(w)
    BY <1>5, <2>1
  <2>3. \A s : O!OfStatus(w, s)' = O!OfStatus(w, s)
    BY <1>5, <2>1
  <2>4. \A k : OfPrediction(w, k)' = OfPrediction(w, k)
    BY <1>5, <2>1
  <2> QED
    BY <2>1, <2>2, <2>3, <2>4
<1>7. Joined(O!Of(row.work), O!Of(row.work)', n)
  BY <1>4 DEF Joined
<1>8. IF row.fruitful THEN Joined(O!Fruitful(row.work), O!Fruitful(row.work)', n)
      ELSE Stayed(O!Fruitful(row.work), O!Fruitful(row.work)', n)
  BY <1>1, <1>2, <1>4, <1>5 DEF Joined, Stayed
<1>9. \A s : IF row.status = s THEN Joined(O!OfStatus(row.work, s), O!OfStatus(row.work, s)', n)
             ELSE Stayed(O!OfStatus(row.work, s), O!OfStatus(row.work, s)', n)
  BY <1>1, <1>2, <1>4, <1>5 DEF Joined, Stayed
<1>10. \A k : IF row.prediction = k
              THEN Joined(OfPrediction(row.work, k), OfPrediction(row.work, k)', n)
              ELSE Stayed(OfPrediction(row.work, k), OfPrediction(row.work, k)', n)
  BY <1>1, <1>2, <1>4, <1>5 DEF Joined, Stayed
<1>11. HistoryOf(row, n)
  BY <1>7, <1>8, <1>9, <1>10 DEF HistoryOf
<1> QED
  BY <1>1, <1>6, <1>11 DEF n, OthersOf

\* The memory of some work, and of its predictions, is its history.
Remembered(w) ==
    /\ outcomes[w]["occurrences"] = Cardinality(O!Of(w)) + predicted[w]
    /\ outcomes[w]["success"] = Cardinality(O!Fruitful(w))
    /\ outcomes[w]["failure"] = Cardinality(O!OfStatus(w, "failed"))
    /\ outcomes[w]["partial"] = Cardinality(O!OfStatus(w, "skipped")) + predicted[w]
    /\ outcomes[w]["ignored"] = Cardinality(O!OfStatus(w, "rejected"))
    /\ \A n \in 1 .. MaxActs :
         proven[w][n]["occurrences"] = Cardinality(OfPrediction(w, n))

LEMMA MemoriesByWork ==
    /\ O!ResultsAreRemembered = (\A w \in O!Works : Remembered(w))
    /\ O!ResultsAreRemembered' = (\A w \in O!Works : Remembered(w)')
BY SameCount DEF O!ResultsAreRemembered, Remembered, OfPrediction

\* A result is counted once, under what it was, by its work and by the latest
\* prediction of it.
LEMMA ResultIsCounted ==
    ASSUME WorkConstants, WorkIInv, NEW w \in DOMAIN queue, NEW status \in O!ResultStatuses,
           NEW fruitful \in BOOLEAN, O!Record(w, status, fruitful)
    PROVE  O!ResultsAreRemembered'
<1>a. PICK row : row = [work |-> w, status |-> status, fruitful |-> fruitful,
                        prediction |-> predicted[w]]
  OBVIOUS
<1>b. PICK n : n = Len(results)
  OBVIOUS
<1>1. /\ results \in Seq(Result) /\ w \in O!Works
      /\ predicted \in [O!Works -> 0 .. MaxActs]
      /\ outcomes \in [0 .. MaxWork -> [O!Counters -> Nat]]
      /\ proven \in [O!Works -> [1 .. MaxActs -> [O!Counters -> Nat]]]
      /\ O!Works \subseteq 0 .. MaxWork
  <2>1. /\ results \in Seq(Result)
        /\ predicted \in [O!Works -> 0 .. MaxActs]
        /\ outcomes \in [0 .. MaxWork -> [O!Counters -> Nat]]
        /\ proven \in [O!Works -> [1 .. MaxActs -> [O!Counters -> Nat]]]
    BY DEF WorkIInv, O!TypeOK, Result
  <2>2. queue \in Seq(O!Work) /\ Len(queue) <= MaxWork
    BY DEF WorkIInv, O!TypeOK
  <2>3. w \in O!Works /\ O!Works \subseteq 0 .. MaxWork
    BY <2>2 DEF O!Works, WorkConstants
  <2> QED
    BY <2>1, <2>3
<1>2. row \in Result
  BY <1>1, <1>a DEF Result
<1>3. /\ Writes(row) /\ UNCHANGED predicted
      /\ fruitful => status = "posted"
      /\ outcomes' = [outcomes EXCEPT ![w] = O!Learned(@, O!Outcome(status, fruitful))]
      /\ proven' = IF predicted[w] = 0 THEN proven
                   ELSE [proven EXCEPT ![w][predicted[w]] =
                           O!Learned(@, O!PredictionOutcome(status, fruitful))]
  BY <1>a DEF O!Record, Writes
<1>4. row.work = w /\ row.status = status /\ row.fruitful = fruitful /\ row.prediction = predicted[w]
  BY <1>a
<1>5. n \in Nat /\ HistoryOf(row, n) /\ OthersOf(row)
  BY <1>1, <1>2, <1>3, <1>b, HistoryGrows
<1>6. \A v \in O!Works : Remembered(v)
  BY MemoriesByWork DEF WorkIInv
<1>7. ASSUME NEW v \in O!Works, v # w
      PROVE  Remembered(v)'
  <2>1. outcomes'[v] = outcomes[v] /\ proven'[v] = proven[v] /\ predicted'[v] = predicted[v]
    BY <1>1, <1>3, <1>7
  <2>2. /\ O!Of(v)' = O!Of(v) /\ O!Fruitful(v)' = O!Fruitful(v)
        /\ \A s : O!OfStatus(v, s)' = O!OfStatus(v, s)
        /\ \A k : OfPrediction(v, k)' = OfPrediction(v, k)
    BY <1>4, <1>5, <1>7 DEF OthersOf
  <2>3. Remembered(v)
    BY <1>6
  <2> QED
    BY <2>1, <2>2, <2>3 DEF Remembered
<1>8. Remembered(w)'
  <2>0. /\ Joined(O!Of(w), O!Of(w)', n)
        /\ IF fruitful THEN Joined(O!Fruitful(w), O!Fruitful(w)', n)
           ELSE Stayed(O!Fruitful(w), O!Fruitful(w)', n)
        /\ \A s : IF status = s THEN Joined(O!OfStatus(w, s), O!OfStatus(w, s)', n)
                  ELSE Stayed(O!OfStatus(w, s), O!OfStatus(w, s)', n)
        /\ \A k : IF predicted[w] = k THEN Joined(OfPrediction(w, k), OfPrediction(w, k)', n)
                  ELSE Stayed(OfPrediction(w, k), OfPrediction(w, k)', n)
    BY <1>4, <1>5 DEF HistoryOf
  <2>1. /\ Cardinality(O!Of(w)) \in Nat
        /\ Cardinality(O!Of(w)') = Cardinality(O!Of(w)) + 1
    BY <1>5, <2>0, OneMore
  <2>2. /\ Cardinality(O!Fruitful(w)) \in Nat
        /\ Cardinality(O!Fruitful(w)') = Cardinality(O!Fruitful(w)) + (IF fruitful THEN 1 ELSE 0)
    <3>1. CASE fruitful
      BY <1>5, <2>0, <3>1, OneMore
    <3>2. CASE ~fruitful
      BY <1>5, <2>0, <3>2, OneMore
    <3> QED
      BY <3>1, <3>2
  <2>3. ASSUME NEW s
        PROVE  /\ Cardinality(O!OfStatus(w, s)) \in Nat
               /\ Cardinality(O!OfStatus(w, s)') =
                    Cardinality(O!OfStatus(w, s)) + (IF status = s THEN 1 ELSE 0)
    <3>1. CASE status = s
      <4>1. Joined(O!OfStatus(w, s), O!OfStatus(w, s)', n)
        BY <2>0, <3>1
      <4> QED
        BY <1>5, <3>1, <4>1, OneMore
    <3>2. CASE status # s
      <4>1. Stayed(O!OfStatus(w, s), O!OfStatus(w, s)', n)
        BY <2>0, <3>2
      <4> QED
        BY <1>5, <3>2, <4>1, OneMore
    <3> QED
      BY <3>1, <3>2
  <2>4. ASSUME NEW k
        PROVE  /\ Cardinality(OfPrediction(w, k)) \in Nat
               /\ Cardinality(OfPrediction(w, k)') =
                    Cardinality(OfPrediction(w, k)) + (IF predicted[w] = k THEN 1 ELSE 0)
    <3>1. CASE predicted[w] = k
      <4>1. Joined(OfPrediction(w, k), OfPrediction(w, k)', n)
        BY <2>0, <3>1
      <4> QED
        BY <1>5, <3>1, <4>1, OneMore
    <3>2. CASE predicted[w] # k
      <4>1. Stayed(OfPrediction(w, k), OfPrediction(w, k)', n)
        BY <2>0, <3>2
      <4> QED
        BY <1>5, <3>2, <4>1, OneMore
    <3> QED
      BY <3>1, <3>2
  <2>5. /\ outcomes'[w] = O!Learned(outcomes[w], O!Outcome(status, fruitful))
        /\ outcomes[w] \in [O!Counters -> Nat]
    BY <1>1, <1>3
  <2>6. /\ outcomes'[w]["occurrences"] = outcomes[w]["occurrences"] + 1
        /\ \A c \in O!Counters \ {"occurrences"} :
             outcomes'[w][c] = outcomes[w][c] + (IF c = O!Outcome(status, fruitful) THEN 1 ELSE 0)
    BY <2>5, LearnedCounts
  <2>7. /\ outcomes'[w]["success"] = outcomes[w]["success"] + (IF fruitful THEN 1 ELSE 0)
        /\ outcomes'[w]["failure"] = outcomes[w]["failure"] + (IF status = "failed" THEN 1 ELSE 0)
        /\ outcomes'[w]["partial"] = outcomes[w]["partial"] + (IF status = "skipped" THEN 1 ELSE 0)
        /\ outcomes'[w]["ignored"] = outcomes[w]["ignored"] + (IF status = "rejected" THEN 1 ELSE 0)
    BY <1>3, <2>6 DEF O!Outcome, O!Counters
  <2>8. predicted[w] \in Nat /\ predicted'[w] = predicted[w] /\ Remembered(w)
    BY <1>1, <1>3, <1>6
  <2>9. /\ outcomes'[w]["occurrences"] = Cardinality(O!Of(w)') + predicted'[w]
        /\ outcomes'[w]["success"] = Cardinality(O!Fruitful(w)')
        /\ outcomes'[w]["failure"] = Cardinality(O!OfStatus(w, "failed")')
        /\ outcomes'[w]["partial"] = Cardinality(O!OfStatus(w, "skipped")') + predicted'[w]
        /\ outcomes'[w]["ignored"] = Cardinality(O!OfStatus(w, "rejected")')
    BY <2>1, <2>2, <2>3, <2>6, <2>7, <2>8 DEF Remembered
  <2>10. ASSUME NEW k \in 1 .. MaxActs
         PROVE  proven'[w][k]["occurrences"] = Cardinality(OfPrediction(w, k)')
    <3>1. proven[w][k] \in [O!Counters -> Nat] /\ "occurrences" \in O!Counters
      BY <1>1 DEF O!Counters
    <3>2. proven[w][k]["occurrences"] = Cardinality(OfPrediction(w, k))
      BY <2>8 DEF Remembered
    <3>3. CASE predicted[w] = k
      <4>a. k \in 1 .. MaxActs /\ MaxActs \in Nat
        BY <2>10 DEF WorkConstants
      <4>0. k # 0 /\ w \in DOMAIN proven /\ k \in DOMAIN proven[w]
        BY <1>1, <4>a
      <4>1. proven'[w][k] = O!Learned(proven[w][k], O!PredictionOutcome(status, fruitful))
        BY <1>3, <3>3, <4>0
      <4>2. proven'[w][k]["occurrences"] = proven[w][k]["occurrences"] + 1
        BY <3>1, <4>1, LearnedCounts
      <4> QED
        BY <2>4, <3>2, <3>3, <4>2
    <3>4. CASE predicted[w] # k
      <4>1. proven'[w][k] = proven[w][k]
        BY <1>1, <1>3, <3>4
      <4> QED
        BY <2>4, <3>2, <3>4, <4>1
    <3> QED
      BY <3>3, <3>4
  <2> QED
    BY <2>9, <2>10 DEF Remembered
<1> QED
  BY <1>7, <1>8, MemoriesByWork

\* A prediction is counted once, as an occurrence that came to nothing yet.
LEMMA PredictionsAreCounted ==
    ASSUME WorkConstants, WorkIInv, NEW ws \in SUBSET O!Works, O!Predicted(ws)
    PROVE  /\ O!ResultsAreRemembered'
           /\ acts' \in 0 .. MaxActs
           /\ predicted' \in [O!Works -> 0 .. MaxActs]
           /\ \A w \in O!Works : predicted'[w] <= acts'
           /\ outcomes' \in [0 .. MaxWork -> [O!Counters -> Nat]]
<1>1. /\ predicted \in [O!Works -> 0 .. MaxActs] /\ acts \in 0 .. MaxActs
      /\ outcomes \in [0 .. MaxWork -> [O!Counters -> Nat]]
      /\ O!Works \subseteq 0 .. MaxWork /\ MaxActs \in Nat
      /\ \A w \in O!Works : predicted[w] <= acts
  BY DEF WorkIInv, O!TypeOK, O!Works, WorkConstants
<1>2. /\ acts < MaxActs /\ acts' = acts + 1 /\ UNCHANGED <<results, proven>>
      /\ predicted' = [w \in O!Works |-> predicted[w] + (IF w \in ws THEN 1 ELSE 0)]
      /\ outcomes' = [w \in 0 .. MaxWork |->
                        IF w \in ws THEN O!Learned(outcomes[w], "partial") ELSE outcomes[w]]
  BY DEF O!Predicted, O!Act
<1>3. /\ acts' \in 0 .. MaxActs
      /\ predicted' \in [O!Works -> 0 .. MaxActs]
      /\ \A w \in O!Works : predicted'[w] <= acts'
  BY <1>1, <1>2
<1>4. /\ \A w : O!Of(w)' = O!Of(w) /\ O!Fruitful(w)' = O!Fruitful(w)
      /\ \A w, s : O!OfStatus(w, s)' = O!OfStatus(w, s)
      /\ \A w, k : OfPrediction(w, k)' = OfPrediction(w, k)
  BY <1>2 DEF O!Of, O!Fruitful, O!OfStatus, OfPrediction
<1>5. \A w \in 0 .. MaxWork :
        outcomes'[w] = IF w \in ws THEN O!Learned(outcomes[w], "partial") ELSE outcomes[w]
  BY <1>2
<1>6. \A w \in 0 .. MaxWork : O!Learned(outcomes[w], "partial") \in [O!Counters -> Nat]
  BY <1>1, LearnedCounts
<1>7. outcomes' \in [0 .. MaxWork -> [O!Counters -> Nat]]
  BY <1>1, <1>2, <1>6
<1>8. ASSUME NEW w \in O!Works
      PROVE  Remembered(w)'
  <2>1. Remembered(w)
    BY MemoriesByWork DEF WorkIInv
  <2>2. outcomes[w] \in [O!Counters -> Nat] /\ predicted[w] \in Nat /\ proven'[w] = proven[w]
    BY <1>1, <1>2
  <2>3. CASE w \notin ws
    <3>1. outcomes'[w] = outcomes[w] /\ predicted'[w] = predicted[w]
      BY <1>1, <1>2, <1>5, <2>2, <2>3
    <3> QED
      BY <1>4, <2>1, <2>2, <3>1 DEF Remembered
  <2>4. CASE w \in ws
    <3>1. outcomes'[w] = O!Learned(outcomes[w], "partial") /\ predicted'[w] = predicted[w] + 1
      BY <1>1, <1>2, <1>5, <2>2, <2>4
    <3>2. /\ outcomes'[w]["occurrences"] = outcomes[w]["occurrences"] + 1
          /\ outcomes'[w]["partial"] = outcomes[w]["partial"] + 1
          /\ outcomes'[w]["success"] = outcomes[w]["success"]
          /\ outcomes'[w]["failure"] = outcomes[w]["failure"]
          /\ outcomes'[w]["ignored"] = outcomes[w]["ignored"]
      BY <2>2, <3>1, LearnedCounts DEF O!Counters
    <3>3. /\ outcomes[w]["occurrences"] = Cardinality(O!Of(w)) + predicted[w]
          /\ outcomes[w]["partial"] = Cardinality(O!OfStatus(w, "skipped")) + predicted[w]
      BY <2>1 DEF Remembered
    <3>4. results \in Seq(Result)
      BY DEF WorkIInv, O!TypeOK, Result
    <3>5. Cardinality(O!Of(w)) \in Nat /\ Cardinality(O!OfStatus(w, "skipped")) \in Nat
      BY <3>4, PartsAreFinite
    <3>6. /\ outcomes'[w]["occurrences"] = Cardinality(O!Of(w)) + predicted'[w]
          /\ outcomes'[w]["partial"] = Cardinality(O!OfStatus(w, "skipped")) + predicted'[w]
      BY <2>2, <3>1, <3>2, <3>3, <3>5
    <3> QED
      BY <1>4, <2>1, <2>2, <3>1, <3>2, <3>6 DEF Remembered
  <2> QED
    BY <2>3, <2>4
<1>9. O!ResultsAreRemembered'
  BY <1>8, MemoriesByWork
<1> QED
  BY <1>3, <1>7, <1>9

\* What a step keeps of every other table.
OthersTyped ==
    /\ able' \subseteq Chatters
    /\ watch' \in O!Watches
    /\ alerts' \in Seq([work : O!Works, priority : Priorities, status : {"new", "reviewed"},
                        task : {O!TaskPriority(p) : p \in Priorities} \cup {"none"}])
    /\ results' \in Seq(Result)
    /\ predicted' \in [O!Works -> 0 .. MaxActs]
    /\ outcomes' \in [0 .. MaxWork -> [O!Counters -> Nat]]
    /\ proven' \in [O!Works -> [1 .. MaxActs -> [O!Counters -> Nat]]]
    /\ acts' \in 0 .. MaxActs

\* The work that ends or is taken up again in a step of its own.
ByPeople ==
    \A w \in DOMAIN queue :
        O!Ended(queue'[w]) # O!Ended(queue[w]) =>
            \/ acts' > acts /\ results' = results /\ predicted' = predicted
            \/ Len(results') > Len(results) /\ results'[Len(results')].work = w

WorkGoesOn == WorkIInv' /\ ByPeople

\* The step goes on from what it does to the queue and the other tables.
LEMMA Together ==
    ASSUME QueueKept, OthersTyped, O!AlertsAreWhole', O!EndsAreDated', O!ResultsAreRemembered',
           \A i \in DOMAIN results' : results'[i].work \in DOMAIN queue',
           \A w \in O!Works : predicted'[w] <= acts'
    PROVE  WorkIInv'
<1>1. O!TypeOK'
  BY DEF QueueKept, OthersTyped, O!TypeOK, Result, O!Works, O!Work, O!Watches,
         O!ResultStatuses, O!Counters, O!TaskPriority, O!Statuses
<1> QED
  BY <1>1 DEF WorkIInv, QueueKept, GoodWork, O!Work, O!Works

\* What holds before of the tables.
LEMMA WorkTyped ==
    ASSUME WorkConstants, WorkIInv
    PROVE  /\ able \subseteq Chatters /\ watch \in O!Watches
           /\ alerts \in Seq([work : O!Works, priority : Priorities, status : {"new", "reviewed"},
                        task : {O!TaskPriority(p) : p \in Priorities} \cup {"none"}])
           /\ results \in Seq(Result)
           /\ predicted \in [O!Works -> 0 .. MaxActs]
           /\ outcomes \in [0 .. MaxWork -> [O!Counters -> Nat]]
           /\ proven \in [O!Works -> [1 .. MaxActs -> [O!Counters -> Nat]]]
           /\ acts \in 0 .. MaxActs /\ acts \in Nat
           /\ \A w \in O!Works : predicted[w] <= acts
           /\ queue \in Seq(O!Work) /\ Len(queue) \in Nat /\ DOMAIN queue = 1 .. Len(queue)
           /\ O!Works \subseteq Nat /\ DOMAIN queue \subseteq O!Works
           /\ MaxActs \in Nat /\ MaxWork \in Nat
BY DEF WorkConstants, WorkIInv, O!TypeOK, Result, O!Works

\* One more act.
LEMMA Acted ==
    ASSUME WorkConstants, WorkIInv, O!Act
    PROVE  /\ acts' \in 0 .. MaxActs /\ acts' = acts + 1 /\ acts' > acts
           /\ \A w \in O!Works : predicted[w] <= acts'
<1>1. acts' = acts + 1 /\ acts < MaxActs
  BY DEF O!Act
<1>2. acts \in Nat /\ MaxActs \in Nat /\ predicted \in [O!Works -> 0 .. MaxActs]
      /\ \A w \in O!Works : predicted[w] <= acts
  BY WorkTyped
<1>3. \A w \in O!Works : predicted[w] \in Nat
  BY <1>2
<1> QED
  BY <1>1, <1>2, <1>3

\* The tables that most steps leave alone.
LEMMA TablesStay ==
    ASSUME WorkConstants, WorkIInv, QueueKept, able' \subseteq Chatters, watch' \in O!Watches,
           watch'.kind = watch.kind,
           acts' = acts \/ O!Act,
           UNCHANGED <<alerts, results, predicted, outcomes, proven>>
    PROVE  WorkIInv'
<1>1. acts' \in 0 .. MaxActs /\ \A w \in O!Works : predicted'[w] <= acts'
  BY Acted, WorkTyped
<1>2. OthersTyped
  BY <1>1, WorkTyped DEF OthersTyped
<1>3. O!AlertsAreWhole' /\ O!EndsAreDated' /\ O!ResultsAreRemembered'
      /\ \A i \in DOMAIN results' : results'[i].work \in DOMAIN queue'
  BY AlertsStay, DatesStay, MemoriesStay
<1> QED
  BY <1>1, <1>2, <1>3, Together

LEMMA WatchStep ==
    ASSUME WorkConstants, WorkIInv,
           \/ \E c \in Chatters : O!ChangeAccess(c)
           \/ \E c \in Chatters : O!AssignCreator(c)
           \/ \E c \in Chatters : O!AssignPost(c)
           \/ \E p \in Priorities : O!UpdateWatch(p)
    PROVE  WorkGoesOn
<1>1. /\ UNCHANGED <<queue, alerts, results, predicted, outcomes, proven>> /\ O!Act
      /\ able' \subseteq Chatters /\ watch' \in O!Watches /\ watch'.kind = watch.kind
  <2>0. able \subseteq Chatters /\ watch \in O!Watches
    BY WorkTyped
  <2>1. CASE \E c \in Chatters : O!ChangeAccess(c)
    BY <2>0, <2>1 DEF O!ChangeAccess
  <2>2. CASE \E c \in Chatters : O!AssignCreator(c)
    BY <2>0, <2>2 DEF O!AssignCreator, O!Watches
  <2>3. CASE \E c \in Chatters : O!AssignPost(c)
    BY <2>0, <2>3 DEF O!AssignPost, O!Watches
  <2>4. CASE \E p \in Priorities : O!UpdateWatch(p)
    BY <2>0, <2>4 DEF O!UpdateWatch, O!Watches
  <2> QED
    BY <2>1, <2>2, <2>3, <2>4
<1>2. QueueKept
  BY <1>1, QueueUntouched
<1> QED
  BY <1>1, <1>2, TablesStay DEF WorkGoesOn, ByPeople

\* Work that begins: by hand, from a watch, or by an alert refused.
LEMMA BeginStep ==
    ASSUME WorkConstants, WorkIInv, NEW source \in {"manual", "creator", "own_post"},
           NEW p \in Priorities, NEW c \in Chatters \cup {NoChatter},
           O!Room, queue' = Append(queue, O!Begun(source, p, c)),
           acts' = acts \/ O!Act,
           UNCHANGED <<able, watch, alerts, results, predicted, outcomes, proven>>
    PROVE  WorkGoesOn
<1>1. QueueKept /\ \A w \in DOMAIN queue : queue'[w] = queue[w]
  BY WorkBegins DEF O!Room
<1>2. WorkIInv'
  BY <1>1, TablesStay, WorkTyped
<1> QED
  BY <1>1, <1>2 DEF WorkGoesOn, ByPeople

LEMMA CreateStep ==
    ASSUME WorkConstants, WorkIInv,
           \/ \E p \in Priorities, c \in Chatters \cup {NoChatter} : O!Create(p, c)
           \/ O!CreateFromWatch
           \/ O!AlertRefused
    PROVE  WorkGoesOn
<1>0. /\ watch.kind \in {"creator", "own_post"} /\ watch.priority \in Priorities
      /\ watch.alert \in Priorities /\ watch.chatter \in Chatters \cup {NoChatter}
  BY WorkTyped DEF O!Watches
<1>1. CASE \E p \in Priorities, c \in Chatters \cup {NoChatter} : O!Create(p, c)
  BY <1>1, BeginStep DEF O!Create
<1>2. CASE O!CreateFromWatch
  BY <1>0, <1>2, BeginStep DEF O!CreateFromWatch
<1>3. CASE O!AlertRefused
  BY <1>0, <1>3, BeginStep DEF O!AlertRefused
<1> QED
  BY <1>1, <1>2, <1>3

\* The alert of a post begins its work with it.
LEMMA AlertStep ==
    ASSUME WorkConstants, WorkIInv, O!Alert
    PROVE  WorkGoesOn
<1> DEFINE n == Len(queue)
           m == Len(alerts)
           row == [work |-> n + 1, priority |-> watch.alert, status |-> "new",
                   task |-> IF watch.kind = "own_post" THEN O!TaskPriority(watch.alert)
                            ELSE "none"]
           Rows == [work : O!Works, priority : Priorities, status : {"new", "reviewed"},
                    task : {O!TaskPriority(p) : p \in Priorities} \cup {"none"}]
<1>0. /\ watch.kind \in {"creator", "own_post"} /\ watch.alert \in Priorities
      /\ watch.chatter \in Chatters \cup {NoChatter} /\ alerts \in Seq(Rows)
      /\ outcomes \in [0 .. MaxWork -> [O!Counters -> Nat]]
      /\ n \in Nat /\ MaxWork \in Nat /\ m \in Nat /\ DOMAIN alerts = 1 .. m
  BY WorkTyped DEF O!Watches
<1>1. /\ queue' = Append(queue, O!Begun(watch.kind, watch.alert, watch.chatter))
      /\ alerts' = Append(alerts, row) /\ n < MaxWork
      /\ outcomes' = [outcomes EXCEPT ![0] = O!Learned(@, "unknown")]
      /\ UNCHANGED <<able, watch, results, predicted, proven, acts>>
  BY DEF O!Alert, O!Alerted, O!Room
<1>2. /\ QueueKept /\ DOMAIN queue = 1 .. n /\ DOMAIN queue' = 1 .. n + 1
      /\ \A w \in DOMAIN queue : queue'[w] = queue[w]
      /\ queue'[n + 1] = O!Begun(watch.kind, watch.alert, watch.chatter)
  BY <1>0, <1>1, WorkBegins
<1>3. row \in Rows
  BY <1>0, <1>1 DEF O!Works
<1> HIDE DEF Rows
<1>4. /\ row.work = n + 1 /\ row.priority = watch.alert
      /\ row.task = IF watch.kind = "own_post" THEN O!TaskPriority(row.priority) ELSE "none"
  OBVIOUS
<1> HIDE DEF row, n, m
<1>5. /\ alerts' \in Seq(Rows) /\ DOMAIN alerts' = 1 .. m + 1
      /\ alerts'[m + 1] = row /\ \A i \in 1 .. m : alerts'[i] = alerts[i]
  BY <1>0, <1>1, <1>3 DEF m
<1>6. O!AlertsAreWhole'
  <2>1. O!AlertsAreWhole
    BY DEF WorkIInv
  <2>2. \A i \in 1 .. m : alerts[i].work \in 1 .. n
    BY <1>0, <1>2, <2>1 DEF O!AlertsAreWhole
  <2>3. \A i \in DOMAIN alerts' : i \in 1 .. m \/ i = m + 1
    BY <1>0, <1>5
  <2>4. /\ queue'[n + 1].source = watch.kind /\ queue'[n + 1].priority = watch.alert
        /\ watch' = watch
    <3>1. \A a, b, c : O!Begun(a, b, c).source = a /\ O!Begun(a, b, c).priority = b
      BY DEF O!Begun
    <3> QED
      BY <1>1, <1>2, <3>1
  <2>5. ASSUME NEW i \in DOMAIN alerts'
        PROVE  /\ alerts'[i].work \in DOMAIN queue'
               /\ queue'[alerts'[i].work].source = watch'.kind
               /\ queue'[alerts'[i].work].priority = alerts'[i].priority
               /\ alerts'[i].task = IF watch'.kind = "own_post"
                                    THEN O!TaskPriority(alerts'[i].priority) ELSE "none"
    <3>1. CASE i \in 1 .. m
      <4>1. /\ alerts'[i] = alerts[i] /\ alerts[i].work \in DOMAIN queue
            /\ queue[alerts[i].work].source = watch.kind
            /\ queue[alerts[i].work].priority = alerts[i].priority
            /\ alerts[i].task = IF watch.kind = "own_post"
                                THEN O!TaskPriority(alerts[i].priority) ELSE "none"
        BY <1>0, <1>5, <2>1, <3>1 DEF O!AlertsAreWhole
      <4>2. queue'[alerts[i].work] = queue[alerts[i].work] /\ alerts[i].work \in DOMAIN queue'
        BY <1>0, <1>2, <4>1
      <4> QED
        BY <2>4, <4>1, <4>2
    <3>2. CASE i = m + 1
      <4>1. alerts'[i] = row /\ alerts'[i].work = n + 1 /\ n + 1 \in DOMAIN queue'
        BY <1>0, <1>2, <1>4, <1>5, <3>2
      <4> QED
        BY <1>4, <2>4, <4>1
    <3> QED
      BY <2>3, <3>1, <3>2
  <2>6. ASSUME NEW i \in DOMAIN alerts', NEW j \in DOMAIN alerts', alerts'[i].work = alerts'[j].work
        PROVE  i = j
    <3>1. /\ i \in 1 .. m => alerts'[i].work \in 1 .. n /\ alerts'[i] = alerts[i]
          /\ j \in 1 .. m => alerts'[j].work \in 1 .. n /\ alerts'[j] = alerts[j]
      BY <1>5, <2>2
    <3>2. /\ i = m + 1 => alerts'[i].work = n + 1
          /\ j = m + 1 => alerts'[j].work = n + 1
      BY <1>4, <1>5
    <3>3. n + 1 \notin 1 .. n
      BY <1>0
    <3>4. i \in 1 .. m /\ j \in 1 .. m => i = j
      BY <1>0, <2>1, <2>6, <3>1 DEF O!AlertsAreWhole
    <3> QED
      BY <2>3, <2>6, <3>1, <3>2, <3>3, <3>4
  <2> QED
    BY <2>5, <2>6 DEF O!AlertsAreWhole, O!TaskPriority
<1>7. /\ outcomes' \in [0 .. MaxWork -> [O!Counters -> Nat]]
      /\ \A w \in O!Works : outcomes'[w] = outcomes[w]
  <2>1. 0 \in 0 .. MaxWork /\ outcomes[0] \in [O!Counters -> Nat]
    BY <1>0
  <2>2. O!Learned(outcomes[0], "unknown") \in [O!Counters -> Nat]
    BY <2>1, LearnedCounts
  <2>3. \A w \in O!Works : w # 0
    BY <1>0 DEF O!Works
  <2> QED
    BY <1>0, <1>1, <2>1, <2>2, <2>3 DEF O!Works
<1>8. /\ O!EndsAreDated' /\ O!ResultsAreRemembered'
      /\ \A i \in DOMAIN results' : results'[i].work \in DOMAIN queue'
  BY <1>1, <1>2, <1>7, DatesStay, MemoriesStay
<1>9. OthersTyped
  BY <1>1, <1>5, <1>7, WorkTyped DEF OthersTyped, Rows
<1>10. \A w \in O!Works : predicted'[w] <= acts'
  BY <1>1, WorkTyped
<1>11. WorkIInv'
  BY <1>2, <1>6, <1>8, <1>9, <1>10, Together
<1> QED
  BY <1>2, <1>11 DEF WorkGoesOn, ByPeople

\* A reviewed alert is the alert that it was.
LEMMA ReviewStep ==
    ASSUME WorkConstants, WorkIInv, NEW k \in DOMAIN alerts, O!ReviewAlert(k)
    PROVE  WorkGoesOn
<1> DEFINE Rows == [work : O!Works, priority : Priorities, status : {"new", "reviewed"},
                    task : {O!TaskPriority(p) : p \in Priorities} \cup {"none"}]
<1>1. /\ alerts' = [alerts EXCEPT ![k].status = "reviewed"] /\ O!Act
      /\ UNCHANGED <<able, watch, queue, results, predicted, outcomes, proven>>
  BY DEF O!ReviewAlert
<1>2. alerts \in Seq(Rows)
  BY WorkTyped
<1>3. /\ alerts' \in Seq(Rows) /\ DOMAIN alerts' = DOMAIN alerts
      /\ \A i \in DOMAIN alerts :
           /\ alerts'[i].work = alerts[i].work
           /\ alerts'[i].priority = alerts[i].priority
           /\ alerts'[i].task = alerts[i].task
  <2>0. \A a \in Rows : [a EXCEPT !.status = "reviewed"] \in Rows
    OBVIOUS
  <2>1. alerts[k] \in Rows /\ [alerts[k] EXCEPT !.status = "reviewed"] \in Rows
    <3> HIDE DEF Rows
    <3> QED
      BY <1>2, <2>0
  <2>2. /\ DOMAIN alerts' = DOMAIN alerts
        /\ \A i \in DOMAIN alerts : alerts'[i] =
             IF i = k THEN [alerts[k] EXCEPT !.status = "reviewed"] ELSE alerts[i]
    BY <1>1
  <2>3. alerts' \in Seq(Rows)
    <3>1. alerts' = [alerts EXCEPT ![k] = [alerts[k] EXCEPT !.status = "reviewed"]]
      BY <1>1
    <3> HIDE DEF Rows
    <3> QED
      BY <1>2, <2>1, <3>1
  <2> QED
    BY <2>1, <2>2, <2>3
<1> HIDE DEF Rows
<1>4. O!AlertsAreWhole
  BY DEF WorkIInv
<1>5. O!AlertsAreWhole'
  BY <1>1, <1>3, <1>4 DEF O!AlertsAreWhole, O!TaskPriority
<1>6. QueueKept
  BY <1>1, QueueUntouched
<1>7. /\ O!EndsAreDated' /\ O!ResultsAreRemembered'
      /\ \A i \in DOMAIN results' : results'[i].work \in DOMAIN queue'
  BY <1>1, <1>6, DatesStay, MemoriesStay
<1>8. acts' \in 0 .. MaxActs /\ \A w \in O!Works : predicted'[w] <= acts'
  BY <1>1, Acted
<1>9. OthersTyped
  BY <1>1, <1>3, <1>8, WorkTyped DEF OthersTyped, Rows
<1>10. WorkIInv'
  BY <1>5, <1>6, <1>7, <1>8, <1>9, Together
<1> QED
  BY <1>1, <1>10 DEF WorkGoesOn, ByPeople

\* Scoring ends nothing and takes nothing up.
LEMMA ScoreStep ==
    ASSUME WorkConstants, WorkIInv,
           (\E w \in DOMAIN queue : O!Score(w)) \/ O!ScoreAll
    PROVE  WorkGoesOn
<1>1. UNCHANGED <<able, watch, alerts, results, predicted, outcomes, proven, acts>>
  BY DEF O!Score, O!ScoreAll
<1>2. \A v \in DOMAIN queue : GoodWork(queue[v])
  BY DEF WorkIInv
<1>3. \A row : GoodWork(row) => O!Ended(O!Scored(row)) = O!Ended(row)
  BY DEF GoodWork, O!Work, O!Scored, O!Ended
<1>4. QueueKept /\ \A v \in DOMAIN queue : O!Ended(queue'[v]) = O!Ended(queue[v])
  <2>1. ASSUME NEW w \in DOMAIN queue, O!Score(w)
        PROVE  QueueKept /\ \A v \in DOMAIN queue : O!Ended(queue'[v]) = O!Ended(queue[v])
    <3>1. queue' = [queue EXCEPT ![w] = O!Scored(queue[w])]
      BY <2>1 DEF O!Score
    <3>2. QueueKept
      BY <1>2, <3>1, RowsFollow, OneWorkChanges
    <3>3. \A v \in DOMAIN queue : queue'[v] = IF v = w THEN O!Scored(queue[w]) ELSE queue[v]
      BY <3>1
    <3> QED
      BY <1>2, <1>3, <3>2, <3>3
  <2>2. ASSUME O!ScoreAll
        PROVE  QueueKept /\ \A v \in DOMAIN queue : O!Ended(queue'[v]) = O!Ended(queue[v])
    <3>1. QueueKept
      BY <2>2, AllAreScored
    <3>2. \A v \in DOMAIN queue : queue'[v] = O!Scored(queue[v]) \/ queue'[v] = queue[v]
      BY <2>2 DEF O!ScoreAll
    <3> QED
      BY <1>2, <1>3, <3>1, <3>2
  <2> QED
    BY <2>1, <2>2
<1>5. WorkIInv'
  BY <1>1, <1>4, TablesStay, WorkTyped
<1> QED
  BY <1>4, <1>5 DEF WorkGoesOn, ByPeople

\* A change by hand.
LEMMA HandStep ==
    ASSUME WorkConstants, WorkIInv, NEW w \in DOMAIN queue,
           \/ \E c \in Chatters : O!Assign(w, c)
           \/ \E s \in O!Statuses : O!SetStatus(w, s)
    PROVE  WorkGoesOn
<1>1. O!Act /\ UNCHANGED <<able, watch, alerts, results, predicted, outcomes, proven>>
  BY DEF O!Assign, O!SetStatus
<1>2. GoodWork(queue[w])
  BY DEF WorkIInv
<1>3. QueueKept
  <2>1. ASSUME NEW c \in Chatters, O!Assign(w, c)
        PROVE  QueueKept
    <3>1. queue' = [queue EXCEPT ![w] = [queue[w] EXCEPT !.assignee = c, !.status = "assigned"]]
      BY <2>1 DEF O!Assign
    <3> QED
      BY <1>2, <3>1, RowsFollow, OneWorkChanges
  <2>2. ASSUME NEW s \in O!Statuses, O!SetStatus(w, s)
        PROVE  QueueKept
    <3>1. queue' = [queue EXCEPT ![w] = [queue[w] EXCEPT !.status = s,
                                                       !.done = @ \/ s = "completed"]]
      BY <2>2 DEF O!SetStatus
    <3> QED
      BY <1>2, <3>1, RowsFollow, OneWorkChanges
  <2> QED
    BY <2>1, <2>2
<1>4. acts' > acts
  BY <1>1, Acted
<1>5. WorkIInv'
  BY <1>1, <1>3, TablesStay, WorkTyped
<1> QED
  BY <1>1, <1>4, <1>5 DEF WorkGoesOn, ByPeople

\* A result is one more of its work, and a post ends it with its date.
LEMMA RecordStep ==
    ASSUME WorkConstants, WorkIInv, NEW w \in DOMAIN queue, NEW status \in O!ResultStatuses,
           NEW fruitful \in BOOLEAN, O!Record(w, status, fruitful)
    PROVE  WorkGoesOn
<1>a. PICK row : row = [work |-> w, status |-> status, fruitful |-> fruitful,
                        prediction |-> predicted[w]]
  OBVIOUS
<1>b. PICK n : n = Len(results)
  OBVIOUS
<1>1. /\ queue' = [queue EXCEPT ![w] = O!Reported(queue[w], status)]
      /\ results' = Append(results, row) /\ O!Act
      /\ outcomes' = [outcomes EXCEPT ![w] = O!Learned(outcomes[w], O!Outcome(status, fruitful))]
      /\ proven' = IF predicted[w] = 0 THEN proven
                   ELSE [proven EXCEPT ![w][predicted[w]] =
                           O!Learned(@, O!PredictionOutcome(status, fruitful))]
      /\ UNCHANGED <<able, watch, alerts, predicted>>
  BY <1>a DEF O!Record
<1>2. /\ results \in Seq(Result) /\ n \in Nat /\ DOMAIN results = 1 .. n
      /\ w \in O!Works /\ w \in 0 .. MaxWork /\ w \in Nat
      /\ outcomes \in [0 .. MaxWork -> [O!Counters -> Nat]]
      /\ proven \in [O!Works -> [1 .. MaxActs -> [O!Counters -> Nat]]]
      /\ predicted \in [O!Works -> 0 .. MaxActs]
      /\ \A i \in 1 .. n : results[i].work \in DOMAIN queue
  <2>1. results \in Seq(Result) /\ \A i \in DOMAIN results : results[i].work \in DOMAIN queue
    BY WorkTyped DEF WorkIInv
  <2>2. w \in O!Works /\ w \in Nat /\ w \in 0 .. MaxWork
    BY WorkTyped DEF O!Works
  <2>3. n \in Nat /\ DOMAIN results = 1 .. n
    BY <1>b, <2>1
  <2> QED
    BY <2>1, <2>2, <2>3, WorkTyped
<1>3. row \in Result /\ row.work = w /\ row.status = status
  BY <1>2, <1>a DEF Result
<1>4. /\ results' \in Seq(Result) /\ DOMAIN results' = 1 .. n + 1 /\ Len(results') = n + 1
      /\ results'[n + 1] = row /\ \A i \in 1 .. n : results'[i] = results[i]
  BY <1>1, <1>2, <1>3, <1>b
<1>5. GoodWork(queue[w])
  BY DEF WorkIInv
<1>6. QueueKept
  BY <1>1, <1>5, RowsFollow, OneWorkChanges
<1>7. O!AlertsAreWhole'
  BY <1>1, <1>6, AlertsStay
<1>8. O!ResultsAreRemembered'
  BY ResultIsCounted
<1>9. /\ acts' \in 0 .. MaxActs /\ \A v \in O!Works : predicted'[v] <= acts'
  BY <1>1, Acted
<1>10. outcomes' \in [0 .. MaxWork -> [O!Counters -> Nat]]
  <2>1. O!Learned(outcomes[w], O!Outcome(status, fruitful)) \in [O!Counters -> Nat]
    BY <1>2, LearnedCounts
  <2> QED
    BY <1>1, <1>2, <2>1
<1>11. proven' \in [O!Works -> [1 .. MaxActs -> [O!Counters -> Nat]]]
  <2>1. CASE predicted[w] = 0
    BY <1>1, <1>2, <2>1
  <2>2. CASE predicted[w] # 0
    <3>1. predicted[w] \in 1 .. MaxActs /\ proven[w] \in [1 .. MaxActs -> [O!Counters -> Nat]]
      BY <1>2, <2>2, WorkTyped
    <3>2. PICK counts : counts = O!Learned(proven[w][predicted[w]],
                                           O!PredictionOutcome(status, fruitful))
      OBVIOUS
    <3>3. counts \in [O!Counters -> Nat]
      BY <3>1, <3>2, LearnedCounts
    <3>4. [proven[w] EXCEPT ![predicted[w]] = counts] \in [1 .. MaxActs -> [O!Counters -> Nat]]
      BY <3>1, <3>3
    <3>5. proven' = [proven EXCEPT ![w] = [proven[w] EXCEPT ![predicted[w]] = counts]]
      BY <1>1, <2>2, <3>2
    <3> QED
      BY <1>2, <3>4, <3>5
  <2> QED
    BY <2>1, <2>2
<1>12. OthersTyped
  BY <1>1, <1>4, <1>9, <1>10, <1>11, WorkTyped DEF OthersTyped
<1>13. \A i \in DOMAIN results' : results'[i].work \in DOMAIN queue'
  <2>1. \A v \in DOMAIN queue : v \in DOMAIN queue'
    BY <1>6 DEF QueueKept
  <2>2. \A i \in DOMAIN results' : i \in 1 .. n \/ i = n + 1
    BY <1>2, <1>4
  <2> QED
    BY <1>2, <1>3, <1>4, <2>1, <2>2
<1>14. O!EndsAreDated'
  <2>1. /\ \A v \in DOMAIN queue : queue[v].done => queue'[v].done
        /\ \A v \in DOMAIN queue' : queue'[v].status = "completed" => queue'[v].done
    BY <1>6 DEF QueueKept, GrewFrom, GoodWork
  <2>2. \A i \in 1 .. n : results[i].status = "posted" => queue[results[i].work].done
    BY <1>2 DEF WorkIInv, O!EndsAreDated
  <2>3. status = "posted" => queue'[w].done
    <3>1. queue'[w] = O!Reported(queue[w], status)
      BY <1>1
    <3> QED
      BY <1>5, <3>1 DEF O!Reported, GoodWork, O!Work
  <2>4. \A i \in DOMAIN results' : i \in 1 .. n \/ i = n + 1
    BY <1>2, <1>4
  <2>5. ASSUME NEW i \in DOMAIN results', results'[i].status = "posted"
        PROVE  queue'[results'[i].work].done
    <3>1. CASE i \in 1 .. n
      BY <1>2, <1>4, <2>1, <2>2, <2>5, <3>1
    <3>2. CASE i = n + 1
      BY <1>3, <1>4, <2>3, <2>5, <3>2
    <3> QED
      BY <2>4, <3>1, <3>2
  <2> QED
    BY <2>1, <2>5 DEF O!EndsAreDated
<1>15. WorkIInv'
  BY <1>6, <1>7, <1>8, <1>9, <1>12, <1>13, <1>14, Together
<1>16. ByPeople
  <2>1. \A v \in DOMAIN queue : v # w => queue'[v] = queue[v]
    BY <1>1
  <2>2. Len(results') > Len(results) /\ results'[Len(results')].work = w
    BY <1>2, <1>3, <1>4, <1>b
  <2> QED
    BY <2>1, <2>2 DEF ByPeople
<1> QED
  BY <1>15, <1>16 DEF WorkGoesOn

\* A prediction touches no work.
LEMMA PredictStep ==
    ASSUME WorkConstants, WorkIInv, NEW ws \in SUBSET O!Works, O!Predicted(ws)
    PROVE  WorkGoesOn
<1>1. UNCHANGED <<able, watch, queue, alerts, results, proven>>
  BY DEF O!Predicted
<1>2. QueueKept
  BY <1>1, QueueUntouched
<1>3. /\ O!AlertsAreWhole' /\ O!EndsAreDated'
      /\ \A i \in DOMAIN results' : results'[i].work \in DOMAIN queue'
  BY <1>1, <1>2, AlertsStay, DatesStay
<1>4. OthersTyped
  BY <1>1, PredictionsAreCounted, WorkTyped DEF OthersTyped
<1>5. WorkIInv'
  BY <1>2, <1>3, <1>4, PredictionsAreCounted, Together
<1> QED
  BY <1>1, <1>5 DEF WorkGoesOn, ByPeople

LEMMA WorkStep ==
    ASSUME WorkConstants, WorkIInv, O!Next
    PROVE  WorkGoesOn
<1>1. CASE \/ \E c \in Chatters : O!ChangeAccess(c)
           \/ \E c \in Chatters : O!AssignCreator(c)
           \/ \E c \in Chatters : O!AssignPost(c)
           \/ \E p \in Priorities : O!UpdateWatch(p)
  BY <1>1, WatchStep
<1>2. CASE \/ \E p \in Priorities, c \in Chatters \cup {NoChatter} : O!Create(p, c)
           \/ O!CreateFromWatch
           \/ O!AlertRefused
  BY <1>2, CreateStep
<1>3. CASE O!Alert
  BY <1>3, AlertStep
<1>4. CASE \E i \in DOMAIN alerts : O!ReviewAlert(i)
  BY <1>4, ReviewStep
<1>5. CASE (\E w \in DOMAIN queue : O!Score(w)) \/ O!ScoreAll
  BY <1>5, ScoreStep
<1>6. CASE \/ \E w \in DOMAIN queue, c \in Chatters : O!Assign(w, c)
           \/ \E w \in DOMAIN queue, s \in O!Statuses : O!SetStatus(w, s)
  BY <1>6, HandStep
<1>7. CASE \E w \in DOMAIN queue, s \in O!ResultStatuses, fruitful \in BOOLEAN :
             O!Record(w, s, fruitful)
  BY <1>7, RecordStep
<1>8. CASE O!PredictBest
  <2>1. O!OpenWork \in SUBSET O!Works
    BY WorkTyped DEF O!OpenWork
  <2> QED
    BY <1>8, <2>1, PredictStep DEF O!PredictBest
<1>9. CASE \E w \in DOMAIN queue : O!PredictDetails(w)
  BY <1>9, PredictStep, WorkTyped DEF O!PredictDetails
<1> QED
  BY <1>1, <1>2, <1>3, <1>4, <1>5, <1>6, <1>7, <1>8, <1>9 DEF O!Next

LEMMA WorkInit ==
    ASSUME WorkConstants, O!Init
    PROVE  WorkIInv
<1>1. /\ able = Chatters /\ watch \in O!Watches
      /\ queue = <<>> /\ alerts = <<>> /\ results = <<>> /\ acts = 0
      /\ predicted = [w \in O!Works |-> 0]
      /\ outcomes = [w \in 0 .. MaxWork |-> O!NoOutcomes]
      /\ proven = [w \in O!Works |-> [n \in 1 .. MaxActs |-> O!NoOutcomes]]
  BY DEF O!Init
<1>2. /\ O!NoOutcomes \in [O!Counters -> Nat] /\ \A c \in O!Counters : O!NoOutcomes[c] = 0
      /\ {"occurrences", "success", "failure", "partial", "ignored"} \subseteq O!Counters
  BY DEF O!NoOutcomes, O!Counters
<1>3. /\ predicted \in [O!Works -> 0 .. MaxActs]
      /\ outcomes \in [0 .. MaxWork -> [O!Counters -> Nat]]
      /\ proven \in [O!Works -> [1 .. MaxActs -> [O!Counters -> Nat]]]
      /\ acts \in 0 .. MaxActs /\ Len(queue) <= MaxWork
  BY <1>1, <1>2 DEF WorkConstants
<1>4. O!TypeOK
  BY <1>1, <1>3 DEF O!TypeOK
<1>5. ASSUME NEW w \in O!Works
      PROVE  Remembered(w)
  <2>1. /\ O!Of(w) = {} /\ O!Fruitful(w) = {}
        /\ \A s : O!OfStatus(w, s) = {}
        /\ \A k : OfPrediction(w, k) = {}
    BY <1>1 DEF O!Of, O!Fruitful, O!OfStatus, OfPrediction
  <2>2. Cardinality({}) = 0
    BY FS_EmptySet
  <2>3. w \in 0 .. MaxWork
    BY DEF O!Works, WorkConstants
  <2>4. /\ predicted[w] = 0 /\ outcomes[w] = O!NoOutcomes
        /\ \A k \in 1 .. MaxActs : proven[w][k] = O!NoOutcomes
    BY <1>1, <2>3
  <2> QED
    BY <1>2, <2>1, <2>2, <2>4 DEF Remembered
<1>6. O!ResultsAreRemembered
  BY <1>5, MemoriesByWork
<1>7. /\ DOMAIN queue = {} /\ DOMAIN alerts = {} /\ DOMAIN results = {}
  BY <1>1
<1>8. O!AlertsAreWhole /\ O!EndsAreDated
  BY <1>7 DEF O!AlertsAreWhole, O!EndsAreDated
<1> QED
  BY <1>1, <1>3, <1>4, <1>6, <1>7, <1>8 DEF WorkIInv

LEMMA WorkInvariance ==
    ASSUME WorkConstants
    PROVE  Spec => []WorkIInv
<1>1. Init => WorkIInv
  BY WorkInit DEF Init
<1>2. WorkIInv /\ [Next]_vars => WorkIInv'
  <2> SUFFICES ASSUME WorkIInv, [Next]_vars
               PROVE  WorkIInv'
    OBVIOUS
  <2>1. CASE O!Next
    BY <2>1, WorkStep DEF WorkGoesOn
  <2>2. CASE UNCHANGED opportunities
    <3>1. QueueKept
      BY <2>2, QueueUntouched DEF opportunities
    <3> QED
      BY <2>2, <3>1, TablesStay, WorkTyped DEF opportunities
  <2> QED
    BY <2>1, <2>2 DEF Next, vars, opportunities
<1> QED
  BY <1>1, <1>2, PTL DEF Spec

\* Whatever the order of alerts, results, predictions and changes by hand, the
\* memories are the history, alerts have their work and tasks, ends their dates,
\* and nobody but people ends work.
THEOREM WorkBooksAgree ==
    ASSUME WorkConstants
    PROVE  Spec => BooksAgree
<1>1. WorkIInv => O!ResultsAreRemembered /\ O!AlertsAreWhole /\ O!EndsAreDated
  BY DEF WorkIInv
<1>2. ASSUME WorkIInv, [Next]_vars
      PROVE  [ByPeople]_opportunities
  <2>1. CASE O!Next
    BY <1>2, <2>1, WorkStep DEF WorkGoesOn
  <2>2. CASE UNCHANGED opportunities
    BY <2>2
  <2> QED
    BY <1>2, <2>1, <2>2 DEF Next, vars, opportunities
<1> QED
  BY <1>1, <1>2, WorkInvariance, PTL DEF Spec, BooksAgree, O!BooksAgree, O!PeopleDecide, ByPeople,
     opportunities, O!vars

-----------------------------------------------------------------------------
(* Drift.                                                                  *)

\* What the constants stand for: the kinds of plan there are, two bounds, and
\* marks that are neither a reporter nor a draft.
DriftConstants ==
    /\ Followed \subseteq G!Keys
    /\ MaxPlans \in Nat /\ MaxFindings \in Nat
    /\ Committed \notin Reporters /\ Gone \notin Reporters /\ Committed # Gone
    /\ Idle \notin G!Draft

\* A reporter in flight marks rows that everyone sees, with what it found.
MarksAreSeen(r) ==
    \A i \in 1 .. MaxFindings : drafts[r].marks[i] # "none" =>
        /\ i \in DOMAIN findings /\ findings[i].by = Committed
        /\ drafts[r].marks[i] \in {"active", "needs_review", "resolved"}

\* It compares plans that it sees, active ones unless it was overtaken.
PlansAreDue(r) ==
    \A p \in drafts[r].todo :
        /\ p \in DOMAIN plans /\ G!Seen(plans[p], r)
        /\ p \notin drafts[r].met => plans[p].status = "active"

\* It has written nothing when it is idle.
NothingWritten(r) ==
    /\ \A p \in DOMAIN plans : plans[p].by # r
    /\ \A i \in DOMAIN findings : findings[i].by # r

\* In its eyes the findings of a plan are in order as well.
InOrderFor(r, p) ==
    /\ \A i \in G!OpenFor(r, p) : plans[p].status = "active"
    /\ \A i, j \in G!OpenFor(r, p) : findings[i].gap = findings[j].gap => i = j
    /\ \A i \in DOMAIN findings : findings[i].plan = p /\ G!Seen(findings[i], r) =>
         ((findings[i].stamped \/ drafts[r].marks[i] = "resolved") <=> i \notin G!OpenFor(r, p))

\* What it sees of every plan that nobody else wrote about since it began.
ViewsAreInOrder(r) ==
    \A p \in DOMAIN plans :
        G!Seen(plans[p], r) /\ p \notin overtaken /\ p \notin drafts[r].met => InOrderFor(r, p)

SoundDraft(r) ==
    IF drafts[r] = Idle THEN NothingWritten(r)
    ELSE MarksAreSeen(r) /\ PlansAreDue(r) /\ ViewsAreInOrder(r)

\* A finding belongs to a plan that whoever sees the finding sees.
KnownRow(i) ==
    findings[i].by # Gone =>
        /\ findings[i].plan \in DOMAIN plans
        /\ plans[findings[i].plan].by \in {Committed, findings[i].by}

DatedRow(i) == findings[i].by # Gone /\ findings[i].status = "resolved" => findings[i].stamped

\* Whoever wrote that a finding reappeared saw one resolved before it.
ReturnedRow(i) ==
    findings[i].status = "reappeared" /\ findings[i].by # Gone =>
        \E j \in 1 .. (i - 1) :
            /\ findings[j].plan = findings[i].plan /\ findings[j].gap = findings[i].gap
            /\ findings[j].by \in {Committed, findings[i].by}
            /\ \/ findings[j].stamped
               \/ /\ findings[i].by \in Reporters
                  /\ drafts[findings[i].by].marks[j] = "resolved"

SoundRow(i) == KnownRow(i) /\ DatedRow(i) /\ ReturnedRow(i)

DriftIInv ==
    /\ G!TypeOK
    /\ \A i \in DOMAIN findings : SoundRow(i)
    /\ \A r \in Reporters : SoundDraft(r)
    /\ G!PlansAreInOrder

LEMMA DriftTyped ==
    ASSUME DriftConstants, DriftIInv
    PROVE  /\ plan_key \in G!Keys
           /\ plans \in Seq(G!Plan) /\ Len(plans) \in Nat /\ Len(plans) <= MaxPlans
           /\ DOMAIN plans = 1 .. Len(plans) /\ DOMAIN plans \subseteq 1 .. MaxPlans
           /\ \A p \in DOMAIN plans : plans[p] \in G!Plan
           /\ findings \in Seq(G!Finding) /\ Len(findings) \in Nat /\ Len(findings) <= MaxFindings
           /\ DOMAIN findings = 1 .. Len(findings) /\ DOMAIN findings \subseteq 1 .. MaxFindings
           /\ \A i \in DOMAIN findings : findings[i] \in G!Finding
           /\ drafts \in [Reporters -> G!Draft \cup {Idle}]
           /\ \A r \in Reporters : drafts[r] # Idle => drafts[r] \in G!Draft
           /\ overtaken \subseteq 1 .. MaxPlans
           /\ MaxPlans \in Nat /\ MaxFindings \in Nat
<1>1. /\ plan_key \in G!Keys
      /\ plans \in Seq(G!Plan) /\ Len(plans) <= MaxPlans
      /\ findings \in Seq(G!Finding) /\ Len(findings) <= MaxFindings
      /\ drafts \in [Reporters -> G!Draft \cup {Idle}]
      /\ overtaken \subseteq 1 .. MaxPlans
      /\ MaxPlans \in Nat /\ MaxFindings \in Nat
  BY DEF DriftConstants, DriftIInv, G!TypeOK
<1>2. /\ Len(plans) \in Nat /\ DOMAIN plans = 1 .. Len(plans)
      /\ \A p \in DOMAIN plans : plans[p] \in G!Plan
  BY <1>1
<1>3. /\ Len(findings) \in Nat /\ DOMAIN findings = 1 .. Len(findings)
      /\ \A i \in DOMAIN findings : findings[i] \in G!Finding
  BY <1>1
<1>4. \A r \in Reporters : drafts[r] # Idle => drafts[r] \in G!Draft
  BY <1>1
<1>5. DOMAIN plans \subseteq 1 .. MaxPlans /\ DOMAIN findings \subseteq 1 .. MaxFindings
  BY <1>1, <1>2, <1>3
<1> QED
  BY <1>1, <1>2, <1>3, <1>4, <1>5

\* What may be found of a plan.
LEMMA GapsTyped ==
    ASSUME NEW key \in G!Keys, NEW v \in G!Gaps(key)
    PROVE  v[1] \in {u[1] : u \in G!AllGaps} /\ v[2] \in {"active", "needs_review"}
<1>1. v \in G!AllGaps
  BY DEF G!AllGaps
<1>2. v[2] \in {"active", "needs_review"}
  BY DEF G!Gaps, G!ManualGaps, G!Keys, G!StarterKeys
<1> QED
  BY <1>1, <1>2

\* A reporter sees the same of a plan.
LEMMA SameView ==
    ASSUME NEW r, NEW p, InOrderFor(r, p),
           \A i \in DOMAIN findings' : findings'[i].plan = p /\ G!Seen(findings'[i], r) =>
               i \in DOMAIN findings /\ findings'[i] = findings[i],
           \A i \in DOMAIN findings : findings[i].plan = p /\ G!Seen(findings[i], r) =>
               /\ i \in DOMAIN findings' /\ findings'[i] = findings[i]
               /\ drafts'[r].marks[i] = drafts[r].marks[i],
           plans[p].status = "active" => plans'[p].status = "active"
    PROVE  InOrderFor(r, p)'
<1>1. \A i \in DOMAIN findings' : findings'[i].plan = p /\ G!Seen(findings'[i], r) =>
         i \in DOMAIN findings /\ G!StatusFor(r, i)' = G!StatusFor(r, i)
  BY DEF G!StatusFor
<1>2. G!OpenFor(r, p)' = G!OpenFor(r, p)
  BY <1>1 DEF G!OpenFor, G!Seen
<1>3. \A i \in G!OpenFor(r, p) : findings'[i] = findings[i]
  BY DEF G!OpenFor
<1> QED
  BY <1>2, <1>3 DEF InOrderFor, G!Seen

\* It sees nothing of a plan.
LEMMA EmptyView ==
    ASSUME NEW r, NEW p,
           \A i \in DOMAIN findings' : ~(findings'[i].plan = p /\ G!Seen(findings'[i], r))
    PROVE  InOrderFor(r, p)'
<1>1. G!OpenFor(r, p)' = {}
  BY DEF G!OpenFor, G!Seen
<1> QED
  BY <1>1 DEF InOrderFor, G!Seen

\* It sees what everyone does.
LEMMA FreshView ==
    ASSUME NEW r \in Reporters, NEW p, G!InOrder(p)',
           \A i \in DOMAIN findings' : findings'[i].by # r /\ drafts'[r].marks[i] = "none"
    PROVE  InOrderFor(r, p)'
<1>1. \A i \in DOMAIN findings' : G!StatusFor(r, i)' = findings'[i].status
  BY DEF G!StatusFor
<1>2. \A i \in DOMAIN findings' : G!Seen(findings'[i], r) <=> findings'[i].by = Committed
  BY DEF G!Seen
<1>3. \A i : i \in G!OpenFor(r, p)' <=>
        i \in DOMAIN findings' /\ findings'[i].plan = p /\ findings'[i].by = Committed
        /\ findings'[i].status \in G!OpenStatuses
  BY <1>1, <1>2 DEF G!OpenFor, G!Seen, G!OpenStatuses
<1>4. /\ \A i \in G!OpenFor(r, p)' : plans'[p].status = "active"
      /\ \A i, j \in G!OpenFor(r, p)' : findings'[i].gap = findings'[j].gap => i = j
      /\ \A i \in DOMAIN findings' : findings'[i].plan = p /\ findings'[i].by = Committed =>
           (findings'[i].stamped <=> i \notin G!OpenFor(r, p)')
  BY <1>3 DEF G!InOrder, G!OpenStatuses
<1>5. \A i \in DOMAIN findings' : findings'[i].plan = p /\ G!Seen(findings'[i], r) =>
         ((findings'[i].stamped \/ drafts'[r].marks[i] = "resolved") <=> i \notin G!OpenFor(r, p)')
  BY <1>2, <1>4
<1> QED
  BY <1>4, <1>5 DEF InOrderFor, G!Seen

\* Everyone sees the same of a plan.
LEMMA SameOrder ==
    ASSUME NEW p, G!InOrder(p),
           \A i \in DOMAIN findings' : findings'[i].plan = p /\ findings'[i].by = Committed =>
               i \in DOMAIN findings /\ findings'[i] = findings[i],
           \A i \in DOMAIN findings : findings[i].plan = p /\ findings[i].by = Committed =>
               i \in DOMAIN findings' /\ findings'[i] = findings[i],
           plans[p].status = "active" => plans'[p].status = "active"
    PROVE  G!InOrder(p)'
BY DEF G!InOrder, G!OpenStatuses

\* What only the reporter sees: its rows change, or are taken back, or are new.
Private(r) ==
    /\ \A s \in Reporters \ {r} : drafts'[s] = drafts[s]
    /\ overtaken' = overtaken
    /\ \A i \in DOMAIN findings :
         /\ i \in DOMAIN findings'
         /\ \/ findings'[i] = findings[i]
            \/ findings[i].by = r /\ findings'[i].by \in {r, Gone}
    /\ \A i \in DOMAIN findings' \ DOMAIN findings : findings'[i].by = r
    /\ \A p \in DOMAIN plans :
         /\ p \in DOMAIN plans'
         /\ \/ plans'[p] = plans[p]
            \/ plans[p].by = r /\ plans'[p].by \in {r, Gone}
    /\ \A p \in DOMAIN plans' \ DOMAIN plans : plans'[p].by = r

LEMMA OthersSeeNothing ==
    ASSUME DriftConstants, DriftIInv, NEW r \in Reporters, Private(r)
    PROVE  /\ \A s \in Reporters \ {r} : SoundDraft(s)'
           /\ G!PlansAreInOrder'
           /\ \A i \in DOMAIN findings' : findings'[i].by # r => SoundRow(i)'
<1>0. Committed # r /\ Gone # r /\ Committed # Gone /\ Committed \notin Reporters
      /\ Gone \notin Reporters
  BY DEF DriftConstants
<1>1. /\ \A i \in DOMAIN findings : SoundRow(i)
      /\ \A s \in Reporters : SoundDraft(s)
      /\ G!PlansAreInOrder
      /\ DOMAIN findings = 1 .. Len(findings) /\ Len(findings) \in Nat
      /\ DOMAIN findings \subseteq 1 .. MaxFindings
  BY DriftTyped DEF DriftIInv
<1>2. /\ \A i \in DOMAIN findings' : findings'[i].by \notin {r, Gone} =>
           i \in DOMAIN findings /\ findings'[i] = findings[i]
      /\ \A i \in DOMAIN findings : findings[i].by # r =>
           i \in DOMAIN findings' /\ findings'[i] = findings[i]
      /\ \A p \in DOMAIN plans' : plans'[p].by \notin {r, Gone} =>
           p \in DOMAIN plans /\ plans'[p] = plans[p]
      /\ \A p \in DOMAIN plans : plans[p].by # r => p \in DOMAIN plans' /\ plans'[p] = plans[p]
      /\ \A s \in Reporters \ {r} : drafts'[s] = drafts[s]
      /\ overtaken' = overtaken
  BY DEF Private
<1>3. ASSUME NEW s \in Reporters, s # r
      PROVE  SoundDraft(s)'
  <2>0. drafts'[s] = drafts[s] /\ s # Gone /\ s # Committed /\ SoundDraft(s)
    BY <1>0, <1>1, <1>2, <1>3
  <2>1. CASE drafts[s] = Idle
    <3>1. NothingWritten(s)
      BY <2>0, <2>1 DEF SoundDraft
    <3>2. NothingWritten(s)'
      BY <1>2, <1>3, <2>0, <3>1 DEF NothingWritten
    <3> QED
      BY <2>0, <2>1, <3>2 DEF SoundDraft
  <2>2. CASE drafts[s] # Idle
    <3>1. MarksAreSeen(s) /\ PlansAreDue(s) /\ ViewsAreInOrder(s)
      BY <2>0, <2>2 DEF SoundDraft
    <3>2. MarksAreSeen(s)'
      BY <1>0, <1>2, <2>0, <3>1 DEF MarksAreSeen
    <3>3. PlansAreDue(s)'
      <4>1. \A p \in drafts[s].todo : p \in DOMAIN plans /\ plans[p].by # r
        BY <1>0, <1>3, <3>1 DEF PlansAreDue, G!Seen
      <4> QED
        BY <1>2, <2>0, <3>1, <4>1 DEF PlansAreDue, G!Seen
    <3>4. ViewsAreInOrder(s)'
      <4> SUFFICES ASSUME NEW p \in DOMAIN plans', G!Seen(plans'[p], s), p \notin overtaken',
                          p \notin drafts'[s].met
                   PROVE  InOrderFor(s, p)'
        BY DEF ViewsAreInOrder, G!Seen
      <4>1. p \in DOMAIN plans /\ plans'[p] = plans[p]
        BY <1>0, <1>2, <1>3, <2>0 DEF G!Seen
      <4>2. InOrderFor(s, p)
        BY <1>2, <2>0, <3>1, <4>1 DEF ViewsAreInOrder
      <4>3. \A row : G!Seen(row, s) => row.by \notin {r, Gone}
        BY <1>0, <1>3, <2>0 DEF G!Seen
      <4> QED
        BY <1>2, <2>0, <4>1, <4>2, <4>3, SameView
    <3> QED
      BY <2>0, <2>2, <3>2, <3>3, <3>4 DEF SoundDraft
  <2> QED
    BY <2>1, <2>2
<1>4. G!PlansAreInOrder'
  <2>1. ASSUME NEW p \in DOMAIN plans', plans'[p].by = Committed, p \notin overtaken'
        PROVE  G!InOrder(p)'
    <3>1. p \in DOMAIN plans /\ plans'[p] = plans[p]
      BY <1>0, <1>2, <2>1
    <3>2. G!InOrder(p)
      BY <1>1, <1>2, <2>1, <3>1 DEF G!PlansAreInOrder
    <3> QED
      BY <1>0, <1>2, <3>1, <3>2, SameOrder
  <2> QED
    BY <2>1 DEF G!PlansAreInOrder
<1>5. ASSUME NEW i \in DOMAIN findings', findings'[i].by # r
      PROVE  SoundRow(i)'
  <2>1. CASE findings'[i].by = Gone
    BY <2>1 DEF SoundRow, KnownRow, DatedRow, ReturnedRow
  <2>2. CASE findings'[i].by # Gone
    <3>1. i \in DOMAIN findings /\ findings'[i] = findings[i] /\ SoundRow(i)
      BY <1>1, <1>2, <1>5, <2>2
    <3>2. KnownRow(i)'
      <4>1. /\ findings[i].plan \in DOMAIN plans
            /\ plans[findings[i].plan].by \in {Committed, findings[i].by}
        BY <2>2, <3>1 DEF SoundRow, KnownRow
      <4>2. plans[findings[i].plan].by # r
        BY <1>0, <1>5, <3>1, <4>1
      <4> QED
        BY <1>2, <3>1, <4>1, <4>2 DEF KnownRow
    <3>3. DatedRow(i)'
      BY <2>2, <3>1 DEF SoundRow, DatedRow
    <3>4. ReturnedRow(i)'
      <4> SUFFICES ASSUME findings[i].status = "reappeared"
                   PROVE  ReturnedRow(i)'
        BY <3>1 DEF ReturnedRow
      <4>1. PICK j \in 1 .. (i - 1) :
                /\ findings[j].plan = findings[i].plan /\ findings[j].gap = findings[i].gap
                /\ findings[j].by \in {Committed, findings[i].by}
                /\ \/ findings[j].stamped
                   \/ /\ findings[i].by \in Reporters
                      /\ drafts[findings[i].by].marks[j] = "resolved"
        BY <2>2, <3>1 DEF SoundRow, ReturnedRow
      <4>2. j \in DOMAIN findings /\ findings[j].by # r
        BY <1>0, <1>1, <1>5, <3>1, <4>1
      <4>3. findings'[j] = findings[j]
        BY <1>2, <4>2
      <4>4. findings[i].by \in Reporters => drafts'[findings[i].by] = drafts[findings[i].by]
        BY <1>2, <1>5, <3>1
      <4> QED
        BY <3>1, <4>1, <4>3, <4>4 DEF ReturnedRow
    <3> QED
      BY <3>2, <3>3, <3>4 DEF SoundRow
  <2> QED
    BY <2>1, <2>2
<1> QED
  BY <1>3, <1>4, <1>5

\* Such a step goes on from what it does for the reporter itself.
LEMMA PrivateStep ==
    ASSUME DriftConstants, DriftIInv, NEW r \in Reporters, Private(r), G!TypeOK', SoundDraft(r)',
           \A i \in DOMAIN findings' : findings'[i].by = r => SoundRow(i)'
    PROVE  DriftIInv'
<1>1. \A i \in DOMAIN findings' : SoundRow(i)'
  BY OthersSeeNothing
<1>2. \A s \in Reporters : SoundDraft(s)'
  BY OthersSeeNothing
<1> QED
  BY <1>1, <1>2, OthersSeeNothing DEF DriftIInv

\* A comparison begins: with a plan of the session's own, if there is none.
LEMMA PlansBegin ==
    ASSUME DriftConstants, DriftIInv, NEW r \in Reporters, Len(G!PlansFor(r)) <= MaxPlans,
           plans' = G!PlansFor(r)
    PROVE  /\ plans' \in Seq(G!Plan) /\ Len(plans') <= MaxPlans
           /\ DOMAIN plans' \subseteq 1 .. MaxPlans
           /\ \A p \in DOMAIN plans : p \in DOMAIN plans' /\ plans'[p] = plans[p]
           /\ \A p \in DOMAIN plans' \ DOMAIN plans : plans'[p].by = r
           /\ G!ActiveFor(r) \subseteq DOMAIN plans'
           /\ \A p \in G!ActiveFor(r) : plans'[p].status = "active" /\ G!Seen(plans'[p], r)
<1> DEFINE new == [status |-> "active", by |-> r]
<1>1. /\ plans \in Seq(G!Plan) /\ Len(plans) \in Nat /\ DOMAIN plans = 1 .. Len(plans)
      /\ MaxPlans \in Nat
  BY DriftTyped
<1>2. new \in G!Plan /\ new.by = r
  BY DEF G!Plan, G!Live
<1>3. plans' = plans \/ plans' = Append(plans, new)
  BY DEF G!PlansFor
<1> HIDE DEF new
<1>4. /\ plans' \in Seq(G!Plan) /\ Len(plans') \in Nat /\ DOMAIN plans' = 1 .. Len(plans')
      /\ \A p \in DOMAIN plans : p \in DOMAIN plans' /\ plans'[p] = plans[p]
      /\ \A p \in DOMAIN plans' \ DOMAIN plans : plans'[p] = new
  BY <1>1, <1>2, <1>3
<1>5. /\ G!ActiveFor(r) \subseteq DOMAIN plans'
      /\ \A p \in G!ActiveFor(r) : plans'[p].status = "active" /\ G!Seen(plans'[p], r)
  BY DEF G!ActiveFor
<1> QED
  BY <1>1, <1>2, <1>4, <1>5

\* Nobody sees a finding of a plan that is new.
LEMMA NewPlanIsEmpty ==
    ASSUME DriftConstants, DriftIInv, NEW p, p \notin DOMAIN plans, NEW i \in DOMAIN findings
    PROVE  findings[i].plan = p => findings[i].by = Gone
BY DEF DriftIInv, SoundRow, KnownRow

LEMMA CompareStep ==
    ASSUME DriftConstants, DriftIInv, NEW r \in Reporters, G!Begin(r) \/ G!Again(r)
    PROVE  DriftIInv'
<1>0. Committed # r /\ Gone # r /\ Committed # Gone
  BY DEF DriftConstants
<1>1. PICK draft \in G!Draft :
        /\ G!Compare(r, draft)
        /\ \/ drafts[r] = Idle /\ draft = G!NoDraft
           \/ /\ drafts[r] # Idle
              /\ draft.met = drafts[r].met /\ draft.marks = drafts[r].marks
  <2>1. CASE G!Begin(r)
    <3>1. G!NoDraft \in G!Draft
      BY DEF G!NoDraft, G!Draft, G!Unmarked
    <3> QED
      BY <2>1, <3>1 DEF G!Begin
  <2>2. CASE G!Again(r)
    <3>1. drafts[r] # Idle /\ drafts[r] \in G!Draft
      BY <2>2, DriftTyped DEF G!Again, G!Compared
    <3>2. [drafts[r] EXCEPT !.pass = 2] \in G!Draft
      BY <3>1 DEF G!Draft
    <3> QED
      BY <2>2, <3>1, <3>2 DEF G!Again, G!Draft
  <2> QED
    BY <2>1, <2>2
<1>2. /\ Len(G!PlansFor(r)) <= MaxPlans /\ plans' = G!PlansFor(r)
      /\ drafts' = [drafts EXCEPT ![r] = [draft EXCEPT !.todo = G!ActiveFor(r)]]
      /\ UNCHANGED <<plan_key, findings, overtaken>>
  BY <1>1 DEF G!Compare
<1>3. /\ plans' \in Seq(G!Plan) /\ Len(plans') <= MaxPlans
      /\ DOMAIN plans' \subseteq 1 .. MaxPlans
      /\ \A p \in DOMAIN plans : p \in DOMAIN plans' /\ plans'[p] = plans[p]
      /\ \A p \in DOMAIN plans' \ DOMAIN plans : plans'[p].by = r
      /\ G!ActiveFor(r) \subseteq DOMAIN plans'
      /\ \A p \in G!ActiveFor(r) : plans'[p].status = "active" /\ G!Seen(plans'[p], r)
  BY <1>2, PlansBegin
<1>4. [draft EXCEPT !.todo = G!ActiveFor(r)] \in G!Draft
  BY <1>1, <1>3 DEF G!Draft
<1>5. /\ drafts' \in [Reporters -> G!Draft \cup {Idle}]
      /\ drafts'[r] = [draft EXCEPT !.todo = G!ActiveFor(r)]
      /\ \A s \in Reporters \ {r} : drafts'[s] = drafts[s]
  BY <1>2, <1>4, DriftTyped
<1>6. /\ drafts'[r] # Idle /\ drafts'[r].todo = G!ActiveFor(r)
      /\ drafts'[r].marks = draft.marks /\ drafts'[r].met = draft.met
  BY <1>1, <1>4, <1>5 DEF G!Draft, DriftConstants
<1>7. G!TypeOK'
  BY <1>2, <1>3, <1>5 DEF DriftIInv, G!TypeOK, G!Plan, G!Finding, G!Draft, G!Live, G!FindingStatuses,
     G!AllGaps
<1>8. Private(r)
  BY <1>2, <1>3, <1>5 DEF Private
<1>9. \A i \in DOMAIN findings' : findings'[i].by = r => SoundRow(i)'
  <2> SUFFICES ASSUME NEW i \in DOMAIN findings, findings[i].by = r
               PROVE  SoundRow(i)'
    BY <1>2
  <2>1. drafts[r] # Idle /\ SoundRow(i)
    BY DEF DriftIInv, SoundDraft, NothingWritten
  <2>2. drafts'[r].marks = drafts[r].marks
    BY <1>1, <1>6, <2>1
  <2> QED
    BY <1>0, <1>2, <1>3, <2>1, <2>2 DEF SoundRow, KnownRow, DatedRow, ReturnedRow
<1>10. PlansAreDue(r)'
  BY <1>3, <1>6 DEF PlansAreDue, G!Seen
<1>11. MarksAreSeen(r)' /\ ViewsAreInOrder(r)'
  <2>1. CASE drafts[r] = Idle
    <3>1. \A i \in 1 .. MaxFindings : drafts'[r].marks[i] = "none"
      <4>1. G!NoDraft.marks = G!Unmarked /\ \A i \in 1 .. MaxFindings : G!Unmarked[i] = "none"
        BY DEF G!NoDraft, G!Unmarked
      <4>2. draft = G!NoDraft
        BY <1>1, <2>1
      <4> QED
        BY <1>6, <4>1, <4>2
    <3>2. MarksAreSeen(r)'
      BY <3>1 DEF MarksAreSeen
    <3>3. NothingWritten(r)
      BY <2>1 DEF DriftIInv, SoundDraft
    <3>4. ASSUME NEW p \in DOMAIN plans', p \notin overtaken'
          PROVE  InOrderFor(r, p)'
      <4>1. CASE p \in DOMAIN plans /\ plans[p].by = Committed
        <5>1. G!InOrder(p)'
          BY <1>3, <1>8, <3>4, <4>1, OthersSeeNothing DEF G!PlansAreInOrder
        <5>2. \A i \in DOMAIN findings' : findings'[i].by # r /\ drafts'[r].marks[i] = "none"
          BY <1>2, <3>1, <3>3, DriftTyped DEF NothingWritten
        <5> QED
          BY <5>1, <5>2, FreshView
      <4>2. CASE p \in DOMAIN plans /\ plans[p].by # Committed
        <5>1. \A i \in DOMAIN findings : findings[i].plan = p => ~G!Seen(findings[i], r)
          BY <1>0, <3>3, <4>2 DEF NothingWritten, DriftIInv, SoundRow, KnownRow, G!Seen
        <5> QED
          BY <1>2, <5>1, EmptyView
      <4>3. CASE p \notin DOMAIN plans
        <5>1. \A i \in DOMAIN findings : findings[i].plan = p => ~G!Seen(findings[i], r)
          BY <1>0, <4>3, NewPlanIsEmpty DEF G!Seen
        <5> QED
          BY <1>2, <5>1, EmptyView
      <4> QED
        BY <4>1, <4>2, <4>3
    <3> QED
      BY <3>2, <3>4 DEF ViewsAreInOrder
  <2>2. CASE drafts[r] # Idle
    <3>1. drafts'[r].marks = drafts[r].marks /\ drafts'[r].met = drafts[r].met
      BY <1>1, <1>6, <2>2
    <3>2. MarksAreSeen(r) /\ ViewsAreInOrder(r)
      BY <2>2 DEF DriftIInv, SoundDraft
    <3>3. MarksAreSeen(r)'
      BY <1>2, <3>1, <3>2 DEF MarksAreSeen
    <3>4. ASSUME NEW p \in DOMAIN plans', G!Seen(plans'[p], r), p \notin overtaken',
                 p \notin drafts'[r].met
          PROVE  InOrderFor(r, p)'
      <4>1. CASE p \in DOMAIN plans
        <5>1. InOrderFor(r, p)
          BY <1>2, <1>3, <3>1, <3>2, <3>4, <4>1 DEF ViewsAreInOrder
        <5> QED
          BY <1>2, <1>3, <3>1, <4>1, <5>1, SameView
      <4>2. CASE p \notin DOMAIN plans
        <5>1. \A i \in DOMAIN findings : findings[i].plan = p => ~G!Seen(findings[i], r)
          BY <1>0, <4>2, NewPlanIsEmpty DEF G!Seen
        <5> QED
          BY <1>2, <5>1, EmptyView
      <4> QED
        BY <4>1, <4>2
    <3> QED
      BY <3>3, <3>4 DEF ViewsAreInOrder, G!Seen
  <2> QED
    BY <2>1, <2>2
<1>12. SoundDraft(r)'
  BY <1>6, <1>10, <1>11 DEF SoundDraft
<1> QED
  BY <1>7, <1>8, <1>9, <1>12, PrivateStep

\* What a reporter at work compares next is one of the plans it sees.
LEMMA DueIsSeen ==
    ASSUME DriftConstants, DriftIInv, NEW r \in Reporters, G!Working(r)
    PROVE  /\ drafts[r] # Idle /\ drafts[r] \in G!Draft
           /\ MarksAreSeen(r) /\ PlansAreDue(r) /\ ViewsAreInOrder(r)
           /\ G!Due(r) \in drafts[r].todo /\ G!Due(r) \in DOMAIN plans
           /\ G!Due(r) \in 1 .. MaxPlans /\ G!Seen(plans[G!Due(r)], r)
           /\ G!Due(r) \notin drafts[r].met => plans[G!Due(r)].status = "active"
<1>1. drafts[r] # Idle /\ drafts[r] \in G!Draft /\ drafts[r].todo # {}
  BY DriftTyped DEF G!Working
<1>2. MarksAreSeen(r) /\ PlansAreDue(r) /\ ViewsAreInOrder(r)
  BY <1>1 DEF DriftIInv, SoundDraft
<1>3. drafts[r].todo \subseteq 1 .. MaxPlans
  BY <1>1 DEF G!Draft
<1>4. drafts[r].todo \subseteq Nat
  BY <1>3, DriftTyped
<1>5. \E p \in drafts[r].todo : \A q \in drafts[r].todo : p <= q
  BY <1>1, <1>4, HasLeast
<1>6. G!Due(r) \in drafts[r].todo
  BY <1>5 DEF G!Due
<1> QED
  BY <1>1, <1>2, <1>3, <1>6 DEF PlansAreDue

\* The work goes on with what is left, and with other marks for the findings
\* of the plan compared.
GoesOn(r) ==
    /\ \A s \in Reporters \ {r} : drafts'[s] = drafts[s]
    /\ drafts'[r] \in G!Draft
    /\ drafts'[r].todo = drafts[r].todo \ {G!Due(r)}
    /\ drafts'[r].met = drafts[r].met
    /\ UNCHANGED <<plan_key, plans, overtaken>>

LEMMA GoesOnTyped ==
    ASSUME DriftConstants, DriftIInv, NEW r \in Reporters,
           NEW marks \in [1 .. MaxFindings -> G!FindingStatuses \cup {"none"}],
           G!Working(r), UNCHANGED <<plan_key, plans, overtaken>>,
           drafts' = [drafts EXCEPT ![r] = [drafts[r] EXCEPT !.todo = @ \ {G!Due(r)},
                                                           !.marks = marks]]
    PROVE  /\ GoesOn(r) /\ drafts'[r].marks = marks
           /\ drafts' \in [Reporters -> G!Draft \cup {Idle}]
<1>1. drafts[r] \in G!Draft /\ drafts \in [Reporters -> G!Draft \cup {Idle}]
  BY DueIsSeen, DriftTyped
<1> DEFINE new == [drafts[r] EXCEPT !.todo = @ \ {G!Due(r)}, !.marks = marks]
<1>2. /\ new \in G!Draft /\ new.marks = marks /\ new.met = drafts[r].met
      /\ new.todo = drafts[r].todo \ {G!Due(r)}
  BY <1>1 DEF G!Draft
<1> HIDE DEF new
<1>3. /\ drafts' \in [Reporters -> G!Draft \cup {Idle}] /\ drafts'[r] = new
      /\ \A s \in Reporters \ {r} : drafts'[s] = drafts[s]
  BY <1>1, <1>2 DEF new
<1> QED
  BY <1>2, <1>3 DEF GoesOn

\* Nothing else changed in the eyes of the reporter: it goes on if it is right
\* about the plan compared.
LEMMA WorkGoesOnFor ==
    ASSUME DriftConstants, DriftIInv, NEW r \in Reporters, NEW due, due = G!Due(r),
           G!Working(r), GoesOn(r), Private(r), G!TypeOK', MarksAreSeen(r)',
           \A i \in DOMAIN findings' : findings'[i].by = r => SoundRow(i)',
           \A i \in DOMAIN findings' : findings'[i].plan # due /\ G!Seen(findings'[i], r) =>
               i \in DOMAIN findings /\ findings'[i] = findings[i],
           \A i \in DOMAIN findings : findings[i].plan # due /\ G!Seen(findings[i], r) =>
               /\ i \in DOMAIN findings' /\ findings'[i] = findings[i]
               /\ drafts'[r].marks[i] = drafts[r].marks[i],
           InOrderFor(r, due) /\ plans[due].status = "active" => InOrderFor(r, due)'
    PROVE  DriftIInv'
<1>1. /\ PlansAreDue(r) /\ ViewsAreInOrder(r)
      /\ due \notin drafts[r].met => plans[due].status = "active"
  BY DueIsSeen
<1>2. /\ drafts'[r] # Idle /\ drafts'[r].todo \subseteq drafts[r].todo
      /\ drafts'[r].met = drafts[r].met /\ UNCHANGED <<plans, overtaken>>
  BY DEF GoesOn, DriftConstants
<1>3. PlansAreDue(r)'
  BY <1>1, <1>2 DEF PlansAreDue, G!Seen
<1>4. ASSUME NEW p \in DOMAIN plans, G!Seen(plans[p], r), p \notin overtaken,
             p \notin drafts[r].met
      PROVE  InOrderFor(r, p)'
  <2>1. InOrderFor(r, p)
    BY <1>1, <1>4 DEF ViewsAreInOrder
  <2>2. CASE p = due
    BY <1>1, <1>4, <2>1, <2>2
  <2>3. CASE p # due
    <3>1. \A i \in DOMAIN findings' : findings'[i].plan = p /\ G!Seen(findings'[i], r) =>
             i \in DOMAIN findings /\ findings'[i] = findings[i]
      BY <2>3
    <3>2. \A i \in DOMAIN findings : findings[i].plan = p /\ G!Seen(findings[i], r) =>
             /\ i \in DOMAIN findings' /\ findings'[i] = findings[i]
             /\ drafts'[r].marks[i] = drafts[r].marks[i]
      BY <2>3
    <3> QED
      BY <1>2, <2>1, <3>1, <3>2, SameView
  <2> QED
    BY <2>2, <2>3
<1>5. ViewsAreInOrder(r)'
  BY <1>2, <1>4 DEF ViewsAreInOrder, G!Seen
<1>6. SoundDraft(r)'
  BY <1>2, <1>3, <1>5 DEF SoundDraft
<1> QED
  BY <1>6, PrivateStep

\* The types of the other tables while the work goes on.
LEMMA GoesOnTypeOK ==
    ASSUME DriftConstants, DriftIInv, UNCHANGED <<plan_key, plans, overtaken>>,
           drafts' \in [Reporters -> G!Draft \cup {Idle}],
           findings' \in Seq(G!Finding), Len(findings') <= MaxFindings
    PROVE  G!TypeOK'
BY DEF DriftIInv, G!TypeOK, G!Plan, G!Finding, G!Draft, G!Live, G!FindingStatuses, G!AllGaps

\* A new finding.
LEMMA NewStep ==
    ASSUME DriftConstants, DriftIInv, NEW r \in Reporters, NEW v \in G!Gaps(plan_key),
           G!FindNew(r, v[1], v[2])
    PROVE  DriftIInv'
<1>a. PICK due : due = G!Due(r)
  OBVIOUS
<1>b. PICK n : n = Len(findings)
  OBVIOUS
<1>c. PICK row : row =
        [plan |-> due, gap |-> v[1], stamped |-> FALSE, by |-> r,
         status |-> IF v[2] = "active" /\ G!ClosedAs(r, due, v[1]) # {} THEN "reappeared" ELSE v[2]]
  OBVIOUS
<1>0. Committed # r /\ Gone # r /\ Committed # Gone /\ r \in Reporters
  BY DEF DriftConstants
<1>1. /\ G!Working(r) /\ n < MaxFindings /\ G!OpenAs(r, due, v[1]) = {}
      /\ findings' = Append(findings, row)
      /\ drafts' = [drafts EXCEPT ![r].todo = @ \ {due}]
      /\ UNCHANGED <<plan_key, plans, overtaken>>
  BY <1>a, <1>b, <1>c DEF G!FindNew
<1>2. /\ drafts[r] # Idle /\ drafts[r] \in G!Draft /\ MarksAreSeen(r)
      /\ due \in DOMAIN plans /\ due \in 1 .. MaxPlans /\ G!Seen(plans[due], r)
  BY <1>1, <1>a, DueIsSeen
<1>3. /\ v[1] \in {u[1] : u \in G!AllGaps} /\ v[2] \in {"active", "needs_review"}
  BY GapsTyped, DriftTyped
<1>4. /\ row \in G!Finding /\ row.plan = due /\ row.gap = v[1] /\ row.by = r
      /\ row.stamped = FALSE /\ row.status \in G!OpenStatuses
      /\ row.status = "reappeared" => G!ClosedAs(r, due, v[1]) # {}
  BY <1>2, <1>3, <1>c DEF G!Finding, G!FindingStatuses, G!OpenStatuses
<1>5. /\ findings \in Seq(G!Finding) /\ n \in Nat /\ DOMAIN findings = 1 .. n
      /\ MaxFindings \in Nat
  BY <1>b, DriftTyped
<1>6. /\ findings' \in Seq(G!Finding) /\ Len(findings') = n + 1 /\ DOMAIN findings' = 1 .. n + 1
      /\ findings'[n + 1] = row /\ \A i \in 1 .. n : findings'[i] = findings[i]
  BY <1>1, <1>4, <1>5, <1>b
<1>7. /\ n + 1 \notin 1 .. n /\ n + 1 \in 1 .. MaxFindings
      /\ \A i \in 1 .. n + 1 : i \in 1 .. n \/ i = n + 1
      /\ 1 .. n \subseteq 1 .. MaxFindings
  BY <1>1, <1>5
<1>8. /\ GoesOn(r) /\ drafts'[r].marks = drafts[r].marks
      /\ drafts' \in [Reporters -> G!Draft \cup {Idle}]
  <2>1. drafts[r].marks \in [1 .. MaxFindings -> G!FindingStatuses \cup {"none"}]
    BY <1>2 DEF G!Draft
  <2>2. [drafts[r] EXCEPT !.todo = @ \ {due}]
          = [drafts[r] EXCEPT !.todo = @ \ {due}, !.marks = drafts[r].marks]
    BY <1>2 DEF G!Draft
  <2>3. drafts' = [drafts EXCEPT ![r] = [drafts[r] EXCEPT !.todo = @ \ {due},
                                                      !.marks = drafts[r].marks]]
    BY <1>1, <2>2
  <2> QED
    BY <1>1, <1>a, <2>1, <2>3, GoesOnTyped
<1>9. G!TypeOK'
  BY <1>1, <1>5, <1>6, <1>8, GoesOnTypeOK
<1>10. Private(r)
  BY <1>1, <1>4, <1>5, <1>6, <1>7, <1>8 DEF Private, GoesOn
<1>11. MarksAreSeen(r)'
  BY <1>2, <1>5, <1>6, <1>7, <1>8 DEF MarksAreSeen
<1>12. ASSUME NEW i \in DOMAIN findings', findings'[i].by = r
       PROVE  SoundRow(i)'
  <2>1. CASE i \in 1 .. n
    <3>1. SoundRow(i) /\ findings'[i] = findings[i]
      BY <1>5, <1>6, <2>1 DEF DriftIInv
    <3>2. KnownRow(i)' /\ DatedRow(i)'
      BY <1>1, <3>1 DEF SoundRow, KnownRow, DatedRow
    <3>3. ReturnedRow(i)'
      <4>1. \A j \in 1 .. (i - 1) : findings'[j] = findings[j]
        BY <1>5, <1>6, <2>1
      <4> QED
        BY <1>8, <1>12, <3>1, <4>1 DEF SoundRow, ReturnedRow
    <3> QED
      BY <3>2, <3>3 DEF SoundRow
  <2>2. CASE i = n + 1
    <3>1. findings'[i] = row
      BY <1>6, <2>2
    <3>2. KnownRow(i)'
      BY <1>1, <1>2, <1>4, <3>1 DEF KnownRow, G!Seen
    <3>3. DatedRow(i)'
      BY <1>4, <3>1 DEF DatedRow, G!OpenStatuses
    <3>4. ReturnedRow(i)'
      <4> SUFFICES ASSUME row.status = "reappeared"
                   PROVE  ReturnedRow(i)'
        BY <3>1 DEF ReturnedRow
      <4>1. PICK j \in DOMAIN findings :
              /\ findings[j].plan = due /\ findings[j].gap = v[1] /\ G!Seen(findings[j], r)
              /\ G!StatusFor(r, j) = "resolved"
        BY <1>4 DEF G!ClosedAs
      <4>2. findings[j].stamped \/ drafts[r].marks[j] = "resolved"
        <5>1. findings[j].by # Gone /\ DatedRow(j)
          BY <1>0, <4>1 DEF G!Seen, DriftIInv, SoundRow
        <5> QED
          BY <4>1, <5>1 DEF G!StatusFor, DatedRow
      <4>3. findings'[j] = findings[j] /\ j \in 1 .. ((n + 1) - 1)
        BY <1>5, <1>6, <4>1
      <4> QED
        BY <1>0, <1>4, <1>8, <2>2, <3>1, <4>1, <4>2, <4>3 DEF ReturnedRow, G!Seen
    <3> QED
      BY <3>2, <3>3, <3>4 DEF SoundRow
  <2> QED
    BY <1>6, <1>7, <2>1, <2>2
<1>13. /\ \A i \in DOMAIN findings' : findings'[i].plan # due /\ G!Seen(findings'[i], r) =>
             i \in DOMAIN findings /\ findings'[i] = findings[i]
       /\ \A i \in DOMAIN findings : findings[i].plan # due /\ G!Seen(findings[i], r) =>
             /\ i \in DOMAIN findings' /\ findings'[i] = findings[i]
             /\ drafts'[r].marks[i] = drafts[r].marks[i]
  BY <1>4, <1>5, <1>6, <1>7, <1>8
<1>14. ASSUME InOrderFor(r, due), plans[due].status = "active"
       PROVE  InOrderFor(r, due)'
  <2>1. \A i \in DOMAIN findings : G!StatusFor(r, i)' = G!StatusFor(r, i)
    BY <1>5, <1>6, <1>8 DEF G!StatusFor
  <2>2. drafts[r].marks[n + 1] = "none"
    BY <1>2, <1>5, <1>7 DEF MarksAreSeen
  <2>3. G!StatusFor(r, n + 1)' = row.status /\ G!Seen(findings'[n + 1], r)
    BY <1>4, <1>6, <1>8, <2>2 DEF G!StatusFor, G!Seen
  <2>4. G!OpenFor(r, due)' = G!OpenFor(r, due) \cup {n + 1}
    BY <1>4, <1>5, <1>6, <1>7, <2>1, <2>3 DEF G!OpenFor, G!Seen, G!OpenStatuses
  <2>5. G!OpenFor(r, due) \subseteq 1 .. n
    BY <1>5 DEF G!OpenFor
  <2>6. \A i \in G!OpenFor(r, due) : findings[i].gap # row.gap
    BY <1>1, <1>4 DEF G!OpenAs
  <2>7. \A i \in G!OpenFor(r, due)' : plans'[due].status = "active"
    BY <1>1, <1>14
  <2>8. \A i, j \in G!OpenFor(r, due)' : findings'[i].gap = findings'[j].gap => i = j
    BY <1>6, <1>14, <2>4, <2>5, <2>6 DEF InOrderFor
  <2>9. \A i \in DOMAIN findings' : findings'[i].plan = due /\ G!Seen(findings'[i], r) =>
           ((findings'[i].stamped \/ drafts'[r].marks[i] = "resolved") <=> i \notin G!OpenFor(r, due)')
    BY <1>4, <1>5, <1>6, <1>7, <1>8, <1>14, <2>2, <2>4 DEF InOrderFor
  <2> QED
    BY <2>7, <2>8, <2>9 DEF InOrderFor, G!Seen
<1> QED
  BY <1>1, <1>8, <1>9, <1>10, <1>11, <1>12, <1>13, <1>14, <1>a, WorkGoesOnFor

\* A finding that is open gets the status of today.
LEMMA AgainStep ==
    ASSUME DriftConstants, DriftIInv, NEW r \in Reporters, NEW v \in G!Gaps(plan_key),
           NEW k \in DOMAIN findings, G!FindAgain(r, k, v[2])
    PROVE  DriftIInv'
<1>a. PICK due : due = G!Due(r)
  OBVIOUS
<1>b. PICK marks : marks =
        [drafts[r].marks EXCEPT ![k] = IF findings[k].by = r \/ G!StatusFor(r, k) = v[2]
                                       THEN @ ELSE v[2]]
  OBVIOUS
<1>0. Committed # r /\ Gone # r /\ Committed # Gone
  BY DEF DriftConstants
<1>1. /\ G!Working(r) /\ k \in G!OpenAs(r, due, findings[k].gap)
      /\ findings' = IF findings[k].by = r THEN [findings EXCEPT ![k].status = v[2]] ELSE findings
      /\ drafts' = [drafts EXCEPT ![r].todo = @ \ {due},
                                 ![r].marks[k] = IF findings[k].by = r \/ G!StatusFor(r, k) = v[2]
                                                 THEN @ ELSE v[2]]
      /\ UNCHANGED <<plan_key, plans, overtaken>>
  BY <1>a DEF G!FindAgain
<1>2. /\ drafts[r] # Idle /\ drafts[r] \in G!Draft /\ MarksAreSeen(r)
      /\ due \in DOMAIN plans /\ due \in 1 .. MaxPlans /\ G!Seen(plans[due], r)
  BY <1>1, <1>a, DueIsSeen
<1>3. v[2] \in {"active", "needs_review"}
  BY GapsTyped, DriftTyped
<1>4. /\ findings[k].plan = due /\ findings[k].by \in {Committed, r}
      /\ G!StatusFor(r, k) \in G!OpenStatuses
  BY <1>1 DEF G!OpenAs, G!OpenFor, G!Seen
<1>5. /\ findings \in Seq(G!Finding) /\ k \in 1 .. MaxFindings /\ findings[k] \in G!Finding
      /\ DOMAIN findings \subseteq 1 .. MaxFindings /\ Len(findings) <= MaxFindings
      /\ DOMAIN findings = 1 .. Len(findings) /\ Len(findings) \in Nat
  BY DriftTyped
<1>6. /\ findings' \in Seq(G!Finding) /\ Len(findings') = Len(findings)
      /\ DOMAIN findings' = DOMAIN findings
      /\ \A i \in DOMAIN findings :
           /\ findings'[i].plan = findings[i].plan /\ findings'[i].gap = findings[i].gap
           /\ findings'[i].stamped = findings[i].stamped /\ findings'[i].by = findings[i].by
           /\ findings'[i].status =
                IF i = k /\ findings[k].by = r THEN v[2] ELSE findings[i].status
           /\ i # k \/ findings[k].by # r => findings'[i] = findings[i]
  <2>1. CASE findings[k].by = r
    <3>1. PICK row : row = [findings[k] EXCEPT !.status = v[2]]
      OBVIOUS
    <3>2. /\ row \in G!Finding /\ row.status = v[2] /\ row.plan = findings[k].plan
          /\ row.gap = findings[k].gap /\ row.stamped = findings[k].stamped
          /\ row.by = findings[k].by
      BY <1>3, <1>5, <3>1 DEF G!Finding, G!FindingStatuses
    <3>3. findings' = [findings EXCEPT ![k] = row]
      BY <1>1, <2>1, <3>1
    <3>4. /\ findings' \in Seq(G!Finding) /\ Len(findings') = Len(findings)
          /\ DOMAIN findings' = DOMAIN findings /\ findings'[k] = row
          /\ \A i \in DOMAIN findings \ {k} : findings'[i] = findings[i]
      BY <1>5, <3>2, <3>3
    <3> QED
      BY <2>1, <3>2, <3>4
  <2>2. CASE findings[k].by # r
    BY <1>1, <1>5, <2>2
  <2> QED
    BY <2>1, <2>2
<1>7. /\ marks \in [1 .. MaxFindings -> G!FindingStatuses \cup {"none"}]
      /\ \A i \in 1 .. MaxFindings : i # k => marks[i] = drafts[r].marks[i]
      /\ marks[k] = IF findings[k].by = r \/ G!StatusFor(r, k) = v[2]
                    THEN drafts[r].marks[k] ELSE v[2]
  <2>1. drafts[r].marks \in [1 .. MaxFindings -> G!FindingStatuses \cup {"none"}]
    BY <1>2 DEF G!Draft
  <2>2. v[2] \in G!FindingStatuses \cup {"none"}
    BY <1>3 DEF G!FindingStatuses
  <2> QED
    BY <1>5, <1>b, <2>1, <2>2
<1>8. /\ GoesOn(r) /\ drafts'[r].marks = marks
      /\ drafts' \in [Reporters -> G!Draft \cup {Idle}]
  <2>1. drafts' = [drafts EXCEPT ![r] = [drafts[r] EXCEPT !.todo = @ \ {due}, !.marks = marks]]
    BY <1>1, <1>2, <1>b, DriftTyped DEF G!Draft
  <2> QED
    BY <1>1, <1>a, <1>7, <2>1, GoesOnTyped
<1>9. G!TypeOK'
  BY <1>1, <1>5, <1>6, <1>8, GoesOnTypeOK
<1>10. Private(r)
  BY <1>0, <1>1, <1>6, <1>8 DEF Private, GoesOn
<1>11. drafts[r].marks[k] = "none" \/ findings[k].by # r
  BY <1>0, <1>2, <1>5 DEF MarksAreSeen
<1>12. MarksAreSeen(r)'
  <2> SUFFICES ASSUME NEW i \in 1 .. MaxFindings, marks[i] # "none"
               PROVE  /\ i \in DOMAIN findings' /\ findings'[i].by = Committed
                      /\ marks[i] \in {"active", "needs_review", "resolved"}
    BY <1>8 DEF MarksAreSeen
  <2>1. CASE drafts[r].marks[i] = marks[i]
    BY <1>2, <1>6, <2>1 DEF MarksAreSeen
  <2>2. CASE drafts[r].marks[i] # marks[i]
    <3>1. i = k /\ findings[k].by # r /\ marks[i] = v[2]
      BY <1>7, <2>2
    <3> QED
      BY <1>3, <1>4, <1>6, <3>1
  <2> QED
    BY <2>1, <2>2
<1>13. drafts[r].marks[k] # "resolved" /\ marks[k] # "resolved"
  <2>1. drafts[r].marks[k] # "resolved"
    BY <1>4 DEF G!StatusFor, G!OpenStatuses
  <2> QED
    BY <1>3, <1>7, <2>1
<1>14. ASSUME NEW i \in DOMAIN findings', findings'[i].by = r
       PROVE  SoundRow(i)'
  <2>1. SoundRow(i) /\ i \in DOMAIN findings /\ findings[i].by = r
    BY <1>6, <1>14 DEF DriftIInv
  <2>2. KnownRow(i)' /\ DatedRow(i)'
    BY <1>1, <1>3, <1>6, <2>1 DEF SoundRow, KnownRow, DatedRow
  <2>3. ReturnedRow(i)'
    <3> SUFFICES ASSUME findings'[i].status = "reappeared"
                 PROVE  ReturnedRow(i)'
      BY DEF ReturnedRow
    <3>1. findings[i].status = "reappeared"
      BY <1>3, <1>6, <2>1
    <3>2. PICK j \in 1 .. (i - 1) :
              /\ findings[j].plan = findings[i].plan /\ findings[j].gap = findings[i].gap
              /\ findings[j].by \in {Committed, findings[i].by}
              /\ findings[j].stamped \/ drafts[r].marks[j] = "resolved"
      BY <1>0, <2>1, <3>1 DEF SoundRow, ReturnedRow
    <3>3. j \in DOMAIN findings /\ j \in 1 .. MaxFindings
      BY <1>5, <2>1
    <3>4. findings'[j].stamped \/ marks[j] = "resolved"
      BY <1>6, <1>7, <1>13, <3>2, <3>3
    <3> QED
      BY <1>6, <1>8, <2>1, <3>2, <3>3, <3>4 DEF ReturnedRow
  <2> QED
    BY <2>2, <2>3 DEF SoundRow
<1>15. /\ \A i \in DOMAIN findings' : findings'[i].plan # due /\ G!Seen(findings'[i], r) =>
             i \in DOMAIN findings /\ findings'[i] = findings[i]
       /\ \A i \in DOMAIN findings : findings[i].plan # due /\ G!Seen(findings[i], r) =>
             /\ i \in DOMAIN findings' /\ findings'[i] = findings[i]
             /\ drafts'[r].marks[i] = drafts[r].marks[i]
  BY <1>4, <1>5, <1>6, <1>7, <1>8
<1>16. ASSUME InOrderFor(r, due), plans[due].status = "active"
       PROVE  InOrderFor(r, due)'
  <2>1. ASSUME NEW i \in DOMAIN findings
        PROVE  G!StatusFor(r, i)' \in G!OpenStatuses <=> G!StatusFor(r, i) \in G!OpenStatuses
    <3>1. CASE i # k
      BY <1>5, <1>6, <1>7, <1>8, <3>1 DEF G!StatusFor
    <3>2. CASE i = k
      <4>1. G!StatusFor(r, k)' = v[2]
        <5>1. CASE findings[k].by = r
          BY <1>6, <1>7, <1>8, <1>11, <5>1 DEF G!StatusFor
        <5>2. CASE findings[k].by # r
          BY <1>3, <1>6, <1>7, <1>8, <5>2 DEF G!StatusFor
        <5> QED
          BY <5>1, <5>2
      <4> QED
        BY <1>3, <1>4, <3>2, <4>1 DEF G!OpenStatuses
    <3> QED
      BY <3>1, <3>2
  <2>2. G!OpenFor(r, due)' = G!OpenFor(r, due)
    BY <1>6, <2>1 DEF G!OpenFor, G!Seen, G!OpenStatuses
  <2>3. \A i \in DOMAIN findings : marks[i] = "resolved" <=> drafts[r].marks[i] = "resolved"
    BY <1>5, <1>7, <1>13
  <2>4. G!OpenFor(r, due) \subseteq DOMAIN findings
    BY DEF G!OpenFor
  <2> QED
    BY <1>1, <1>6, <1>8, <1>16, <2>2, <2>3, <2>4 DEF InOrderFor, G!Seen
<1> QED
  BY <1>1, <1>8, <1>9, <1>10, <1>12, <1>14, <1>15, <1>16, <1>a, WorkGoesOnFor

\* Nothing was found: what is open of the plan is resolved.
LEMMA NothingStep ==
    ASSUME DriftConstants, DriftIInv, NEW r \in Reporters, G!FindNothing(r)
    PROVE  DriftIInv'
<1>a. PICK due : due = G!Due(r)
  OBVIOUS
<1>b. PICK open : open = G!OpenFor(r, due)
  OBVIOUS
<1>c. PICK marks : marks = [i \in 1 .. MaxFindings |->
                              IF i \in open /\ findings[i].by # r THEN "resolved"
                              ELSE drafts[r].marks[i]]
  OBVIOUS
<1>0. Committed # r /\ Gone # r /\ Committed # Gone
  BY DEF DriftConstants
<1>1. /\ G!Working(r)
      /\ findings' = [i \in DOMAIN findings |->
                        IF i \in open /\ findings[i].by = r THEN G!Resolved(findings[i])
                        ELSE findings[i]]
      /\ drafts' = [drafts EXCEPT ![r].todo = @ \ {due},
                                 ![r].marks = [i \in 1 .. MaxFindings |->
                                     IF i \in open /\ findings[i].by # r THEN "resolved"
                                     ELSE @[i]]]
      /\ UNCHANGED <<plan_key, plans, overtaken>>
  BY <1>a, <1>b DEF G!FindNothing
<1>2. /\ drafts[r] # Idle /\ drafts[r] \in G!Draft /\ MarksAreSeen(r)
      /\ due \in DOMAIN plans /\ due \in 1 .. MaxPlans /\ G!Seen(plans[due], r)
  BY <1>1, <1>a, DueIsSeen
<1>3. \A i :
        i \in open <=> /\ i \in DOMAIN findings /\ findings[i].plan = due
                       /\ findings[i].by \in {Committed, r}
                       /\ G!StatusFor(r, i) \in G!OpenStatuses
  BY <1>b DEF G!OpenFor, G!Seen
<1>4. /\ findings \in Seq(G!Finding) /\ \A i \in DOMAIN findings : findings[i] \in G!Finding
      /\ DOMAIN findings \subseteq 1 .. MaxFindings /\ Len(findings) <= MaxFindings
      /\ DOMAIN findings = 1 .. Len(findings) /\ Len(findings) \in Nat
  BY DriftTyped
<1>5. \A row \in G!Finding :
        /\ G!Resolved(row) \in G!Finding
        /\ G!Resolved(row).plan = row.plan /\ G!Resolved(row).gap = row.gap
        /\ G!Resolved(row).by = row.by /\ G!Resolved(row).stamped = TRUE
        /\ G!Resolved(row).status = "resolved"
  BY DEF G!Resolved, G!Finding, G!FindingStatuses
<1>6. /\ DOMAIN findings' = DOMAIN findings
      /\ \A i \in DOMAIN findings : findings'[i] =
           IF i \in open /\ findings[i].by = r THEN G!Resolved(findings[i]) ELSE findings[i]
  BY <1>1
<1>7. \A i \in DOMAIN findings :
        /\ findings'[i] \in G!Finding
        /\ findings'[i].plan = findings[i].plan /\ findings'[i].gap = findings[i].gap
        /\ findings'[i].by = findings[i].by
        /\ findings[i].stamped => findings'[i].stamped
        /\ i \in open /\ findings[i].by = r =>
             findings'[i].status = "resolved" /\ findings'[i].stamped
        /\ i \notin open \/ findings[i].by # r => findings'[i] = findings[i]
  BY <1>4, <1>5, <1>6
<1>8. findings' \in Seq(G!Finding) /\ Len(findings') = Len(findings)
  BY <1>1, <1>4, <1>6, <1>7
<1>9. /\ marks \in [1 .. MaxFindings -> G!FindingStatuses \cup {"none"}]
      /\ \A i \in 1 .. MaxFindings : marks[i] =
           IF i \in open /\ findings[i].by # r THEN "resolved" ELSE drafts[r].marks[i]
  <2>1. drafts[r].marks \in [1 .. MaxFindings -> G!FindingStatuses \cup {"none"}]
    BY <1>2 DEF G!Draft
  <2>2. "resolved" \in G!FindingStatuses
    BY DEF G!FindingStatuses
  <2> QED
    BY <1>c, <2>1, <2>2
<1>10. /\ GoesOn(r) /\ drafts'[r].marks = marks
       /\ drafts' \in [Reporters -> G!Draft \cup {Idle}]
  <2>1. drafts' = [drafts EXCEPT ![r] = [drafts[r] EXCEPT !.todo = @ \ {due}, !.marks = marks]]
    BY <1>1, <1>2, <1>c, DriftTyped DEF G!Draft
  <2> QED
    BY <1>1, <1>a, <1>9, <2>1, GoesOnTyped
<1>11. G!TypeOK'
  BY <1>1, <1>4, <1>8, <1>10, GoesOnTypeOK
<1>12. Private(r)
  BY <1>0, <1>1, <1>6, <1>7, <1>10 DEF Private, GoesOn
<1>13. MarksAreSeen(r)'
  <2> SUFFICES ASSUME NEW i \in 1 .. MaxFindings, marks[i] # "none"
               PROVE  /\ i \in DOMAIN findings' /\ findings'[i].by = Committed
                      /\ marks[i] \in {"active", "needs_review", "resolved"}
    BY <1>10 DEF MarksAreSeen
  <2>1. CASE i \in open /\ findings[i].by # r
    BY <1>3, <1>6, <1>7, <1>9, <2>1
  <2>2. CASE ~(i \in open /\ findings[i].by # r)
    BY <1>2, <1>6, <1>7, <1>9, <2>2 DEF MarksAreSeen
  <2> QED
    BY <2>1, <2>2
<1>14. ASSUME NEW i \in DOMAIN findings', findings'[i].by = r
       PROVE  SoundRow(i)'
  <2>1. SoundRow(i) /\ i \in DOMAIN findings /\ findings[i].by = r
    BY <1>6, <1>7, <1>14 DEF DriftIInv
  <2>2. KnownRow(i)' /\ DatedRow(i)'
    <3>1. KnownRow(i)'
      BY <1>1, <1>7, <2>1 DEF SoundRow, KnownRow
    <3>2. DatedRow(i)'
      BY <1>7, <2>1 DEF SoundRow, DatedRow
    <3> QED
      BY <3>1, <3>2
  <2>3. ReturnedRow(i)'
    <3> SUFFICES ASSUME findings'[i].status = "reappeared"
                 PROVE  ReturnedRow(i)'
      BY DEF ReturnedRow
    <3>1. findings[i].status = "reappeared"
      BY <1>7, <2>1
    <3>2. PICK j \in 1 .. (i - 1) :
              /\ findings[j].plan = findings[i].plan /\ findings[j].gap = findings[i].gap
              /\ findings[j].by \in {Committed, findings[i].by}
              /\ findings[j].stamped \/ drafts[r].marks[j] = "resolved"
      BY <1>0, <2>1, <3>1 DEF SoundRow, ReturnedRow
    <3>3. j \in DOMAIN findings /\ j \in 1 .. MaxFindings
      BY <1>4, <2>1
    <3>4. findings'[j].stamped \/ marks[j] = "resolved"
      BY <1>7, <1>9, <3>2, <3>3
    <3> QED
      BY <1>7, <1>10, <2>1, <3>2, <3>3, <3>4 DEF ReturnedRow
  <2> QED
    BY <2>2, <2>3 DEF SoundRow
<1>15. /\ \A i \in DOMAIN findings' : findings'[i].plan # due /\ G!Seen(findings'[i], r) =>
             i \in DOMAIN findings /\ findings'[i] = findings[i]
       /\ \A i \in DOMAIN findings : findings[i].plan # due /\ G!Seen(findings[i], r) =>
             /\ i \in DOMAIN findings' /\ findings'[i] = findings[i]
             /\ drafts'[r].marks[i] = drafts[r].marks[i]
  BY <1>3, <1>4, <1>6, <1>7, <1>9, <1>10
<1>16. ASSUME InOrderFor(r, due), plans[due].status = "active"
       PROVE  InOrderFor(r, due)'
  <2>1. G!OpenFor(r, due)' = {}
    <3> SUFFICES ASSUME NEW i \in DOMAIN findings, findings[i].plan = due,
                        findings[i].by \in {Committed, r},
                        G!StatusFor(r, i)' \in G!OpenStatuses
                 PROVE  FALSE
      BY <1>6, <1>7 DEF G!OpenFor, G!Seen, G!OpenStatuses
    <3>1. CASE i \in open
      <4>1. CASE findings[i].by = r
        <5>1. drafts[r].marks[i] = "none"
          BY <1>0, <1>2, <1>4, <4>1 DEF MarksAreSeen
        <5>2. G!StatusFor(r, i)' = "resolved"
          BY <1>4, <1>7, <1>9, <1>10, <3>1, <4>1, <5>1 DEF G!StatusFor
        <5> QED
          BY <5>2 DEF G!OpenStatuses
      <4>2. CASE findings[i].by # r
        <5>1. G!StatusFor(r, i)' = "resolved"
          BY <1>4, <1>9, <1>10, <3>1, <4>2 DEF G!StatusFor
        <5> QED
          BY <5>1 DEF G!OpenStatuses
      <4> QED
        BY <4>1, <4>2
    <3>2. CASE i \notin open
      <4>1. G!StatusFor(r, i)' = G!StatusFor(r, i)
        BY <1>4, <1>7, <1>9, <1>10, <3>2 DEF G!StatusFor
      <4> QED
        BY <1>3, <3>2, <4>1
    <3> QED
      BY <3>1, <3>2
  <2>2. ASSUME NEW i \in DOMAIN findings', findings'[i].plan = due, G!Seen(findings'[i], r)
        PROVE  findings'[i].stamped \/ drafts'[r].marks[i] = "resolved"
    <3>1. i \in DOMAIN findings /\ findings[i].plan = due /\ G!Seen(findings[i], r)
      BY <1>6, <1>7, <2>2 DEF G!Seen
    <3>2. CASE i \in open
      BY <1>4, <1>7, <1>9, <1>10, <3>1, <3>2
    <3>3. CASE i \notin open
      <4>1. findings[i].stamped \/ drafts[r].marks[i] = "resolved"
        BY <1>16, <1>b, <3>1, <3>3 DEF InOrderFor
      <4> QED
        BY <1>4, <1>7, <1>9, <1>10, <3>1, <3>3, <4>1
    <3> QED
      BY <3>2, <3>3
  <2> QED
    BY <2>1, <2>2 DEF InOrderFor, G!Seen
<1>17. G!Working(r)
  BY <1>1
<1> QED
  BY <1>10, <1>11, <1>12, <1>13, <1>14, <1>15, <1>16, <1>17, <1>a, WorkGoesOnFor

\* An error takes back what the reporter has written.
LEMMA FailStep ==
    ASSUME DriftConstants, DriftIInv, NEW r \in Reporters, G!Fail(r)
    PROVE  DriftIInv'
<1>0. Committed # r /\ Gone # r /\ Committed # Gone
  BY DEF DriftConstants
<1>1. /\ drafts[r] # Idle /\ drafts[r] \in G!Draft
      /\ plans' = [p \in DOMAIN plans |->
                     IF plans[p].by = r THEN [plans[p] EXCEPT !.by = Gone] ELSE plans[p]]
      /\ findings' = [i \in DOMAIN findings |->
                        IF findings[i].by = r THEN [findings[i] EXCEPT !.by = Gone] ELSE findings[i]]
      /\ drafts' = [drafts EXCEPT ![r] = [G!NoDraft EXCEPT !.pass = drafts[r].pass]]
      /\ UNCHANGED <<plan_key, overtaken>>
  BY DriftTyped DEF G!Fail
<1>2. /\ plans \in Seq(G!Plan) /\ Len(plans) \in Nat /\ DOMAIN plans = 1 .. Len(plans)
      /\ Len(plans) <= MaxPlans /\ \A p \in DOMAIN plans : plans[p] \in G!Plan
      /\ findings \in Seq(G!Finding) /\ Len(findings) \in Nat /\ Len(findings) <= MaxFindings
      /\ DOMAIN findings = 1 .. Len(findings) /\ \A i \in DOMAIN findings : findings[i] \in G!Finding
      /\ DOMAIN findings \subseteq 1 .. MaxFindings
      /\ drafts \in [Reporters -> G!Draft \cup {Idle}]
  BY DriftTyped
<1>3. /\ \A row \in G!Plan : [row EXCEPT !.by = Gone] \in G!Plan /\ [row EXCEPT !.by = Gone].by = Gone
      /\ \A row \in G!Finding :
           [row EXCEPT !.by = Gone] \in G!Finding /\ [row EXCEPT !.by = Gone].by = Gone
  BY DEF G!Plan, G!Finding
<1>4. /\ DOMAIN plans' = DOMAIN plans /\ DOMAIN findings' = DOMAIN findings
      /\ \A p \in DOMAIN plans :
           /\ plans'[p] \in G!Plan /\ plans'[p].by # r
           /\ plans'[p] = plans[p] \/ (plans[p].by = r /\ plans'[p].by = Gone)
      /\ \A i \in DOMAIN findings :
           /\ findings'[i] \in G!Finding /\ findings'[i].by # r
           /\ findings'[i] = findings[i] \/ (findings[i].by = r /\ findings'[i].by = Gone)
  BY <1>0, <1>1, <1>2, <1>3
<1>5. plans' \in Seq(G!Plan) /\ Len(plans') = Len(plans)
  BY <1>1, <1>2, <1>4
<1>6. findings' \in Seq(G!Finding) /\ Len(findings') = Len(findings)
  BY <1>1, <1>2, <1>4
<1>7. /\ drafts'[r] \in G!Draft /\ drafts'[r].todo = {}
      /\ \A i \in 1 .. MaxFindings : drafts'[r].marks[i] = "none"
      /\ drafts' \in [Reporters -> G!Draft \cup {Idle}]
      /\ \A s \in Reporters \ {r} : drafts'[s] = drafts[s]
  <2>1. PICK new : new = [G!NoDraft EXCEPT !.pass = drafts[r].pass]
    OBVIOUS
  <2>2. /\ new \in G!Draft /\ new.todo = {} /\ new.marks = G!Unmarked
    BY <1>1, <2>1 DEF G!NoDraft, G!Draft, G!Unmarked
  <2>3. \A i \in 1 .. MaxFindings : G!Unmarked[i] = "none"
    BY DEF G!Unmarked
  <2>4. drafts' = [drafts EXCEPT ![r] = new]
    BY <1>1, <2>1
  <2> QED
    BY <1>2, <2>2, <2>3, <2>4
<1>8. drafts'[r] # Idle
  BY <1>7 DEF DriftConstants
<1>9. G!TypeOK'
  BY <1>1, <1>2, <1>5, <1>6, <1>7 DEF DriftIInv, G!TypeOK, G!Plan, G!Finding, G!Draft, G!Live,
     G!FindingStatuses, G!AllGaps
<1>10. Private(r)
  BY <1>1, <1>4, <1>7 DEF Private
<1>11. MarksAreSeen(r)' /\ PlansAreDue(r)'
  BY <1>7 DEF MarksAreSeen, PlansAreDue
<1>12. ViewsAreInOrder(r)'
  <2> SUFFICES ASSUME NEW p \in DOMAIN plans', G!Seen(plans'[p], r), p \notin overtaken'
               PROVE  InOrderFor(r, p)'
    BY DEF ViewsAreInOrder, G!Seen
  <2>1. plans'[p].by = Committed
    BY <1>4 DEF G!Seen
  <2>2. G!InOrder(p)'
    BY <1>10, <2>1, OthersSeeNothing DEF G!PlansAreInOrder
  <2>3. \A i \in DOMAIN findings' : findings'[i].by # r /\ drafts'[r].marks[i] = "none"
    BY <1>2, <1>4, <1>7
  <2> QED
    BY <2>2, <2>3, FreshView
<1>13. SoundDraft(r)'
  BY <1>8, <1>11, <1>12 DEF SoundDraft
<1> QED
  BY <1>4, <1>9, <1>10, <1>13, PrivateStep

\* Those in flight learn that somebody wrote about some plans.
LEMMA OthersMeet ==
    ASSUME NEW ds \in [Reporters -> G!Draft \cup {Idle}], NEW ps \in SUBSET (1 .. MaxPlans),
           Idle \notin G!Draft
    PROVE  /\ G!Met(ds, ps) \in [Reporters -> G!Draft \cup {Idle}]
           /\ \A s \in Reporters :
                /\ ds[s] = Idle => G!Met(ds, ps)[s] = Idle
                /\ ds[s] # Idle =>
                     /\ G!Met(ds, ps)[s] # Idle
                     /\ G!Met(ds, ps)[s].todo = ds[s].todo
                     /\ G!Met(ds, ps)[s].marks = ds[s].marks
                     /\ G!Met(ds, ps)[s].met = ds[s].met \cup ps
<1>1. ASSUME NEW s \in Reporters, ds[s] # Idle
      PROVE  /\ [ds[s] EXCEPT !.met = @ \cup ps] \in G!Draft
             /\ [ds[s] EXCEPT !.met = @ \cup ps].todo = ds[s].todo
             /\ [ds[s] EXCEPT !.met = @ \cup ps].marks = ds[s].marks
             /\ [ds[s] EXCEPT !.met = @ \cup ps].met = ds[s].met \cup ps
  <2>1. ds[s] \in G!Draft
    BY <1>1
  <2> QED
    BY <2>1 DEF G!Draft
<1>2. \A s \in Reporters :
        G!Met(ds, ps)[s] = IF ds[s] = Idle THEN Idle ELSE [ds[s] EXCEPT !.met = @ \cup ps]
  BY DEF G!Met
<1>3. G!Met(ds, ps) \in [Reporters -> G!Draft \cup {Idle}]
  BY <1>1 DEF G!Met
<1>4. ASSUME NEW s \in Reporters
      PROVE  /\ ds[s] = Idle => G!Met(ds, ps)[s] = Idle
             /\ ds[s] # Idle =>
                  /\ G!Met(ds, ps)[s] # Idle
                  /\ G!Met(ds, ps)[s].todo = ds[s].todo
                  /\ G!Met(ds, ps)[s].marks = ds[s].marks
                  /\ G!Met(ds, ps)[s].met = ds[s].met \cup ps
  <2>1. CASE ds[s] = Idle
    BY <1>2, <2>1
  <2>2. CASE ds[s] # Idle
    BY <1>1, <1>2, <2>2
  <2> QED
    BY <2>1, <2>2
<1> QED
  BY <1>3, <1>4

\* What the reporter leaves of a finding.
LEMMA WrittenRow ==
    ASSUME DriftConstants, DriftIInv, NEW r \in Reporters, drafts[r] # Idle, MarksAreSeen(r),
           NEW i \in DOMAIN findings
    PROVE  /\ G!Written(r, i) \in G!Finding
           /\ G!Written(r, i).plan = findings[i].plan /\ G!Written(r, i).gap = findings[i].gap
           /\ G!Written(r, i).by = IF findings[i].by = r THEN Committed ELSE findings[i].by
           /\ G!Written(r, i).status = G!StatusFor(r, i)
           /\ G!Written(r, i).stamped <=>
                findings[i].stamped \/ (findings[i].by # r /\ drafts[r].marks[i] = "resolved")
           /\ findings[i].by = r => drafts[r].marks[i] = "none"
<1>1. /\ findings[i] \in G!Finding /\ i \in 1 .. MaxFindings /\ drafts[r] \in G!Draft
      /\ Committed # r
  BY DriftTyped DEF DriftConstants
<1>2. G!StatusFor(r, i) \in G!FindingStatuses
  <2>1. findings[i].status \in G!FindingStatuses
    BY <1>1 DEF G!Finding
  <2>2. drafts[r].marks[i] \in G!FindingStatuses \cup {"none"}
    BY <1>1 DEF G!Draft
  <2> QED
    BY <2>1, <2>2 DEF G!StatusFor
<1>3. findings[i].by = r => drafts[r].marks[i] = "none"
  BY <1>1 DEF MarksAreSeen
<1>4. CASE findings[i].by = r
  <2>1. G!Written(r, i) = [findings[i] EXCEPT !.by = Committed]
    BY <1>4 DEF G!Written
  <2>2. G!StatusFor(r, i) = findings[i].status
    BY <1>3, <1>4 DEF G!StatusFor
  <2> QED
    BY <1>1, <1>3, <1>4, <2>1, <2>2 DEF G!Finding
<1>5. CASE findings[i].by # r /\ drafts[r].marks[i] = "resolved"
  <2>1. G!Written(r, i) = [findings[i] EXCEPT !.status = "resolved", !.stamped = TRUE]
    BY <1>5 DEF G!Written, G!Resolved
  <2>2. G!StatusFor(r, i) = "resolved"
    BY <1>5 DEF G!StatusFor
  <2> QED
    BY <1>1, <1>2, <1>5, <2>1, <2>2 DEF G!Finding
<1>6. CASE findings[i].by # r /\ drafts[r].marks[i] # "resolved"
  <2>1. G!Written(r, i) = [findings[i] EXCEPT !.status = G!StatusFor(r, i)]
    BY <1>6 DEF G!Written
  <2> QED
    BY <1>1, <1>2, <1>6, <2>1 DEF G!Finding
<1> QED
  BY <1>4, <1>5, <1>6

\* The reporter commits.
LEMMA CommitStep ==
    ASSUME DriftConstants, DriftIInv, NEW r \in Reporters, G!Commit(r)
    PROVE  DriftIInv'
<1>a. PICK wrote : wrote = G!Wrote(r)
  OBVIOUS
<1>0. /\ Committed # r /\ Gone # r /\ Committed # Gone /\ Committed \notin Reporters
      /\ Gone \notin Reporters /\ Idle \notin G!Draft
  BY DEF DriftConstants
<1>1. /\ drafts[r] # Idle
      /\ plans' = [p \in DOMAIN plans |->
                     IF plans[p].by = r THEN [plans[p] EXCEPT !.by = Committed] ELSE plans[p]]
      /\ findings' = [i \in DOMAIN findings |-> G!Written(r, i)]
      /\ drafts' = G!Met([drafts EXCEPT ![r] = Idle], wrote)
      /\ overtaken' = overtaken \cup (drafts[r].met \cap wrote)
      /\ plan_key' = plan_key
  BY <1>a DEF G!Commit, G!Compared
<1>2. /\ plans \in Seq(G!Plan) /\ Len(plans) \in Nat /\ DOMAIN plans = 1 .. Len(plans)
      /\ Len(plans) <= MaxPlans /\ \A p \in DOMAIN plans : plans[p] \in G!Plan
      /\ findings \in Seq(G!Finding) /\ Len(findings) \in Nat /\ Len(findings) <= MaxFindings
      /\ DOMAIN findings = 1 .. Len(findings) /\ \A i \in DOMAIN findings : findings[i] \in G!Finding
      /\ DOMAIN findings \subseteq 1 .. MaxFindings
      /\ drafts \in [Reporters -> G!Draft \cup {Idle}] /\ drafts[r] \in G!Draft
      /\ overtaken \subseteq 1 .. MaxPlans
  BY <1>1, DriftTyped
<1>3. /\ MarksAreSeen(r) /\ ViewsAreInOrder(r)
      /\ \A i \in DOMAIN findings : SoundRow(i)
      /\ \A s \in Reporters : SoundDraft(s)
      /\ G!PlansAreInOrder
  BY <1>1 DEF DriftIInv, SoundDraft
<1>4. /\ \A i \in DOMAIN findings :
           findings[i].by = r \/ drafts[r].marks[i] # "none" => findings[i].plan \in wrote
      /\ wrote \subseteq 1 .. MaxPlans
  BY <1>2, <1>a DEF G!Wrote, G!Finding
<1>5. /\ DOMAIN plans' = DOMAIN plans
      /\ \A p \in DOMAIN plans :
           /\ plans'[p] \in G!Plan /\ plans'[p].status = plans[p].status
           /\ plans'[p].by = IF plans[p].by = r THEN Committed ELSE plans[p].by
  <2>1. \A row \in G!Plan :
          /\ [row EXCEPT !.by = Committed] \in G!Plan
          /\ [row EXCEPT !.by = Committed].by = Committed
          /\ [row EXCEPT !.by = Committed].status = row.status
    BY DEF G!Plan
  <2> QED
    BY <1>1, <1>2, <2>1
<1>6. /\ DOMAIN findings' = DOMAIN findings
      /\ \A i \in DOMAIN findings :
           /\ findings'[i] \in G!Finding
           /\ findings'[i].plan = findings[i].plan /\ findings'[i].gap = findings[i].gap
           /\ findings'[i].by = IF findings[i].by = r THEN Committed ELSE findings[i].by
           /\ findings'[i].status = G!StatusFor(r, i)
           /\ findings'[i].stamped <=>
                findings[i].stamped \/ (findings[i].by # r /\ drafts[r].marks[i] = "resolved")
           /\ findings[i].by = r => drafts[r].marks[i] = "none"
  BY <1>1, <1>3, WrittenRow
<1>7. \A i \in DOMAIN findings : findings[i].by # r /\ drafts[r].marks[i] = "none" =>
         findings'[i] = findings[i]
  <2> SUFFICES ASSUME NEW i \in DOMAIN findings, findings[i].by # r, drafts[r].marks[i] = "none"
               PROVE  findings'[i] = findings[i]
    OBVIOUS
  <2>1. findings'[i] = [findings[i] EXCEPT !.status = findings[i].status]
    BY <1>1 DEF G!Written, G!StatusFor
  <2>2. \A row \in G!Finding : [row EXCEPT !.status = row.status] = row
    BY DEF G!Finding
  <2> QED
    BY <1>2, <2>1, <2>2
<1>8. plans' \in Seq(G!Plan) /\ Len(plans') = Len(plans)
  BY <1>1, <1>2, <1>5
<1>9. findings' \in Seq(G!Finding) /\ Len(findings') = Len(findings)
  BY <1>1, <1>2, <1>6
<1>10. /\ drafts' \in [Reporters -> G!Draft \cup {Idle}] /\ drafts'[r] = Idle
       /\ \A s \in Reporters \ {r} :
            /\ drafts[s] = Idle => drafts'[s] = Idle
            /\ drafts[s] # Idle =>
                 /\ drafts'[s] # Idle /\ drafts'[s].todo = drafts[s].todo
                 /\ drafts'[s].marks = drafts[s].marks
                 /\ drafts'[s].met = drafts[s].met \cup wrote
  <2>1. PICK ds : ds = [drafts EXCEPT ![r] = Idle]
    OBVIOUS
  <2>2. /\ ds \in [Reporters -> G!Draft \cup {Idle}] /\ ds[r] = Idle
        /\ \A s \in Reporters \ {r} : ds[s] = drafts[s]
    BY <1>2, <2>1
  <2>3. drafts' = G!Met(ds, wrote)
    BY <1>1, <2>1
  <2> QED
    BY <1>0, <1>4, <2>2, <2>3, OthersMeet
<1>11. G!TypeOK'
  BY <1>1, <1>2, <1>4, <1>8, <1>9, <1>10 DEF DriftIInv, G!TypeOK, G!Plan, G!Finding, G!Draft, G!Live,
     G!FindingStatuses, G!AllGaps
<1>12. ASSUME NEW i \in DOMAIN findings'
       PROVE  SoundRow(i)'
  <2>1. i \in DOMAIN findings /\ SoundRow(i)
    BY <1>3, <1>6
  <2>2. KnownRow(i)'
    BY <1>0, <1>5, <1>6, <2>1 DEF SoundRow, KnownRow
  <2>3. DatedRow(i)'
    <3> SUFFICES ASSUME findings'[i].by # Gone, findings'[i].status = "resolved"
                 PROVE  findings'[i].stamped
      BY DEF DatedRow
    <3>1. findings[i].by # Gone /\ G!StatusFor(r, i) = "resolved"
      BY <1>0, <1>6, <2>1
    <3>2. CASE drafts[r].marks[i] = "none"
      BY <1>6, <2>1, <3>1, <3>2 DEF SoundRow, DatedRow, G!StatusFor
    <3>3. CASE drafts[r].marks[i] # "none"
      BY <1>6, <2>1, <3>1, <3>3 DEF G!StatusFor
    <3> QED
      BY <3>2, <3>3
  <2>4. ReturnedRow(i)'
    <3> SUFFICES ASSUME findings'[i].status = "reappeared", findings'[i].by # Gone
                 PROVE  ReturnedRow(i)'
      BY DEF ReturnedRow
    <3>1. findings[i].status = "reappeared" /\ findings[i].by # Gone
      <4>1. G!StatusFor(r, i) = "reappeared" /\ i \in 1 .. MaxFindings
        BY <1>2, <1>6, <2>1
      <4>2. findings[i].status = "reappeared"
        BY <1>3, <4>1 DEF G!StatusFor, MarksAreSeen
      <4> QED
        BY <1>0, <1>6, <2>1, <4>2
    <3>2. PICK j \in 1 .. (i - 1) :
              /\ findings[j].plan = findings[i].plan /\ findings[j].gap = findings[i].gap
              /\ findings[j].by \in {Committed, findings[i].by}
              /\ \/ findings[j].stamped
                 \/ /\ findings[i].by \in Reporters
                    /\ drafts[findings[i].by].marks[j] = "resolved"
      BY <2>1, <3>1 DEF SoundRow, ReturnedRow
    <3>3. j \in DOMAIN findings
      BY <1>2, <2>1
    <3>4. /\ findings'[j].plan = findings'[i].plan /\ findings'[j].gap = findings'[i].gap
          /\ findings'[j].by \in {Committed, findings'[i].by}
      BY <1>0, <1>6, <2>1, <3>2, <3>3
    <3>5. \/ findings'[j].stamped
          \/ /\ findings'[i].by \in Reporters
             /\ drafts'[findings'[i].by].marks[j] = "resolved"
      <4>1. CASE findings[j].stamped
        BY <1>6, <3>3, <4>1
      <4>2. CASE ~findings[j].stamped /\ findings[i].by = r
        BY <1>6, <3>2, <3>3, <4>2
      <4>3. CASE ~findings[j].stamped /\ findings[i].by # r
        <5>1. PICK s \in Reporters : s = findings[i].by
          BY <3>2, <4>3
        <5>2. s # r /\ drafts[s].marks[j] = "resolved" /\ findings'[i].by = s
          BY <1>6, <2>1, <3>2, <4>3, <5>1
        <5>3. drafts[s] # Idle
          BY <1>3, <2>1, <5>1 DEF SoundDraft, NothingWritten
        <5> QED
          BY <1>10, <5>2, <5>3
      <4> QED
        BY <4>1, <4>2, <4>3
    <3> QED
      BY <3>4, <3>5 DEF ReturnedRow
  <2> QED
    BY <2>2, <2>3, <2>4 DEF SoundRow
<1>13. ASSUME NEW s \in Reporters
       PROVE  SoundDraft(s)'
  <2>1. CASE s = r
    BY <1>0, <1>5, <1>6, <1>10, <2>1 DEF SoundDraft, NothingWritten
  <2>2. CASE s # r /\ drafts[s] = Idle
    <3>1. NothingWritten(s)
      BY <1>3, <2>2 DEF SoundDraft
    <3>2. NothingWritten(s)'
      BY <1>0, <1>5, <1>6, <3>1 DEF NothingWritten
    <3> QED
      BY <1>10, <2>2, <3>2 DEF SoundDraft
  <2>3. CASE s # r /\ drafts[s] # Idle
    <3>1. MarksAreSeen(s) /\ PlansAreDue(s) /\ ViewsAreInOrder(s)
      BY <1>3, <2>3 DEF SoundDraft
    <3>2. /\ drafts'[s] # Idle /\ drafts'[s].todo = drafts[s].todo
          /\ drafts'[s].marks = drafts[s].marks
          /\ drafts'[s].met = drafts[s].met \cup wrote
      BY <1>10, <2>3
    <3>3. MarksAreSeen(s)'
      BY <1>0, <1>6, <3>1, <3>2 DEF MarksAreSeen
    <3>4. PlansAreDue(s)'
      BY <1>0, <1>5, <2>3, <3>1, <3>2 DEF PlansAreDue, G!Seen
    <3>5. ASSUME NEW p \in DOMAIN plans, G!Seen(plans'[p], s), p \notin overtaken',
                 p \notin drafts'[s].met
          PROVE  InOrderFor(s, p)'
      <4>1. p \notin wrote /\ p \notin drafts[s].met /\ p \notin overtaken
        BY <1>1, <3>2, <3>5
      <4>2. \A i \in DOMAIN findings : findings[i].plan = p =>
              findings[i].by # r /\ findings'[i] = findings[i]
        BY <1>4, <1>7, <4>1
      <4>3. CASE plans[p].by = r
        <5>1. \A i \in DOMAIN findings : findings[i].plan = p => findings[i].by = Gone
          BY <1>0, <1>3, <4>2, <4>3 DEF SoundRow, KnownRow
        <5>2. \A i \in DOMAIN findings' : ~(findings'[i].plan = p /\ G!Seen(findings'[i], s))
          BY <1>0, <1>6, <4>2, <5>1 DEF G!Seen
        <5> QED
          BY <5>2, EmptyView
      <4>4. CASE plans[p].by # r
        <5>1. G!Seen(plans[p], s)
          BY <1>5, <3>5, <4>4 DEF G!Seen
        <5>2. InOrderFor(s, p)
          BY <3>1, <4>1, <5>1 DEF ViewsAreInOrder
        <5> QED
          BY <1>5, <1>6, <3>2, <4>2, <5>2, SameView
      <4> QED
        BY <4>3, <4>4
    <3>6. ViewsAreInOrder(s)'
      BY <1>5, <3>5 DEF ViewsAreInOrder, G!Seen
    <3> QED
      BY <3>2, <3>3, <3>4, <3>6 DEF SoundDraft
  <2> QED
    BY <2>1, <2>2, <2>3
<1>14. ASSUME NEW p \in DOMAIN plans, plans'[p].by = Committed, p \notin overtaken'
       PROVE  G!InOrder(p)'
  <2>1. p \notin overtaken /\ ~(p \in drafts[r].met /\ p \in wrote)
    BY <1>1, <1>14
  <2>2. plans[p].by \in {Committed, r}
    BY <1>5, <1>14
  <2>3. CASE p \notin wrote
    <3>1. \A i \in DOMAIN findings : findings[i].plan = p =>
            findings[i].by # r /\ findings'[i] = findings[i]
      BY <1>4, <1>7, <2>3
    <3>2. CASE plans[p].by = Committed
      <4>1. G!InOrder(p)
        BY <1>3, <2>1, <3>2 DEF G!PlansAreInOrder
      <4> QED
        BY <1>5, <1>6, <3>1, <4>1, SameOrder
    <3>3. CASE plans[p].by = r
      <4>1. \A i \in DOMAIN findings' : ~(findings'[i].plan = p /\ findings'[i].by = Committed)
        BY <1>0, <1>3, <1>6, <3>1, <3>3 DEF SoundRow, KnownRow
      <4> QED
        BY <4>1 DEF G!InOrder
    <3> QED
      BY <2>2, <3>2, <3>3
  <2>4. CASE p \in wrote
    <3>1. InOrderFor(r, p)
      BY <1>3, <2>1, <2>2, <2>4 DEF ViewsAreInOrder, G!Seen
    <3>2. \A i \in DOMAIN findings :
            (findings'[i].plan = p /\ findings'[i].by = Committed) <=>
              (findings[i].plan = p /\ G!Seen(findings[i], r))
      BY <1>0, <1>6 DEF G!Seen
    <3>3. \A i \in DOMAIN findings : findings'[i].plan = p /\ findings'[i].by = Committed =>
            (findings'[i].status \in G!OpenStatuses <=> i \in G!OpenFor(r, p))
      BY <1>6, <3>2 DEF G!OpenFor
    <3>4. \A i \in DOMAIN findings : findings'[i].plan = p /\ findings'[i].by = Committed =>
            (findings'[i].stamped <=> i \notin G!OpenFor(r, p))
      BY <1>6, <3>1, <3>2 DEF InOrderFor
    <3>5. \A i, j \in G!OpenFor(r, p) : findings'[i].gap = findings'[j].gap => i = j
      <4>1. G!OpenFor(r, p) \subseteq DOMAIN findings
        BY DEF G!OpenFor
      <4> QED
        BY <1>6, <3>1, <4>1 DEF InOrderFor
    <3>6. \A i \in G!OpenFor(r, p) : plans'[p].status = "active"
      BY <1>5, <3>1 DEF InOrderFor
    <3> QED
      BY <1>6, <3>3, <3>4, <3>5, <3>6 DEF G!InOrder, G!OpenStatuses
  <2> QED
    BY <2>3, <2>4
<1>15. G!PlansAreInOrder'
  BY <1>5, <1>14 DEF G!PlansAreInOrder
<1> QED
  BY <1>11, <1>12, <1>13, <1>15 DEF DriftIInv

\* A page changes the plans and no finding: plans that were active stay so.
LEMMA PlansMove ==
    ASSUME DriftConstants, DriftIInv, G!TypeOK', UNCHANGED <<findings, drafts, overtaken>>,
           \A p \in DOMAIN plans :
               /\ p \in DOMAIN plans' /\ plans'[p].by = plans[p].by
               /\ plans[p].status = "active" => plans'[p].status = "active",
           \A p \in DOMAIN plans' \ DOMAIN plans : plans'[p].by = Committed
    PROVE  DriftIInv'
<1>0. Committed \notin Reporters /\ Gone \notin Reporters /\ Committed # Gone
  BY DEF DriftConstants
<1>1. \A p, i : p \notin DOMAIN plans /\ i \in DOMAIN findings =>
        (findings[i].plan = p => findings[i].by = Gone)
  BY NewPlanIsEmpty
<1>2. ASSUME NEW i \in DOMAIN findings'
      PROVE  SoundRow(i)'
  <2>1. SoundRow(i)
    BY <1>2 DEF DriftIInv
  <2>2. KnownRow(i)'
    BY <2>1 DEF SoundRow, KnownRow
  <2>3. DatedRow(i)' /\ ReturnedRow(i)'
    BY <2>1 DEF SoundRow, DatedRow, ReturnedRow
  <2> QED
    BY <2>2, <2>3 DEF SoundRow
<1>3. ASSUME NEW s \in Reporters
      PROVE  SoundDraft(s)'
  <2>1. SoundDraft(s)
    BY DEF DriftIInv
  <2>2. CASE drafts[s] = Idle
    BY <1>0, <2>1, <2>2 DEF SoundDraft, NothingWritten
  <2>3. CASE drafts[s] # Idle
    <3>1. MarksAreSeen(s) /\ PlansAreDue(s) /\ ViewsAreInOrder(s)
      BY <2>1, <2>3 DEF SoundDraft
    <3>2. MarksAreSeen(s)'
      BY <3>1 DEF MarksAreSeen
    <3>3. PlansAreDue(s)'
      BY <3>1 DEF PlansAreDue, G!Seen
    <3>4. ASSUME NEW p \in DOMAIN plans', G!Seen(plans'[p], s), p \notin overtaken,
                 p \notin drafts[s].met
          PROVE  InOrderFor(s, p)'
      <4>1. CASE p \in DOMAIN plans
        <5>1. InOrderFor(s, p)
          BY <3>1, <3>4, <4>1 DEF ViewsAreInOrder, G!Seen
        <5> QED
          BY <4>1, <5>1, SameView
      <4>2. CASE p \notin DOMAIN plans
        <5>1. \A i \in DOMAIN findings' : ~(findings'[i].plan = p /\ G!Seen(findings'[i], s))
          BY <1>0, <1>1, <4>2 DEF G!Seen
        <5> QED
          BY <5>1, EmptyView
      <4> QED
        BY <4>1, <4>2
    <3>5. ViewsAreInOrder(s)'
      BY <3>4 DEF ViewsAreInOrder, G!Seen
    <3> QED
      BY <2>3, <3>2, <3>3, <3>5 DEF SoundDraft
  <2> QED
    BY <2>2, <2>3
<1>4. ASSUME NEW p \in DOMAIN plans', plans'[p].by = Committed, p \notin overtaken
      PROVE  G!InOrder(p)'
  <2>1. CASE p \in DOMAIN plans
    <3>1. G!InOrder(p)
      BY <1>4, <2>1 DEF DriftIInv, G!PlansAreInOrder
    <3> QED
      BY <2>1, <3>1, SameOrder
  <2>2. CASE p \notin DOMAIN plans
    <3>1. \A i \in DOMAIN findings' : ~(findings'[i].plan = p /\ findings'[i].by = Committed)
      BY <1>0, <1>1, <2>2
    <3> QED
      BY <3>1 DEF G!InOrder
  <2> QED
    BY <2>1, <2>2
<1>5. G!PlansAreInOrder'
  BY <1>4 DEF G!PlansAreInOrder
<1> QED
  BY <1>2, <1>3, <1>5 DEF DriftIInv

LEMMA PlanStep ==
    ASSUME DriftConstants, DriftIInv, G!AddPlan \/ \E p \in DOMAIN plans : G!Resume(p)
    PROVE  DriftIInv'
<1>0. /\ plans \in Seq(G!Plan) /\ Len(plans) \in Nat /\ DOMAIN plans = 1 .. Len(plans)
      /\ Len(plans) <= MaxPlans /\ \A p \in DOMAIN plans : plans[p] \in G!Plan
      /\ MaxPlans \in Nat
  BY DriftTyped
<1>1. UNCHANGED <<plan_key, findings, drafts, overtaken>>
  BY DEF G!AddPlan, G!Resume
<1>2. /\ plans' \in Seq(G!Plan) /\ Len(plans') <= MaxPlans
      /\ \A p \in DOMAIN plans :
           /\ p \in DOMAIN plans' /\ plans'[p].by = plans[p].by
           /\ plans[p].status = "active" => plans'[p].status = "active"
      /\ \A p \in DOMAIN plans' \ DOMAIN plans : plans'[p].by = Committed
  <2>1. CASE G!AddPlan
    <3>1. PICK new : new = [status |-> "active", by |-> Committed]
      OBVIOUS
    <3>2. new \in G!Plan /\ new.by = Committed
      BY <3>1 DEF G!Plan, G!Live
    <3>3. plans' = Append(plans, new) /\ Len(plans) < MaxPlans
      BY <2>1, <3>1 DEF G!AddPlan
    <3>4. /\ plans' \in Seq(G!Plan) /\ Len(plans') = Len(plans) + 1
          /\ DOMAIN plans' = 1 .. Len(plans) + 1
          /\ plans'[Len(plans) + 1] = new /\ \A p \in DOMAIN plans : plans'[p] = plans[p]
      BY <1>0, <3>2, <3>3
    <3> QED
      BY <1>0, <3>2, <3>3, <3>4
  <2>2. CASE \E p \in DOMAIN plans : G!Resume(p)
    <3>1. PICK q \in DOMAIN plans : plans' = [plans EXCEPT ![q].status = "active"]
      BY <2>2 DEF G!Resume
    <3>2. PICK new : new = [plans[q] EXCEPT !.status = "active"]
      OBVIOUS
    <3>3. new \in G!Plan /\ new.by = plans[q].by /\ new.status = "active"
      BY <1>0, <3>1, <3>2 DEF G!Plan, G!Live
    <3>4. plans' = [plans EXCEPT ![q] = new]
      BY <3>1, <3>2
    <3>5. /\ plans' \in Seq(G!Plan) /\ Len(plans') = Len(plans) /\ DOMAIN plans' = DOMAIN plans
          /\ plans'[q] = new /\ \A p \in DOMAIN plans \ {q} : plans'[p] = plans[p]
      BY <1>0, <3>1, <3>3, <3>4
    <3> QED
      BY <1>0, <3>3, <3>5
  <2> QED
    BY <2>1, <2>2
<1>3. G!TypeOK'
  BY <1>1, <1>2 DEF DriftIInv, G!TypeOK, G!Plan, G!Finding, G!Draft, G!Live, G!FindingStatuses,
     G!AllGaps
<1> QED
  BY <1>1, <1>2, <1>3, PlansMove

\* Pause and Mark Complete.
LEMMA CloseStep ==
    ASSUME DriftConstants, DriftIInv, NEW q \in DOMAIN plans, NEW status \in {"paused", "completed"},
           G!Close(q, status)
    PROVE  DriftIInv'
<1>0. /\ Committed \notin Reporters /\ Gone \notin Reporters /\ Committed # Gone
      /\ Idle \notin G!Draft
  BY DEF DriftConstants
<1>1. /\ plans[q].by = Committed
      /\ plans' = [plans EXCEPT ![q].status = status]
      /\ findings' = [i \in DOMAIN findings |->
                        IF /\ findings[i].plan = q /\ findings[i].by = Committed
                           /\ findings[i].status \in G!OpenStatuses
                        THEN G!Resolved(findings[i]) ELSE findings[i]]
      /\ drafts' = G!Met(drafts, {q})
      /\ overtaken' = overtaken \ {q}
      /\ plan_key' = plan_key
  BY DEF G!Close
<1>2. /\ plans \in Seq(G!Plan) /\ Len(plans) \in Nat /\ DOMAIN plans = 1 .. Len(plans)
      /\ Len(plans) <= MaxPlans /\ \A p \in DOMAIN plans : plans[p] \in G!Plan
      /\ DOMAIN plans \subseteq 1 .. MaxPlans
      /\ findings \in Seq(G!Finding) /\ Len(findings) \in Nat /\ Len(findings) <= MaxFindings
      /\ DOMAIN findings = 1 .. Len(findings) /\ \A i \in DOMAIN findings : findings[i] \in G!Finding
      /\ DOMAIN findings \subseteq 1 .. MaxFindings
      /\ drafts \in [Reporters -> G!Draft \cup {Idle}]
      /\ overtaken \subseteq 1 .. MaxPlans
  BY DriftTyped
<1>3. /\ \A i \in DOMAIN findings : SoundRow(i)
      /\ \A s \in Reporters : SoundDraft(s)
      /\ G!PlansAreInOrder
  BY DEF DriftIInv
<1>4. /\ plans' \in Seq(G!Plan) /\ Len(plans') = Len(plans) /\ DOMAIN plans' = DOMAIN plans
      /\ \A p \in DOMAIN plans : plans'[p].by = plans[p].by
      /\ \A p \in DOMAIN plans \ {q} : plans'[p] = plans[p]
  <2>1. PICK new : new = [plans[q] EXCEPT !.status = status]
    OBVIOUS
  <2>2. new \in G!Plan /\ new.by = plans[q].by
    BY <1>2, <2>1 DEF G!Plan, G!Live
  <2>3. plans' = [plans EXCEPT ![q] = new]
    BY <1>1, <2>1
  <2> QED
    BY <1>2, <2>2, <2>3
<1>5. \A row \in G!Finding :
        /\ G!Resolved(row) \in G!Finding
        /\ G!Resolved(row).plan = row.plan /\ G!Resolved(row).gap = row.gap
        /\ G!Resolved(row).by = row.by /\ G!Resolved(row).stamped = TRUE
        /\ G!Resolved(row).status = "resolved"
  BY DEF G!Resolved, G!Finding, G!FindingStatuses
<1>6. /\ DOMAIN findings' = DOMAIN findings
      /\ \A i \in DOMAIN findings :
           /\ findings'[i] \in G!Finding
           /\ findings'[i].plan = findings[i].plan /\ findings'[i].gap = findings[i].gap
           /\ findings'[i].by = findings[i].by
           /\ findings[i].stamped => findings'[i].stamped
           /\ findings'[i] = findings[i] \/ (findings'[i].status = "resolved" /\ findings'[i].stamped)
           /\ findings[i].plan # q => findings'[i] = findings[i]
           /\ findings[i].plan = q /\ findings[i].by = Committed =>
                findings'[i].status \notin G!OpenStatuses
  <2>1. DOMAIN findings' = DOMAIN findings
    BY <1>1
  <2>2. ASSUME NEW i \in DOMAIN findings
        PROVE  /\ findings'[i] \in G!Finding
               /\ findings'[i].plan = findings[i].plan /\ findings'[i].gap = findings[i].gap
               /\ findings'[i].by = findings[i].by
               /\ findings[i].stamped => findings'[i].stamped
               /\ \/ findings'[i] = findings[i]
                  \/ findings'[i].status = "resolved" /\ findings'[i].stamped
               /\ findings[i].plan # q => findings'[i] = findings[i]
               /\ findings[i].plan = q /\ findings[i].by = Committed =>
                    findings'[i].status \notin G!OpenStatuses
    <3>1. CASE /\ findings[i].plan = q /\ findings[i].by = Committed
               /\ findings[i].status \in G!OpenStatuses
      <4>1. findings'[i] = G!Resolved(findings[i])
        BY <1>1, <3>1
      <4> QED
        BY <1>2, <1>5, <3>1, <4>1 DEF G!OpenStatuses
    <3>2. CASE ~(/\ findings[i].plan = q /\ findings[i].by = Committed
                 /\ findings[i].status \in G!OpenStatuses)
      <4>1. findings'[i] = findings[i]
        BY <1>1, <3>2
      <4> QED
        BY <1>2, <3>2, <4>1
    <3> QED
      BY <3>1, <3>2
  <2> QED
    BY <2>1, <2>2
<1>7. findings' \in Seq(G!Finding) /\ Len(findings') = Len(findings)
  BY <1>1, <1>2, <1>6
<1>8. /\ drafts' \in [Reporters -> G!Draft \cup {Idle}]
      /\ \A s \in Reporters :
           /\ drafts[s] = Idle => drafts'[s] = Idle
           /\ drafts[s] # Idle =>
                /\ drafts'[s] # Idle /\ drafts'[s].todo = drafts[s].todo
                /\ drafts'[s].marks = drafts[s].marks
                /\ drafts'[s].met = drafts[s].met \cup {q}
  <2>1. PICK ps : ps = {q}
    OBVIOUS
  <2>2. ps \in SUBSET (1 .. MaxPlans)
    BY <1>2, <2>1
  <2>3. drafts' = G!Met(drafts, ps)
    BY <1>1, <2>1
  <2>4. PICK ds : ds = drafts
    OBVIOUS
  <2>5. ds \in [Reporters -> G!Draft \cup {Idle}] /\ drafts' = G!Met(ds, ps)
    BY <1>2, <2>3, <2>4
  <2> QED
    BY <1>0, <2>1, <2>2, <2>4, <2>5, OthersMeet
<1>9. G!TypeOK'
  BY <1>1, <1>2, <1>4, <1>7, <1>8 DEF DriftIInv, G!TypeOK, G!Plan, G!Finding, G!Draft, G!Live,
     G!FindingStatuses, G!AllGaps
<1>10. ASSUME NEW i \in DOMAIN findings'
       PROVE  SoundRow(i)'
  <2>1. i \in DOMAIN findings /\ SoundRow(i)
    BY <1>3, <1>6
  <2>2. KnownRow(i)'
    BY <1>4, <1>6, <2>1 DEF SoundRow, KnownRow
  <2>3. DatedRow(i)'
    BY <1>6, <2>1 DEF SoundRow, DatedRow
  <2>4. ReturnedRow(i)'
    <3> SUFFICES ASSUME findings'[i].status = "reappeared", findings'[i].by # Gone
                 PROVE  ReturnedRow(i)'
      BY DEF ReturnedRow
    <3>1. findings'[i] = findings[i]
      BY <1>6, <2>1
    <3>2. PICK j \in 1 .. (i - 1) :
              /\ findings[j].plan = findings[i].plan /\ findings[j].gap = findings[i].gap
              /\ findings[j].by \in {Committed, findings[i].by}
              /\ \/ findings[j].stamped
                 \/ /\ findings[i].by \in Reporters
                    /\ drafts[findings[i].by].marks[j] = "resolved"
      BY <2>1, <3>1 DEF SoundRow, ReturnedRow
    <3>3. j \in DOMAIN findings
      BY <1>2, <2>1
    <3>4. findings[i].by \in Reporters => drafts'[findings[i].by].marks = drafts[findings[i].by].marks
      <4>1. findings[i].by \in Reporters => drafts[findings[i].by] # Idle
        BY <1>3, <2>1 DEF SoundDraft, NothingWritten
      <4> QED
        BY <1>8, <4>1
    <3> QED
      BY <1>6, <3>1, <3>2, <3>3, <3>4 DEF ReturnedRow
  <2> QED
    BY <2>2, <2>3, <2>4 DEF SoundRow
<1>11. ASSUME NEW s \in Reporters
       PROVE  SoundDraft(s)'
  <2>2. CASE drafts[s] = Idle
    <3>1. NothingWritten(s)
      BY <1>3, <2>2 DEF SoundDraft
    <3>2. NothingWritten(s)'
      BY <1>4, <1>6, <3>1 DEF NothingWritten
    <3> QED
      BY <1>8, <2>2, <3>2 DEF SoundDraft
  <2>3. CASE drafts[s] # Idle
    <3>1. MarksAreSeen(s) /\ PlansAreDue(s) /\ ViewsAreInOrder(s)
      BY <1>3, <2>3 DEF SoundDraft
    <3>2. /\ drafts'[s] # Idle /\ drafts'[s].todo = drafts[s].todo
          /\ drafts'[s].marks = drafts[s].marks
          /\ drafts'[s].met = drafts[s].met \cup {q}
      BY <1>8, <2>3
    <3>3. MarksAreSeen(s)'
      BY <1>6, <3>1, <3>2 DEF MarksAreSeen
    <3>4. PlansAreDue(s)'
      BY <1>4, <3>1, <3>2 DEF PlansAreDue, G!Seen
    <3>5. ASSUME NEW p \in DOMAIN plans, G!Seen(plans'[p], s), p \notin overtaken',
                 p \notin drafts'[s].met
          PROVE  InOrderFor(s, p)'
      <4>1. p # q /\ p \notin drafts[s].met /\ p \notin overtaken
        BY <1>1, <3>2, <3>5
      <4>2. InOrderFor(s, p)
        BY <1>4, <3>1, <3>5, <4>1 DEF ViewsAreInOrder
      <4> QED
        BY <1>4, <1>6, <3>2, <4>1, <4>2, SameView
    <3>6. ViewsAreInOrder(s)'
      BY <1>4, <3>5 DEF ViewsAreInOrder, G!Seen
    <3> QED
      BY <3>2, <3>3, <3>4, <3>6 DEF SoundDraft
  <2> QED
    BY <2>2, <2>3
<1>12. ASSUME NEW p \in DOMAIN plans, plans'[p].by = Committed, p \notin overtaken'
       PROVE  G!InOrder(p)'
  <2>1. CASE p # q
    <3>1. G!InOrder(p)
      BY <1>1, <1>3, <1>4, <1>12, <2>1 DEF G!PlansAreInOrder
    <3> QED
      BY <1>4, <1>6, <2>1, <3>1, SameOrder
  <2>2. CASE p = q
    <3>1. \A i \in DOMAIN findings : findings'[i].plan = q /\ findings'[i].by = Committed =>
             findings'[i].status \notin G!OpenStatuses /\ findings'[i].stamped
      <4> SUFFICES ASSUME NEW i \in DOMAIN findings, findings'[i].plan = q,
                          findings'[i].by = Committed
                   PROVE  findings'[i].status \notin G!OpenStatuses /\ findings'[i].stamped
        OBVIOUS
      <4>1. findings'[i].status \notin G!OpenStatuses /\ findings'[i] \in G!Finding
        BY <1>6
      <4>2. findings'[i].status = "resolved"
        BY <4>1 DEF G!Finding, G!FindingStatuses, G!OpenStatuses
      <4>3. DatedRow(i)'
        BY <1>6, <1>10 DEF SoundRow
      <4> QED
        BY <1>0, <4>1, <4>2, <4>3 DEF DatedRow
    <3> QED
      BY <1>6, <2>2, <3>1 DEF G!InOrder, G!OpenStatuses
  <2> QED
    BY <2>1, <2>2
<1>13. G!PlansAreInOrder'
  BY <1>4, <1>12 DEF G!PlansAreInOrder
<1> QED
  BY <1>9, <1>10, <1>11, <1>13 DEF DriftIInv

LEMMA DriftStep ==
    ASSUME DriftConstants, DriftIInv, G!Next
    PROVE  DriftIInv'
<1>1. CASE \E r \in Reporters : G!Begin(r) \/ G!Again(r)
  BY <1>1, CompareStep
<1>2. CASE \E r \in Reporters, v \in G!Gaps(plan_key) : G!FindNew(r, v[1], v[2])
  BY <1>2, NewStep
<1>3. CASE \E r \in Reporters, v \in G!Gaps(plan_key), i \in DOMAIN findings :
             findings[i].gap = v[1] /\ G!FindAgain(r, i, v[2])
  BY <1>3, AgainStep
<1>4. CASE \E r \in Reporters : G!FindNothing(r)
  BY <1>4, NothingStep
<1>5. CASE \E r \in Reporters : G!Fail(r)
  BY <1>5, FailStep
<1>6. CASE \E r \in Reporters : G!Commit(r)
  BY <1>6, CommitStep
<1>7. CASE G!AddPlan \/ \E p \in DOMAIN plans : G!Resume(p)
  BY <1>7, PlanStep
<1>8. CASE \E p \in DOMAIN plans, s \in {"paused", "completed"} : G!Close(p, s)
  BY <1>8, CloseStep
<1> QED
  BY <1>1, <1>2, <1>3, <1>4, <1>5, <1>6, <1>7, <1>8 DEF G!Next

LEMMA DriftInvariance ==
    ASSUME DriftConstants
    PROVE  Spec => []DriftIInv
<1>1. Init => DriftIInv
  <2> SUFFICES ASSUME Init
               PROVE  DriftIInv
    OBVIOUS
  <2>1. /\ plan_key \in Followed /\ plans = <<>> /\ findings = <<>>
        /\ drafts = [r \in Reporters |-> Idle] /\ overtaken = {}
    BY DEF Init, G!Init
  <2>2. DOMAIN plans = {} /\ DOMAIN findings = {}
    BY <2>1
  <2>3. G!TypeOK
    BY <2>1 DEF G!TypeOK, DriftConstants
  <2> QED
    BY <2>1, <2>2, <2>3 DEF DriftIInv, SoundDraft, NothingWritten, G!PlansAreInOrder
<1>2. DriftIInv /\ [Next]_vars => DriftIInv'
  <2> SUFFICES ASSUME DriftIInv, [Next]_vars
               PROVE  DriftIInv'
    OBVIOUS
  <2>1. CASE G!Next
    BY <2>1, DriftStep
  <2>2. CASE UNCHANGED drift
    <3>1. UNCHANGED <<plan_key, plans, findings, drafts, overtaken>>
      BY <2>2 DEF drift
    <3>2. G!TypeOK'
      BY <3>1 DEF DriftIInv, G!TypeOK, G!Plan, G!Finding, G!Draft, G!Live, G!FindingStatuses,
         G!AllGaps
    <3> QED
      BY <3>1, <3>2, PlansMove
  <2> QED
    BY <2>1, <2>2 DEF Next, vars, drift
<1> QED
  BY <1>1, <1>2, PTL DEF Spec

\* Whatever reporters and pages do at the same time: drift is told of plans
\* that are known, what reappears was resolved before, and the findings of a
\* plan are in order unless a reporter was overtaken by others about it.
THEOREM DriftIsToldAsItIs ==
    ASSUME DriftConstants
    PROVE  Spec => []DriftIsHonest
<1>1. ASSUME DriftIInv
      PROVE  DriftIsHonest
  <2>1. /\ \A i \in DOMAIN findings : SoundRow(i)
        /\ Committed # Gone /\ Committed \notin Reporters
        /\ DOMAIN findings = 1 .. Len(findings) /\ Len(findings) \in Nat
    BY <1>1, DriftTyped DEF DriftIInv, DriftConstants
  <2>2. G!PlansAreKnown
    BY <2>1 DEF SoundRow, KnownRow, G!PlansAreKnown
  <2>3. G!ReturnsAreReal
    <3> SUFFICES ASSUME NEW i \in DOMAIN findings, findings[i].by = Committed
                 PROVE  /\ findings[i].status = "reappeared" =>
                             \E j \in 1 .. (i - 1) :
                                /\ findings[j].plan = findings[i].plan
                                /\ findings[j].gap = findings[i].gap
                                /\ findings[j].by = Committed /\ findings[j].stamped
                        /\ findings[i].status = "resolved" => findings[i].stamped
      BY DEF G!ReturnsAreReal
    <3>1. SoundRow(i)
      BY <2>1
    <3>2. findings[i].status = "resolved" => findings[i].stamped
      BY <2>1, <3>1 DEF SoundRow, DatedRow
    <3>3. ReturnedRow(i)
      BY <3>1 DEF SoundRow
    <3> QED
      BY <2>1, <3>2, <3>3 DEF ReturnedRow
  <2> QED
    BY <1>1, <2>2, <2>3 DEF DriftIInv, DriftIsHonest, G!DriftIsHonest
<1> QED
  BY <1>1, DriftInvariance, PTL

-----------------------------------------------------------------------------
(* The tables of all parts.                                                *)

\* The full share is the weight, and the tables of points have their last
\* entries as bounds: no sum of a score without clamp exceeds 100.
LEMMA ReliabilityIsPercentage ==
    ASSUME ScoreConstants, NEW e, KnownFacts(e)
    PROVE  L!Reliability(e) \in 0 .. 100
<1> DEFINE share == L!Earned(25, e["success"], 100)
           speed == <<2, 9, 16, 20>>[e["speed"] + 1]
           issues == <<0, 5, 12, 20>>[e["issues"] + 1]
           menus == IF e["menus"] = 1 THEN 10 ELSE 5
<1>1. /\ e["success"] \in 0 .. 100 /\ e["speed"] \in 0 .. 3 /\ e["issues"] \in 0 .. 3
      /\ e["menus"] \in 0 .. 1
  BY LevelsByName
<1>2. share \in 0 .. 25
  <2>1. e["success"] \in Nat /\ e["success"] <= 100 /\ 100 \in Nat /\ 25 \in Nat /\ 100 \in Nat \ {0}
    BY <1>1
  <2>2. /\ share \in Nat /\ L!Earned(25, 100, 100) \in Nat
        /\ share <= L!Earned(25, 100, 100)
    BY <2>1, EarnedKeepsOrder
  <2>3. L!Earned(25, 100, 100) = 25
    <3>1. 25 * 100 = 2500 /\ 2500 \div 100 = 25 /\ 2500 % 100 = 0
      OBVIOUS
    <3> QED
      BY <3>1 DEF L!Earned, L!Rounded
  <2> HIDE DEF share
  <2> QED
    BY <2>2, <2>3
<1>3. speed \in 0 .. 20 /\ issues \in 0 .. 20 /\ menus \in 0 .. 10
  BY <1>1
<1>4. L!Reliability(e) = 2 * share + speed + issues + menus
  BY DEF L!Reliability
<1> HIDE DEF share, speed, issues, menus
<1> QED
  BY <1>2, <1>3, <1>4

LEMMA IntelligenceIsPercentage ==
    ASSUME ScoreConstants, NEW e, KnownFacts(e)
    PROVE  L!Intelligence(e) \in 0 .. 100
<1> DEFINE kept == <<0, 3, 5>>[e["saved"] + 1]
           rest == (IF e["memories"] = 1 THEN 15 ELSE 7) + (IF e["outcomes"] = 1 THEN 15 ELSE 8)
                   + (IF e["lessons"] = 1 THEN 10 ELSE 3) + (IF e["predictions"] = 1 THEN 10 ELSE 4)
<1>1. e["saved"] \in 0 .. 2 /\ e["ai"] \in 0 .. 1 /\ e["search"] \in 0 .. 1
  BY LevelsByName
<1>2. kept \in 0 .. 5
  BY <1>1
<1>3. rest \in 0 .. 50
  OBVIOUS
<1>4. L!Intelligence(e) = 15 + 15 * e["ai"] + 15 * e["search"] + rest + kept
  BY <1>1 DEF L!Intelligence
<1> HIDE DEF kept, rest
<1> QED
  BY <1>1, <1>2, <1>3, <1>4

LEMMA RevenueIsPercentage ==
    ASSUME ScoreConstants, NEW e, KnownFacts(e)
    PROVE  L!RevenueIntelligence(e) \in 0 .. 100
<1> DEFINE sources == <<0, 8, 20>>[e["sources"] + 1]
           creators == <<0, 6, 15>>[e["creators"] + 1]
<1>1. /\ e["sources"] \in 0 .. 2 /\ e["creators"] \in 0 .. 2
      /\ e["posts"] \in 0 .. 1 /\ e["chatters"] \in 0 .. 1
  BY LevelsByName
<1>2. sources \in 0 .. 20 /\ creators \in 0 .. 15
  BY <1>1
<1>3. L!RevenueIntelligence(e) = sources + creators + 15 * e["posts"] + 10 * e["chatters"]
  BY DEF L!RevenueIntelligence
<1> HIDE DEF sources, creators
<1> QED
  BY <1>1, <1>2, <1>3

\* A score that drift may press is clamped: it only has to be a number.
LEMMA ScoresArePercentages ==
    ASSUME ScoreConstants, NEW e, KnownFacts(e)
    PROVE  \A i \in 1 .. 7 : L!Scores(e)[i] \in 0 .. 100
<1>1. \A n : L!Pressed(n, e) \in Nat => L!Pressed(n, e) <= 100
  BY DEF L!Pressed, L!Clamped
<1>2. NoWorse(e, e)
  <2>1. \A f \in L!Facts : e[f] \in Int
    BY LevelsByName DEF L!Facts, ScoreConstants
  <2> QED
    BY <2>1 DEF NoWorse
<1>3. L!RecoverySafety(e) \in 0 .. 100
  BY <1>1, <1>2, RecoverySafetyRises DEF L!RecoverySafety
<1>4. L!AgencyVisibility(e) \in 0 .. 100
  BY <1>1, <1>2, AgencyVisibilityRises DEF L!AgencyVisibility
<1>5. L!TeamReadiness(e) \in 0 .. 100
  BY <1>1, <1>2, TeamReadinessRises DEF L!TeamReadiness
<1>6. L!AgencyOS(e) \in 0 .. 100
  BY <1>1, <1>2, AgencyOSRises DEF L!AgencyOS
<1>7. /\ L!Reliability(e) \in 0 .. 100 /\ L!Intelligence(e) \in 0 .. 100
      /\ L!RevenueIntelligence(e) \in 0 .. 100
  BY ReliabilityIsPercentage, IntelligenceIsPercentage, RevenueIsPercentage
<1> QED
  BY <1>3, <1>4, <1>5, <1>6, <1>7 DEF L!Scores

\* What the constants of all parts stand for.
PartConstants ==
    /\ Team /\ Window \in Nat /\ NoSuffix \notin Suffixes
    /\ MaxSessions \in Nat /\ MaxSignals \in Nat
    /\ Inputs /\ Autopilots /\ ProxyConstants /\ ReviewConstants
    /\ DecisionConstants /\ ScoreConstants /\ MaxChanges \in Nat /\ ReportConstants
    /\ WorkConstants /\ DriftConstants

\* The parts whose tables no other property needs as a whole.
PartTypes ==
    /\ TeamIInv /\ RotationIInv /\ SignInIInv /\ ParentIInv
    /\ listed \in BOOLEAN
    /\ changes \in 0 .. MaxChanges

LEMMA PartTypesInvariance ==
    ASSUME PartConstants
    PROVE  Spec => []PartTypes
<1>1. Init => PartTypes
  <2> SUFFICES ASSUME Init
               PROVE  PartTypes
    OBVIOUS
  <2>1. TeamInit /\ RotationInit /\ SignInInit /\ ParentInit /\ D!Init /\ L!Init
    BY DEF Init
  <2>2. TeamIInv /\ RotationIInv /\ SignInIInv /\ ParentIInv
    BY <2>1, TeamInitIInv, RotationInitIInv, SignInInitIInv, ParentInitIInv DEF PartConstants
  <2>3. listed \in BOOLEAN
    <3>1. listed = FALSE
      BY <2>1 DEF D!Init
    <3> QED
      BY <3>1
  <2>4. changes \in 0 .. MaxChanges
    BY <2>1 DEF L!Init, PartConstants
  <2> QED
    BY <2>2, <2>3, <2>4 DEF PartTypes
<1>2. PartTypes /\ [Next]_vars => PartTypes'
  <2> SUFFICES ASSUME PartTypes, [Next]_vars
               PROVE  PartTypes'
    OBVIOUS
  <2>1. /\ [TeamNext]_teamVars /\ [RotationNext]_rotationVars
        /\ [SignInNext]_signInVars /\ [ParentNext]_parentVars
    BY DEF Next, vars
  <2>2. TeamIInv'
    BY <2>1, TeamStepKeeps DEF PartConstants, PartTypes
  <2>3. RotationIInv'
    BY <2>1, RotationStepKeeps DEF PartConstants, PartTypes
  <2>4. SignInIInv'
    BY <2>1, SignInStepKeeps DEF PartConstants, PartTypes
  <2>5. ParentIInv'
    BY <2>1, ParentStepKeeps DEF PartConstants, PartTypes
  <2>6. (listed \in BOOLEAN)'
    <3>1. CASE D!Next
      <4>1. PICK m, e : listed' = D!Listed(m, e)
        BY <3>1 DEF D!Next, D!Briefing, D!Feedback
      <4>2. D!Listed(m, e) \in BOOLEAN
        BY DEF D!Listed
      <4> QED
        BY <4>1, <4>2
    <3>2. CASE UNCHANGED decisions
      BY <3>2 DEF decisions, PartTypes
    <3> QED
      BY <3>1, <3>2 DEF Next, vars, decisions
  <2>7. (changes \in 0 .. MaxChanges)'
    <3>1. CASE L!Next
      BY <3>1 DEF L!Next, L!Learn, PartTypes, PartConstants
    <3>2. CASE UNCHANGED scores
      BY <3>2 DEF scores, PartTypes
    <3> QED
      BY <3>1, <3>2 DEF Next, vars, scores
  <2> QED
    BY <2>2, <2>3, <2>4, <2>5, <2>6, <2>7 DEF PartTypes
<1> QED
  BY <1>1, <1>2, PTL DEF Spec

\* Types, part by part, from the invariants of the sections above.
LEMMA TablesFollow ==
    ASSUME PartConstants, PartTypes, ProxyIInv, FlowIInv, ReviewIInv, MemoryIInv, ScoreIInv,
           ReportIInv
    PROVE  /\ TeamTypeOK /\ RotationTypeOK /\ SignInTypeOK /\ ParentTypeOK
           /\ P!TypeOK /\ W!TypeOK /\ F!TypeOK /\ D!TypeOK /\ L!TypeOK /\ C!TypeOK
<1>1. TeamTypeOK /\ RotationTypeOK /\ SignInTypeOK /\ ParentTypeOK
  BY DEF PartTypes, TeamIInv, RotationIInv, SignInIInv, ParentIInv
<1>2. P!TypeOK
  BY DEF ProxyIInv, GoodProxy, P!TypeOK
<1>3. W!TypeOK
  <2>1. \A i \in DOMAIN flows : flows[i] \in Flow
    BY DEF FlowIInv
  <2>2. \A i \in DOMAIN flows :
          /\ flows[i].actions \in W!Findings(type)
          /\ flows[i].status \in W!OpenStatuses \cup {"failed", "completed"}
    BY <2>1 DEF Flow
  <2> QED
    BY <2>2 DEF FlowIInv, W!TypeOK
<1>4. F!TypeOK
  <2>1. now \in 0 .. MaxTime /\ MaxTime \in Nat
    BY DEF ReviewIInv, ReviewConstants, PartConstants
  <2>2. [page : Pages, at : 1 .. now] \subseteq [page : Pages, at : F!Times]
    BY <2>1 DEF F!Times
  <2>3. errors \subseteq [page : Pages, at : F!Times]
    BY <2>2 DEF ReviewIInv
  <2>4. \A i \in DOMAIN recs : recs[i] \in Recommendation
    BY DEF ReviewIInv
  <2> QED
    BY <2>1, <2>3, <2>4 DEF ReviewIInv, Recommendation, F!TypeOK
<1>5. D!TypeOK
  BY DEF MemoryIInv, Dismissible, Memory, NotedVersions, PartTypes, D!TypeOK
<1>6. L!TypeOK
  BY ScoresArePercentages DEF ScoreIInv, KnownFacts, PartTypes, PartConstants, L!TypeOK
<1>7. C!TypeOK
  BY DEF ReportIInv, SoundWork, CacheRow, Snapshot, C!TypeOK
<1> QED
  BY <1>1, <1>2, <1>3, <1>4, <1>5, <1>6, <1>7

\* Users and roles, pending inputs, proxies and their suffixes, sign-ins,
\* workflows, failures, memories, the supervisor, scores within percentages,
\* the report cache, the page of the reader, the queue of work and drift keep
\* their types, whichever part moves.
THEOREM TablesTyped ==
    ASSUME PartConstants
    PROVE  Spec => []TypeOK
<1>1. ASSUME PartTypes, ProxyIInv, FlowIInv, ReviewIInv, MemoryIInv, ScoreIInv, ReportIInv,
             I!TypeOK, B!TypeOK, O!TypeOK, G!TypeOK
      PROVE  TypeOK
  <2>1. /\ TeamTypeOK /\ RotationTypeOK /\ SignInTypeOK /\ ParentTypeOK
        /\ P!TypeOK /\ W!TypeOK /\ F!TypeOK /\ D!TypeOK /\ L!TypeOK /\ C!TypeOK
    BY <1>1, TablesFollow
  <2> QED
    BY <1>1, <2>1 DEF TypeOK
<1>2. Spec => []I!TypeOK
  BY TextTypeCorrect DEF PartConstants
<1>3. Spec => []PartTypes
  BY PartTypesInvariance
<1>4. Spec => []ProxyIInv /\ []FlowIInv /\ []ReviewIInv
  <2>1. ProxyConstants /\ Autopilots /\ ReviewConstants
    BY DEF PartConstants
  <2> QED
    BY <2>1, ProxyInvariance, FlowInvariance, ReviewInvariance
<1>5. Spec => []MemoryIInv /\ []ScoreIInv /\ []ReportIInv
  <2>1. DecisionConstants /\ ScoreConstants /\ ReportConstants
    BY DEF PartConstants
  <2> QED
    BY <2>1, MemoryInvariance, ScoreInvariance, ReportInvariance
<1>6. Spec => []WorkIInv /\ []DriftIInv
  BY WorkInvariance, DriftInvariance DEF PartConstants
<1>7. (WorkIInv => O!TypeOK) /\ (DriftIInv => G!TypeOK)
  BY DEF WorkIInv, DriftIInv
<1> QED
  BY <1>1, <1>2, <1>3, <1>4, <1>5, <1>6, <1>7, PagesTyped, PTL
=============================================================================
