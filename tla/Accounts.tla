------------------------------ MODULE Accounts -------------------------------
(***************************************************************************)
(* modules/auth/models.py: the accounts and what their roles grant, which  *)
(* the commands of Bootstrap write and the requests of Sessions read.      *)
(***************************************************************************)
CONSTANTS Users,   \* identities of accounts
          NoUser,
          Roles,   \* system roles, the keys of DEFAULT_ROLE_PERMISSIONS
          ADMIN,   \* RoleCode.ADMIN
          Codes,   \* permission codes
          NONE     \* no such row

VARIABLES grants,  \* grants[r]: codes of role r in role_permissions
          account  \* account[u]: roles of u, is_active, is_superuser

adminVars == <<grants, account>>

Account == [roles : SUBSET Roles, active : BOOLEAN, super : BOOLEAN]

ASSUME RoleAssumption      == ADMIN \in Roles
ASSUME NoUserAssumption    == NoUser \notin Users
ASSUME NoAccountAssumption == NONE \notin Account
=============================================================================
