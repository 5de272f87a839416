------------------------------- MODULE Roles -------------------------------
(***************************************************************************)
(* The operators' roles and what each may do: domain/constants.js.         *)
(***************************************************************************)

Roles == {"viewer", "officer", "admin"}

Permissions ==
    {"account:read", "account:create", "account:update",
     "account:delete", "account:purge", "audit:read"}

RolePermissions ==
    [viewer  |-> {"account:read"},
     officer |-> {"account:read", "account:create", "account:update"},
     admin   |-> Permissions]

RoleHasPermission(role, permission) == permission \in RolePermissions[role]
=============================================================================
