---------------------------- MODULE Authorization ----------------------------
(* Roles and permissions (authorization.py): deny by default.               *)

Roles == {"owner", "admin", "operator", "auditor", "viewer"}

ViewerPermissions ==
  {"dockyard:read", "inventory:read", "finding:read", "correlation:read", "report:read"}

AuditorPermissions ==
  ViewerPermissions \cup {"evidence:read_raw", "scope:read", "intelligence:read",
                          "report:export", "audit:read"}

OperatorPermissions ==
  ViewerPermissions \cup {"dockyard:manage", "scope:manage", "scope:read", "evidence:read_raw",
                          "intelligence:read", "workflow:run", "finding:update",
                          "intelligence:approve", "lab:authorize", "report:export"}

AdminPermissions == OperatorPermissions \cup AuditorPermissions \cup {"membership:manage"}

OwnerPermissions == AdminPermissions \cup {"organization:transfer"}

\* permissions_for: an unknown stored role has none.
PermissionsFor(role) ==
  IF role = "owner" THEN OwnerPermissions
  ELSE IF role = "admin" THEN AdminPermissions
  ELSE IF role = "operator" THEN OperatorPermissions
  ELSE IF role = "auditor" THEN AuditorPermissions
  ELSE IF role = "viewer" THEN ViewerPermissions
  ELSE {}

\* AuthorizationContext.allows; active is both the user's and the membership's.
Allows(role, active, permission) == active /\ permission \in PermissionsFor(role)
=============================================================================
