---------------------------- MODULE AccessRules ----------------------------
(***************************************************************************)
(* The three tables a request of the enterprise server is judged by, and   *)
(* the rules of the embedded policy engine: ROLE_PERMISSIONS (RBAC), the   *)
(* action the policy middleware derives from a route, and the permission   *)
(* and audit action of a route.  Pure operators, no state.                 *)
(***************************************************************************)

Roles == {"admin", "developer", "viewer", "auditor"}

\* Routes that need authentication; the tables below give their rows.
TaskRoutes == {"/a2a/tasks/send", "/a2a/tasks/get", "/a2a/tasks/cancel",
               "/a2a/tasks/list", "/a2a/invoke"}
AuditRoutes == {"/enterprise/audit/query", "/enterprise/audit/export",
                "/enterprise/audit/verify"}
Routes == TaskRoutes \union AuditRoutes

\* ROLE_PERMISSIONS, restricted to the permissions some route asks for.
RolePermissions ==
  LET reading == {"tasks:read", "tasks:list"}
      working == reading \union {"tasks:create", "tasks:cancel", "agents:invoke"}
      auditing == {"audit:read", "audit:export"}
  IN [admin |-> working \union auditing, developer |-> working,
      viewer |-> reading, auditor |-> reading \union auditing]

\* The argument of requirePermission on each route.
RoutePermission(route) ==
  CASE route = "/a2a/tasks/send"   -> "tasks:create"
    [] route = "/a2a/tasks/get"    -> "tasks:read"
    [] route = "/a2a/tasks/cancel" -> "tasks:cancel"
    [] route = "/a2a/tasks/list"   -> "tasks:list"
    [] route = "/a2a/invoke"       -> "agents:invoke"
    [] route = "/enterprise/audit/export" -> "audit:export"
    [] OTHER -> "audit:read"

\* The action the policy middleware reads off a request.  Routes that its table
\* does not list get an action made of the method and the path.
PolicyAction(route) ==
  IF route \in TaskRoutes THEN RoutePermission(route) ELSE "method:path"

\* Roles the embedded engine admits for an action; {} for an action it does not
\* know, which the default rule denies.
RolesAllowed(action) ==
  CASE action \in {"tasks:create", "tasks:cancel", "agents:invoke"} -> {"admin", "developer"}
    [] action \in {"tasks:read", "tasks:list"} -> Roles
    [] action \in {"audit:read", "audit:export"} -> {"admin", "auditor"}
    [] OTHER -> {}

\* evaluatePolicy: the rules in order, each deciding when it applies.
Evaluate(action, resource, subject) ==
  \/ subject.role = "admin"
  \/ /\ resource.tenant = subject.tenant
     /\ ~(resource.type = "agent" /\ resource.root)
     /\ subject.role \in RolesAllowed(action)

\* What the audit middleware records a request as; "none" when its table has
\* no row for the route, and the request leaves no entry.
AuditAction(route) ==
  CASE route \in {"/a2a/tasks/send", "/a2a/tasks/get"} -> "task.create"
    [] route = "/a2a/tasks/cancel" -> "task.cancel"
    [] route = "/a2a/invoke" -> "agent.invoke"
    [] OTHER -> "none"
=============================================================================
