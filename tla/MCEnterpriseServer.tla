------------------------- MODULE MCEnterpriseServer -------------------------
(* The enterprise server with a few callers, for TLC.  The guards that keep  *)
(* state per tenant are worth many requests of one kind, policy and audit    *)
(* many outcomes of few: a behaviour has four readers in front of embedded   *)
(* rules, or two senders of a tenant that does not change.                   *)
EXTENDS EnterpriseServer, TLC

Call(user, role, route, attributes) ==
  [user |-> user, home |-> "acme", header |-> NoTenant, role |-> role, route |-> route,
   attributes |-> attributes]

\* The readers use a route that is not audited, and name in the header a tenant
\* other than that of their token.  The senders are a developer, known by two sets
\* of attributes, and a viewer whose sending the embedded rules and RBAC both refuse.
MCReaders ==
  {[Call("rae", "viewer", "/a2a/tasks/list", "office") EXCEPT !.home = "globex", !.header = "acme"]}
MCDeveloper(attributes) == Call("dev", "developer", "/a2a/tasks/send", attributes)
MCViewer(user) == Call(user, "viewer", "/a2a/tasks/send", "office")
MCSenders == {MCDeveloper("office"), MCDeveloper("abroad"), MCViewer("vic")}
MCCallers == MCReaders \union MCSenders

\* A hash under which the viewer's input collides with the developer's, and one
\* without collisions.
MCHash(fields) == IF fields[4] \in {"dev", "vic"} THEN "collision" ELSE fields[4]
MCPerfectHash(fields) == fields

\* One user, as a developer and after losing that role.
MCOneUser == {MCDeveloper("office"), MCDeveloper("abroad"), MCViewer("dev")}

Tenant(status, limit) == [status |-> status, limit |-> limit]

MCTenantValues == {Tenant("active", 1), Tenant("active", 2), Tenant("suspended", 2)}
MCOneTenant == {Tenant("active", 3)}

\* The remote policy allows who is in the office, or nobody.
InOffice == {c \in Callers : c.attributes = "office"}
MCPolicies == {InOffice, {}}
MCOfficePolicy == {InOffice}

MCSymmetry == Permutations(Requests)

CalledBy(callers) == \A r \in Requests : req[r].caller \in callers
Roomy == \A t \in Tenants : store[t].limit = 2

MCInit ==
  /\ Init
  /\ \/ CalledBy(MCReaders) /\ engine = "embedded"
     \/ /\ CalledBy(MCSenders) /\ Roomy
        /\ \A c \in MCSenders : \E r \in Requests : req[r].caller = c
        /\ Cardinality({r \in Requests : req[r].caller = MCDeveloper("office")}) > 1

\* Bound: with senders, two requests of the four are made and time is shorter.
FewSenders ==
  CalledBy(MCSenders) =>
    /\ Cardinality({r \in Requests : req'[r].stage # "new"}) <= 2
    /\ now' < MaxTime
    /\ store' = store

MCSpec == MCInit /\ [][Next /\ FewSenders]_vars
=============================================================================
