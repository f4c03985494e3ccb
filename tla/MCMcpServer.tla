---------------------------- MODULE MCMcpServer ----------------------------
(* Two MCP servers of one repository and, beside them, a vault client: the   *)
(* parts that keep a copy of what is stored elsewhere.  A behaviour is one   *)
(* of a single part, and the other stands still.                             *)
EXTENDS McpServer, VaultClient, TLC

CONSTANT Stores

VARIABLE kept  \* the store this behaviour is about

allVars == <<kept, vars, vaultVars>>

MCInit ==
  /\ kept \in Stores
  /\ Init
  /\ kept # "secret" => provider = "memory" /\ secret = <<FALSE>>
  /\ VaultInit

\* Bound: the secret has all its versions only while the clock stands at its start.
\* What depends on time needs one replacement, what depends on order no time.
VaultBound == Len(secret') = MaxVersions => vaultNow' = 0

MCNext ==
  /\ UNCHANGED kept
  /\ \/ kept = "memory" /\ Next /\ UNCHANGED vaultVars
     \/ kept = "secret" /\ VaultNext /\ VaultBound /\ UNCHANGED vars

MCSpec == MCInit /\ [][MCNext]_allVars

MCSymmetry == Permutations(Processes) \union Permutations(Calls)
=============================================================================
