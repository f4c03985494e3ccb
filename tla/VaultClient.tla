----------------------------- MODULE VaultClient -----------------------------
(***************************************************************************)
(* src/enterprise/vault/client.ts: one vault client and its cache, seen    *)
(* through one secret.  get answers from the cache or asks the backend and *)
(* fills the cache with the reply; set and delete change the backend and   *)
(* then invalidate.  Each action is the code between two awaits, so calls  *)
(* overlap: at a login, while a request travels, while a reply travels.    *)
(* The memory and env clients ask nobody: their get reads at once and      *)
(* fills the cache a microtask later.                                      *)
(*                                                                         *)
(* The secret is a sequence of versions, a version saying only whether the *)
(* secret is there.  Others write it too.  A request that fails here may   *)
(* still be applied later: that is a write of others.                      *)
(***************************************************************************)
EXTENDS Integers, Sequences

CONSTANTS
  MaxVaultCalls,  \* bound on calls of get, set and delete
  Providers,      \* subset of {"memory", "env", "hashicorp"}
  SecretTtl,      \* cacheTtlMs; 0 turns the cache off
  FlightTime,     \* longest time a request and its reply travel; the code sets none
  MaxVaultTime,   \* bound on the clock
  MaxVersions     \* bound on versions of the secret

ASSUME VaultAssumption ==
  /\ Providers \subseteq {"memory", "env", "hashicorp"}
  /\ MaxVaultCalls \in Nat /\ SecretTtl \in Nat /\ FlightTime \in Nat /\ MaxVaultTime \in Nat
  /\ MaxVersions \in Nat \ {0}

VaultCalls == 1..MaxVaultCalls  \* in the order in which they are made

VARIABLES
  provider,    \* config.provider
  vaultNow,    \* Date.now()
  secret,      \* versions of the secret in the backend: is it there?
  replacedAt,  \* when each version but the last was replaced (history)
  hasToken,    \* HashiCorpVaultClient.token is set
  cached,      \* cache: [version, fetchedAt], or NoEntry
  vcall,       \* the calls
  settled,     \* newest answered own write that no fetch overlapped (history)
  got          \* what the get returned that has just returned, if one has (history)

vaultVars == <<provider, vaultNow, secret, replacedAt, hasToken, cached, vcall, settled, got>>

NoEntry == [version |-> 0, fetchedAt |-> 0]
Nothing == [version |-> 0, floor |-> 0]

\* A call: since is when its request left, version what the backend read or
\* wrote for it, 0 for a refused delete.  floor is settled when the call began
\* (history).
Uncalled == [op |-> "none", stage |-> "idle", since |-> 0, version |-> 0, floor |-> 0]

Latest == Len(secret)
Remote == provider = "hashicorp"

VaultInit ==
  /\ provider \in Providers
  /\ vaultNow = 0
  /\ secret \in {<<FALSE>>, <<TRUE>>}
  /\ replacedAt = <<>>
  /\ hasToken \in IF Remote THEN BOOLEAN ELSE {FALSE}
  /\ cached = NoEntry
  /\ vcall = [c \in VaultCalls |-> Uncalled]
  /\ settled = 0
  /\ got = Nothing

In(c, stage) == vcall[c].stage = stage
Starts(c) == In(c, "idle") /\ \A d \in 1..(c - 1) : ~In(d, "idle")
Op(c) == vcall[c].op

\* How long ago the version stopped being the secret.
Age(version) == IF version = Latest THEN 0 ELSE vaultNow - replacedAt[version]

Ended(c) == vcall' = [vcall EXCEPT ![c] = [Uncalled EXCEPT !.stage = "done"]]

\* A get that began when "floor" was settled returns a version.
Returns(c, version, floor) == Ended(c) /\ got' = [version |-> version, floor |-> floor]

Begun(op, stage) ==
  [Uncalled EXCEPT !.op = op, !.stage = stage, !.since = vaultNow,
                   !.floor = IF op = "get" THEN settled ELSE 0]

\* The backend takes a write.
Updated(there) ==
  /\ Latest < MaxVersions
  /\ secret' = Append(secret, there)
  /\ replacedAt' = Append(replacedAt, vaultNow)

\* A write that has returned is settled when no reply that carries an older
\* version is still to fill the cache.
SettleAt(c, version) ==
  settled' = IF /\ version > settled
                /\ \A d \in VaultCalls \ {c} :
                     Op(d) = "get" /\ In(d, "answered") => vcall[d].version >= version
             THEN version ELSE settled

\* Mutated form of Invalidated: the entry is kept.
NotInvalidated(c, version) == UNCHANGED cached /\ SettleAt(c, version)

\* invalidateCache after a write of this client.
Invalidated(c, version) == cached' = NoEntry /\ SettleAt(c, version)

----------------------------------------------------------------------------
\* Mutated form of FreshEntry: the age of the entry is not looked at.
EntryOfAnyAge == SecretTtl > 0 /\ cached # NoEntry

FreshEntry == /\ SecretTtl > 0
              /\ cached # NoEntry
              /\ vaultNow - cached.fetchedAt < SecretTtl

\* get, cache hit.
GetCached(c) ==
  /\ Starts(c)
  /\ FreshEntry
  /\ Returns(c, cached.version, settled)
  /\ UNCHANGED <<provider, vaultNow, secret, replacedAt, hasToken, cached, settled>>

\* get of the memory and env clients, cache miss: fetchSecret reads at once.
GetLocal(c) ==
  /\ ~Remote /\ Starts(c) /\ ~FreshEntry
  /\ vcall' = [vcall EXCEPT ![c] = [Begun("get", "answered") EXCEPT !.version = Latest]]
  /\ UNCHANGED <<provider, vaultNow, secret, replacedAt, hasToken, cached, settled>>

\* set and delete of the memory client: no await at all.
WriteLocal(c) ==
  /\ provider = "memory" /\ Starts(c)
  /\ \E op \in {"set", "delete"} :
       /\ Ended(c)
       /\ IF op = "set" \/ secret[Latest]
          THEN Updated(op = "set") /\ Invalidated(c, Latest + 1)
          ELSE Invalidated(c, Latest) /\ UNCHANGED <<secret, replacedAt>>
  /\ UNCHANGED <<provider, vaultNow, hasToken>>

\* The env client is read only: set and delete throw.
WriteRefused(c) ==
  /\ provider = "env" /\ Starts(c)
  /\ Ended(c)
  /\ UNCHANGED <<provider, vaultNow, secret, replacedAt, hasToken, cached, settled>>

\* A call of the HashiCorp client that has to ask: getToken, which logs in unless
\* there is a token, and then the request.
Ask(c) ==
  /\ Remote /\ Starts(c)
  /\ \E op \in {"get", "set", "delete"} :
       /\ op = "get" => ~FreshEntry
       /\ vcall' = [vcall EXCEPT ![c] = IF hasToken THEN Begun(op, "sent")
                                        ELSE [Begun(op, "login") EXCEPT !.since = 0]]
  /\ UNCHANGED <<provider, vaultNow, secret, replacedAt, hasToken, cached, settled>>

\* The login is answered: the token is kept for good, and the request leaves.
LoggedIn(c) ==
  /\ In(c, "login")
  /\ hasToken' = TRUE
  /\ vcall' = [vcall EXCEPT ![c].stage = "sent", ![c].since = vaultNow]
  /\ UNCHANGED <<provider, vaultNow, secret, replacedAt, cached, settled>>

\* External: the vault accepts the request.  A read sees the current version, a
\* delete of a secret that is not there changes nothing.
VaultAccepts(c) ==
  /\ In(c, "sent")
  /\ IF Op(c) = "set" \/ (Op(c) = "delete" /\ secret[Latest])
     THEN Updated(Op(c) = "set")
     ELSE UNCHANGED <<secret, replacedAt>>
  /\ vcall' = [vcall EXCEPT ![c].stage = "answered", ![c].version = Len(secret')]
  /\ UNCHANGED <<provider, vaultNow, hasToken, cached, settled>>

\* External: it refuses a delete (the token has run out, the vault is sealed).
\* Other calls throw when they are refused: see CallFails.
VaultRefuses(c) ==
  /\ In(c, "sent") /\ Op(c) = "delete"
  /\ vcall' = [vcall EXCEPT ![c].stage = "answered"]
  /\ UNCHANGED <<provider, vaultNow, secret, replacedAt, hasToken, cached, settled>>

\* get after its await: a secret that is there goes into the cache, dated now.
GetReturns(c) ==
  /\ In(c, "answered") /\ Op(c) = "get"
  /\ cached' = IF secret[vcall[c].version] /\ SecretTtl > 0
               THEN [version |-> vcall[c].version, fetchedAt |-> vaultNow]
               ELSE cached
  /\ Returns(c, vcall[c].version, vcall[c].floor)
  /\ UNCHANGED <<provider, vaultNow, secret, replacedAt, hasToken, settled>>

\* set and delete after their request: invalidateCache.
WriteReturns(c) ==
  /\ In(c, "answered") /\ Op(c) \in {"set", "delete"}
  /\ Invalidated(c, vcall[c].version)
  /\ Ended(c)
  /\ UNCHANGED <<provider, vaultNow, secret, replacedAt, hasToken>>

\* A fetch throws, or the login, the read or the write is refused: the call throws,
\* a set or a delete without invalidating, even if the vault has taken the write.
CallFails(c) ==
  /\ Remote /\ vcall[c].stage \in {"login", "sent", "answered"}
  /\ Ended(c)
  /\ UNCHANGED <<provider, vaultNow, secret, replacedAt, hasToken, cached, settled>>

----------------------------------------------------------------------------
\* invalidateCache, of the key or of all keys, by the host.
InvalidateCache ==
  /\ cached # NoEntry
  /\ cached' = NoEntry
  /\ UNCHANGED <<provider, vaultNow, secret, replacedAt, hasToken, vcall, settled>>

\* External: somebody else writes or deletes the secret.
OthersWrite ==
  /\ \E there \in BOOLEAN : (there \/ secret[Latest]) /\ Updated(there)
  /\ UNCHANGED <<provider, vaultNow, hasToken, cached, vcall, settled>>

\* A microtask is queued, or a request has travelled for FlightTime.
Due(c) ==
  IF Remote THEN vcall[c].stage \in {"sent", "answered"} /\ vaultNow - vcall[c].since >= FlightTime
  ELSE In(c, "answered")

VaultTick ==
  /\ vaultNow < MaxVaultTime
  /\ \A c \in VaultCalls : ~Due(c)
  /\ vaultNow' = vaultNow + 1
  /\ UNCHANGED <<provider, secret, replacedAt, hasToken, cached, vcall, settled>>

VaultCall(c) ==
  \/ GetLocal(c) \/ WriteLocal(c) \/ WriteRefused(c)
  \/ Ask(c) \/ LoggedIn(c) \/ VaultAccepts(c) \/ VaultRefuses(c)
  \/ WriteReturns(c) \/ CallFails(c)

VaultNext ==
  \/ \E c \in VaultCalls : GetCached(c) \/ GetReturns(c)
  \/ /\ \/ \E c \in VaultCalls : VaultCall(c)
        \/ InvalidateCache \/ OthersWrite \/ VaultTick
     /\ got' = Nothing

VaultSpec == VaultInit /\ [][VaultNext]_vaultVars

----------------------------------------------------------------------------
\* The time to live bounds staleness: a get never returns a secret that was
\* replaced, by whomever, longer ago than the time to live plus the time a fetch
\* may take, however fetches, writes, lost replies and invalidations overlap.
\* (That the secret is not there counts as a value, an exception does not.)
ReadNoStalerThanTtl ==
  got # Nothing =>
    LET flight == IF Remote THEN FlightTime ELSE 0
    IN Age(got.version) < SecretTtl + flight \/ Age(got.version) <= flight

\* A client reads its own writes: after set or delete has returned, a get returns
\* what was written or something newer.  The invalidation guarantees it unless a
\* reply read before the write was still on its way at that moment (settled does
\* not count such a write): then the old value fills the cache again.
OwnWritesVisible == got.version >= got.floor
=============================================================================
