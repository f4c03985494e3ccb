---------------------------- MODULE TenantGuards ----------------------------
(***************************************************************************)
(* The two guards of the enterprise server that keep state per tenant, as  *)
(* operators: the cache of TenantResolver and the sliding window of        *)
(* TenantRateLimiter.  Time is in units in which the window, the time to   *)
(* live and the clock are whole numbers.                                   *)
(***************************************************************************)
EXTENDS Integers, Sequences

CONSTANTS
  WindowMs,    \* windowMs of the rate limiter
  CacheTtlMs   \* cacheTtlMs of the tenant resolver

ASSUME GuardsAssumption == WindowMs \in Nat \ {0} /\ CacheTtlMs \in Nat

\* A tenant record of the store: what the guards read of it.
Statuses == {"active", "suspended", "pending"}

Absent == [absent |-> TRUE]

\* Mutated form of Fresh: the age of the entry is not looked at.
FreshForever(entry, now) == entry # Absent

\* The cached entry is younger than the time to live.
Fresh(entry, now) == entry # Absent /\ now - entry.fetchedAt < CacheTtlMs

\* validateTenant lets only an active tenant through.
Valid(tenant) == tenant.status = "active"

----------------------------------------------------------------------------
NewWindow == [requests |-> <<>>, runningTasks |-> 0]

\* The times after start: filter, on an array in the order of time, keeps what is
\* after the last time that has gone.
After(times, start) ==
  LET gone == CHOOSE k \in 0..Len(times) : \A i \in DOMAIN times : i <= k <=> times[i] <= start
  IN SubSeq(times, gone + 1, Len(times))

\* Mutated form of Cleaned: a request leaves the window one instant late.
CleanedLate(window, now) == [window EXCEPT !.requests = After(@, now - WindowMs - 1)]

\* checkLimit first forgets the requests that left the window.
Cleaned(window, now) == [window EXCEPT !.requests = After(@, now - WindowMs)]

\* Mutated form of RateExceeded: off by one.
RateExceededByOne(window, limit) == Len(window.requests) > limit

RateExceeded(window, limit) == Len(window.requests) >= limit

\* checkLimit: the verdict, the window afterwards and, for a rate refusal,
\* when the oldest request leaves the window.  NoReset stands for no such field,
\* and for the NaN that a limit of 0 makes of an empty window.
NoReset == -1

CheckLimit(window, limit, maxConcurrent, now) ==
  LET w == Cleaned(window, now)
      answer(verdict, after, resetAt) == [verdict |-> verdict, window |-> after, resetAt |-> resetAt]
      oldestLeaves == IF w.requests = <<>> THEN NoReset ELSE w.requests[1] + WindowMs
  IN IF RateExceeded(w, limit) THEN answer("rate_limit", w, oldestLeaves)
     ELSE IF w.runningTasks >= maxConcurrent THEN answer("concurrent_limit", w, NoReset)
     ELSE answer("allowed", [w EXCEPT !.requests = Append(@, now)], NoReset)
=============================================================================
