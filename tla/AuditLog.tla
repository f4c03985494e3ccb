------------------------------ MODULE AuditLog ------------------------------
(***************************************************************************)
(* src/enterprise/audit/store.ts as operators on the array of entries.     *)
(* Entry number i of the code is entries[i + 1] here.  append has no await *)
(* between reading the last entry and the push, so an append is one step   *)
(* of whoever calls it.                                                    *)
(***************************************************************************)
EXTENDS Integers, Sequences, FiniteSets

\* The digest of a value: a collision-free function into digests.
Hash(value) == [digest |-> value]

Genesis == Hash([genesis |-> TRUE])

\* What contentForHash holds: the fields of the entry except its id and hash.
HashOf(sequence, content, previousHash) ==
  Hash([sequence |-> sequence, content |-> content, previousHash |-> previousHash])

LinkAt(entries, sequence) ==
  IF sequence = 0 THEN Genesis ELSE entries[sequence].contentHash

\* Mutated form of Appended: each entry is linked to the first one.
AppendedToGenesis(entries, content) ==
  Append(entries, [sequence |-> Len(entries), content |-> content, previousHash |-> Genesis,
                   contentHash |-> HashOf(Len(entries), content, Genesis)])

Appended(entries, content) ==
  LET sequence == Len(entries)
      previous == LinkAt(entries, sequence)
  IN Append(entries, [sequence |-> sequence, content |-> content, previousHash |-> previous,
                      contentHash |-> HashOf(sequence, content, previous)])

\* Entry number i carries the hash of its own content, and unless it is the
\* first one the hash of its predecessor.
Intact(entries, i) ==
  LET e == entries[i + 1]
  IN /\ e.contentHash = HashOf(e.sequence, e.content, e.previousHash)
     /\ i > 0 => e.previousHash = entries[i].contentHash

\* verifyChain of an existing range: whether it is intact, and if not the first
\* entry at which it breaks.  (Any other range is an error.)
InRange(entries, start, end) == start <= end /\ end < Len(entries)

VerifyChain(entries, start, end) ==
  LET broken == {i \in start..end : ~Intact(entries, i)}
  IN IF broken = {} THEN [valid |-> TRUE]
     ELSE [valid |-> FALSE, brokenAt |-> CHOOSE i \in broken : \A j \in broken : i <= j]

\* The members of a finite set of numbers, in ascending order.
Ascending(numbers) ==
  [k \in 1..Cardinality(numbers) |->
     CHOOSE n \in numbers : Cardinality({m \in numbers : m < n}) = k - 1]

\* The first entries of those whose sequence numbers are in `found', oldest or
\* newest first.
Sliced(entries, found, order, limit) ==
  LET n == Cardinality(found)
      place(k) == IF order = "asc" THEN k ELSE n + 1 - k
  IN [k \in 1..(IF n < limit THEN n ELSE limit) |-> entries[Ascending(found)[place(k)] + 1]]

\* Mutated form of Query: the entry at the cursor is read again.
QueryFrom(entries, outcomes, after, order, limit) ==
  LET passes(e) == e.content.outcome \in outcomes /\ e.sequence >= after
  IN Sliced(entries, {entries[i].sequence : i \in {j \in DOMAIN entries : passes(entries[j])}},
            order, limit)

\* query: the entries that pass a filter (by outcome; the others are alike) and
\* come after a sequence number, newest first unless "asc", cut at limit.
Query(entries, outcomes, after, order, limit) ==
  LET passes(e) == e.content.outcome \in outcomes /\ e.sequence > after
  IN Sliced(entries, {entries[i].sequence : i \in {j \in DOMAIN entries : passes(entries[j])}},
            order, limit)
=============================================================================
