------------------------------- MODULE SaltCache -------------------------------
(***************************************************************************)
(* saltReplayCache of snellv5/server.go: two Bloom filters, of which the   *)
(* current one takes the salts.  When it is full the other is cleared and  *)
(* becomes the current one.  A salt sets and looks up the same bits, which *)
(* other salts may set as well.                                            *)
(***************************************************************************)
EXTENDS Naturals, Sequences

CONSTANTS
  Salts,
  Bits,       \* the bits of each salt: what MurmurHash and the hash step make of it
  Generation  \* saltReplayCacheGenerationSize

ASSUME CacheAssumption ==
  /\ Generation \in Nat \ {0}
  /\ \A s \in Salts : Bits[s] # {}

Filters == {0, 1}
AllBits == UNION {Bits[s] : s \in Salts}

VARIABLES
  current,  \* the filter that takes salts
  counts,   \* salts in each filter, 0 once it is full
  filters,  \* the bits that are set
  accepted  \* history: the salts that passed, in order

cacheVars == <<current, counts, filters, accepted>>

CacheTypeOK ==
  /\ current \in Filters
  /\ counts \in [Filters -> 0 .. Generation - 1]
  /\ filters \in [Filters -> SUBSET AllBits]
  /\ accepted \in Seq(Salts)

CacheInit ==
  /\ current = 0
  /\ counts = [g \in Filters |-> 0]
  /\ filters = [g \in Filters |-> {}]
  /\ accepted = << >>

\* saltReplayBloom.Add: what filter g then holds.
SetBits(g, salt) == filters[g] \cup Bits[salt]

\* Mutant: only the current filter is looked at.
ContainsCurrent(g, salt) == g = current /\ Bits[salt] \subseteq filters[g]

Contains(g, salt) == Bits[salt] \subseteq filters[g]

Duplicate(salt) == \E g \in Filters : Contains(g, salt)

\* Mutant: the other filter is not cleared when it becomes the current one.
AddUncleared(salt) ==
  /\ accepted' = Append(accepted, salt)
  /\ filters' = [filters EXCEPT ![current] = SetBits(current, salt)]
  /\ IF counts[current] + 1 >= Generation
     THEN counts' = [counts EXCEPT ![current] = 0] /\ current' = 1 - current
     ELSE counts' = [counts EXCEPT ![current] = @ + 1] /\ UNCHANGED current

\* The rest of CheckAndAdd, for a salt that is no duplicate.
Add(salt) ==
  LET added == [filters EXCEPT ![current] = SetBits(current, salt)] IN
  /\ accepted' = Append(accepted, salt)
  /\ IF counts[current] + 1 >= Generation
     THEN /\ counts' = [counts EXCEPT ![current] = 0]
          /\ current' = 1 - current
          /\ filters' = [added EXCEPT ![1 - current] = {}]
     ELSE /\ counts' = [counts EXCEPT ![current] = @ + 1]
          /\ filters' = added
          /\ UNCHANGED current
=============================================================================
