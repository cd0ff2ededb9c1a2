------------------------------ MODULE TTLCache ------------------------------
(***************************************************************************)
(* One shard of the edge's bounded map with expiry (edge/ttlcache.go), as  *)
(* the response cache uses it: entries cost their size, an entry may be    *)
(* stored again with another size, and a reload deletes a service's keys.  *)
(*                                                                         *)
(* set holds the shard's lock and reads the clock once; it is several steps *)
(* here because evictOne chooses its victims, with nothing between them.   *)
(***************************************************************************)
EXTENDS Integers, FiniteSets, Functions

CONSTANTS
  Keys,       \* keys of the shard
  Sizes,      \* costs of the values stored
  ShardCost,  \* ttlCache.shardCost
  Sample,     \* entries evictOne looks at
  TTL,        \* lifetime of an entry
  MaxTime     \* bound: the clock stops here

VARIABLES
  now,
  entries,    \* cacheShard.entries: [cost, expires] of the keys present
  cost,       \* cacheShard.cost
  setting     \* the set that holds the lock: its key and cost

cacheVars == <<now, entries, cost, setting>>

Unlocked == [key |-> "none", cost |-> 0]
CacheInit == now = 0 /\ entries = <<>> /\ cost = 0 /\ setting = Unlocked
Tick == setting = Unlocked /\ now < MaxTime /\ now' = now + 1 /\ UNCHANGED <<entries, cost, setting>>

\* A value larger than a whole shard is not stored; one stored over another no
\* longer counts the old one.
set(k, c) ==
  /\ setting = Unlocked /\ c <= ShardCost
  /\ setting' = [key |-> k, cost |-> c]
  /\ cost' = IF k \in DOMAIN entries THEN cost - entries[k].cost ELSE cost
  /\ UNCHANGED <<now, entries>>
TooLarge == cost + setting.cost > ShardCost /\ entries # <<>>

\* The victim is an expired entry of the sample, or if there is none any of it.
Expired == {k \in DOMAIN entries : entries[k].expires <= now}
Victims(S) == IF S \cap Expired # {} THEN S \cap Expired ELSE S
evictOne ==
  /\ setting # Unlocked /\ TooLarge
  /\ \E S \in SUBSET DOMAIN entries :
       /\ Cardinality(S) = (IF Cardinality(DOMAIN entries) < Sample THEN Cardinality(DOMAIN entries) ELSE Sample)
       /\ \E victim \in Victims(S) :
            /\ cost' = cost - entries[victim].cost
            /\ entries' = Restrict(entries, DOMAIN entries \ {victim})
  /\ UNCHANGED <<now, setting>>
insert ==
  /\ setting # Unlocked /\ ~TooLarge
  /\ entries' = [k \in DOMAIN entries \cup {setting.key} |->
                   IF k = setting.key THEN [cost |-> setting.cost, expires |-> now + TTL] ELSE entries[k]]
  /\ cost' = cost + setting.cost
  /\ setting' = Unlocked
  /\ UNCHANGED now

deleteFunc(match) ==
  /\ setting = Unlocked /\ match \cap DOMAIN entries # {}
  /\ cost' = cost - SumFunctionOnSet([k \in DOMAIN entries |-> entries[k].cost], match \cap DOMAIN entries)
  /\ entries' = Restrict(entries, DOMAIN entries \ match)
  /\ UNCHANGED <<now, setting>>

CacheNext ==
  \/ Tick
  \/ \E k \in Keys, c \in Sizes : set(k, c)
  \/ evictOne
  \/ insert
  \/ \E match \in SUBSET Keys : deleteFunc(match)

CacheSpec == CacheInit /\ [][CacheNext]_cacheVars

----------------------------------------------------------------------------
\* The map is bounded (ttlCache: "a bounded in-process map"; NewMemoryResponses:
\* "keeps up to budget bytes"): what its entries cost together fits the shard.
WithinBudget == SumFunctionOnSet([k \in DOMAIN entries |-> entries[k].cost], DOMAIN entries) <= ShardCost
=============================================================================
