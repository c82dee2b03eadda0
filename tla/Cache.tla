-------------------------------- MODULE Cache -------------------------------
(***************************************************************************)
(* CachedLookup of metadata.rs: the canonical title of a release from the  *)
(* memory of the process, from the metadata_cache table, or from the inner *)
(* lookup, in that order. The rename slots share one CachedLookup, and no  *)
(* lock is held from one layer to the next. HttpLookup, the inner lookup,  *)
(* is a stub at this commit; it is modelled as the trait describes it.     *)
(*                                                                         *)
(* A title is the key it was asked for and the time it was fetched: what   *)
(* the upstream service said then. Time is in units of which the time to   *)
(* live is TTL; a lookup lasts at most Duration of them.                   *)
(***************************************************************************)
EXTENDS Integers

CONSTANTS Callers,    \* tasks that share the lookup
          Categories, WithoutGroup, \* of a release: its category, its name without the group
          None,       \* "no match", "no lookup", "no title"
          Error,      \* "the inner lookup failed"
          TTL,        \* cache_ttl_days
          Duration,   \* bound on the time a lookup takes
          MaxTime,    \* bound on the clock
          MaxFaults   \* bound on failures of the database and on restarts

VARIABLES
  clock,
  cache,    \* the entries in memory: [title, cached_at] by key
  table,    \* the rows of metadata_cache: [title, expires_at] by db_key
  pc,       \* pc[c]: the next step of the lookup of c
  key,      \* key[c]: what it is about
  now,      \* now[c]: the time it read at the start
  found,    \* found[c]: its title, None or Error
  asked,    \* callers whose lookup got to the inner lookup
  faults

layers == <<cache, table>>
vars   == <<clock, layers, pc, key, now, found, asked, faults>>

Keys == Categories \X WithoutGroup

Title == [key : Keys, at : 0..MaxTime]

ASSUME CacheAssumption ==
  /\ TTL \in Nat \ {0} /\ Duration \in Nat
  /\ MaxTime \in Nat /\ MaxFaults \in Nat
  /\ None # Error /\ {None, Error} \cap Title = {}

cache_key(category, without_group) == <<category, without_group>>

\* Mistake: the hash leaves the category out.
DbKeyByName(k) == <<k[2]>>

\* A SHA-256 of the key: another name for it.
db_key(k) == k

Init ==
  /\ clock = 0
  /\ cache = <<>> /\ table = <<>>
  /\ pc = [c \in Callers |-> "idle"]
  /\ key = [c \in Callers |-> None]
  /\ now = [c \in Callers |-> 0]
  /\ found = [c \in Callers |-> None]
  /\ asked = {}
  /\ faults = 0

With(f, k, v) == [x \in DOMAIN f \cup {k} |-> IF x = k THEN v ELSE f[x]]

Goto(c, step) == pc' = [pc EXCEPT ![c] = step]

Finding(c, what) == found' = [found EXCEPT ![c] = what]

Fault == faults < MaxFaults /\ faults' = faults + 1
-----------------------------------------------------------------------------
lookup(c) ==
  /\ pc[c] = "idle"
  /\ \E category \in Categories, name \in WithoutGroup :
       key' = [key EXCEPT ![c] = cache_key(category, name)]
  /\ now' = [now EXCEPT ![c] = clock]
  /\ Goto(c, "memory")
  /\ UNCHANGED <<clock, layers, found, asked, faults>>

\* Mistake: a hit renews the entry.
MemoryRenews(c) ==
  /\ pc[c] = "memory"
  /\ LET age == now[c] - cache[key[c]].cached_at
     IN  IF key[c] \in DOMAIN cache /\ 0 <= age /\ age < TTL
         THEN /\ Finding(c, cache[key[c]].title) /\ Goto(c, "return")
              /\ cache' = [cache EXCEPT ![key[c]].cached_at = now[c]]
         ELSE UNCHANGED <<found, cache>> /\ Goto(c, "durable")
  /\ UNCHANGED <<clock, table, key, now, asked, faults>>

\* An entry that was stamped after this lookup began has a negative age, which
\* counts as expired.
FromMemory(c) ==
  /\ pc[c] = "memory"
  /\ LET age == now[c] - cache[key[c]].cached_at
     IN  IF key[c] \in DOMAIN cache /\ 0 <= age /\ age < TTL
         THEN Finding(c, cache[key[c]].title) /\ Goto(c, "return")
         ELSE UNCHANGED found /\ Goto(c, "durable")
  /\ UNCHANGED <<clock, layers, key, now, asked, faults>>

\* Mistake: an error of the database is one of the lookup.
DurableOrError(c) ==
  /\ pc[c] = "durable"
  /\ UNCHANGED <<clock, layers, key, now, asked>>
  /\ \/ Fault /\ Finding(c, Error) /\ Goto(c, "return")
     \/ /\ UNCHANGED faults
        /\ IF db_key(key[c]) \in DOMAIN table /\ table[db_key(key[c])].expires_at > clock
           THEN Finding(c, table[db_key(key[c])].title) /\ Goto(c, "repopulate")
           ELSE UNCHANGED found /\ Goto(c, "inner")

\* get_cached_metadata, which takes the time itself; a failure counts as a miss.
FromTable(c) ==
  /\ pc[c] = "durable"
  /\ UNCHANGED <<clock, layers, key, now, asked>>
  /\ \/ Fault /\ UNCHANGED found /\ Goto(c, "inner")
     \/ /\ UNCHANGED faults
        /\ IF db_key(key[c]) \in DOMAIN table /\ table[db_key(key[c])].expires_at > clock
           THEN Finding(c, table[db_key(key[c])].title) /\ Goto(c, "repopulate")
           ELSE UNCHANGED found /\ Goto(c, "inner")

Remember(c) == cache' = With(cache, key[c], [title |-> found[c], cached_at |-> now[c]])

\* A hit in the table is new in memory: it is stamped with the time of this lookup,
\* not with the time it was fetched.
Repopulate(c) ==
  /\ pc[c] = "repopulate"
  /\ Remember(c)
  /\ Goto(c, "return")
  /\ UNCHANGED <<clock, table, key, now, found, asked, faults>>

\* Mistake: "no match" is remembered too.
InnerRemembersNone(c) ==
  /\ pc[c] = "inner"
  /\ asked' = asked \cup {c}
  /\ \/ Finding(c, None) /\ Goto(c, "insert")
     \/ Finding(c, Error) /\ Goto(c, "return")
     \/ Finding(c, [key |-> key[c], at |-> clock]) /\ Goto(c, "insert")
  /\ UNCHANGED <<clock, layers, key, now, faults>>

\* The inner lookup: a match, no match, or an error, which is passed on.
Inner(c) ==
  /\ pc[c] = "inner"
  /\ asked' = asked \cup {c}
  /\ \/ \E what \in {None, Error} : Finding(c, what) /\ Goto(c, "return")
     \/ Finding(c, [key |-> key[c], at |-> clock]) /\ Goto(c, "insert")
  /\ UNCHANGED <<clock, layers, key, now, faults>>

Insert(c) ==
  /\ pc[c] = "insert"
  /\ Remember(c)
  /\ Goto(c, "store")
  /\ UNCHANGED <<clock, table, key, now, found, asked, faults>>

\* store_cached_metadata: the row lives from now on, by its own reading of the
\* clock; a failure is logged.
Store(c) ==
  /\ pc[c] = "store"
  /\ \/ /\ table' = With(table, db_key(key[c]),
                         [title |-> found[c], expires_at |-> clock + TTL])
        /\ UNCHANGED faults
     \/ Fault /\ UNCHANGED table
  /\ Goto(c, "return")
  /\ UNCHANGED <<clock, cache, key, now, found, asked>>

\* The caller has its answer; the variables of the lookup are gone.
Return(c) ==
  /\ pc[c] = "return"
  /\ Goto(c, "idle") /\ Finding(c, None)
  /\ key' = [key EXCEPT ![c] = None]
  /\ now' = [now EXCEPT ![c] = 0]
  /\ asked' = asked \ {c}
  /\ UNCHANGED <<clock, layers, faults>>
-----------------------------------------------------------------------------
Tick ==
  /\ clock < MaxTime
  /\ \A c \in Callers : pc[c] # "idle" => clock - now[c] < Duration
  /\ clock' = clock + 1
  /\ UNCHANGED <<layers, pc, key, now, found, asked, faults>>

\* The process ends and starts again: the table stays.
Restart ==
  /\ Fault
  /\ cache' = <<>>
  /\ pc' = [c \in Callers |-> "idle"]
  /\ key' = [c \in Callers |-> None]
  /\ now' = [c \in Callers |-> 0]
  /\ found' = [c \in Callers |-> None]
  /\ asked' = {}
  /\ UNCHANGED <<clock, table>>

Step(c) ==
  \/ FromMemory(c) \/ FromTable(c) \/ Repopulate(c)
  \/ Inner(c) \/ Insert(c) \/ Store(c) \/ Return(c)

Next == (\E c \in Callers : lookup(c) \/ Step(c)) \/ Tick \/ Restart

Spec == Init /\ [][Next]_vars
-----------------------------------------------------------------------------
TypeOK ==
  /\ clock \in 0..MaxTime
  /\ \A k \in DOMAIN cache :
       cache[k].title \in Title /\ cache[k].cached_at \in 0..MaxTime
  /\ \A k \in DOMAIN table :
       table[k].title \in Title /\ table[k].expires_at \in 0..MaxTime + TTL
  /\ pc \in [Callers -> {"idle", "memory", "durable", "repopulate", "inner", "insert",
                         "store", "return"}]
  /\ key \in [Callers -> Keys \cup {None}]
  /\ now \in [Callers -> 0..MaxTime]
  /\ found \in [Callers -> Title \cup {None, Error}]

Returns(c) == pc[c] = "return"

\* The title a caller gets was fetched for its own category and name, and at most two
\* times to live ago: the two layers together keep it for nearly twice the time to live,
\* as a row about to expire is taken into memory as if it were new.
TwoLifetimes ==
  \A c \in Callers :
    Returns(c) /\ found[c] \in Title =>
      /\ found[c].key = key[c]
      /\ clock - found[c].at <= 2 * (TTL - 1) + 2 * Duration

\* metadata.rs "no negative caching", "must never block the pipeline": a lookup
\* without a title has asked the inner lookup itself, whatever is in the layers and
\* whatever the database does.
NothingWithoutAsking ==
  \A c \in Callers : Returns(c) /\ found[c] \in {None, Error} => c \in asked
=============================================================================
