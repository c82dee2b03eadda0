---------------------------- MODULE Cache_proofs -----------------------------
(***************************************************************************)
(* Proofs about Cache: a title never outlives two lifetimes, belongs to    *)
(* the release it was asked for, and its absence is the inner lookup's     *)
(* answer, for any callers, releases and times.                            *)
(***************************************************************************)
EXTENDS Cache, TLAPS

Steps == {"idle", "memory", "durable", "repopulate", "inner", "insert", "store", "return"}

\* What a layer holds under k was fetched for k. A row expires a lifetime after it was
\* stored, and it was stored while the lookup that fetched it lasted; an entry is
\* stamped by a lookup that fetched its title, or found it in a row not yet expired.
Layers ==
  /\ \A k \in DOMAIN cache :
       /\ cache[k].title \in Title /\ cache[k].title.key = k
       /\ cache[k].cached_at \in 0..MaxTime
       /\ cache[k].cached_at - cache[k].title.at <= TTL - 1 + Duration
  /\ \A k \in DOMAIN table :
       /\ table[k].title \in Title /\ table[k].title.key = k
       /\ table[k].expires_at \in 0..MaxTime + TTL
       /\ table[k].expires_at <= table[k].title.at + TTL + Duration

\* A lookup that has a title, and how old that can have been when the lookup began.
Caller(c) ==
  /\ pc[c] \in Steps /\ key[c] \in Keys \cup {None} /\ now[c] \in 0..MaxTime
  /\ found[c] \in Title \cup {None, Error}
  /\ pc[c] # "idle" => key[c] \in Keys /\ now[c] <= clock /\ clock <= now[c] + Duration
  /\ pc[c] \in {"idle", "memory", "durable", "inner"} => found[c] = None
  /\ pc[c] \in {"repopulate", "insert", "store"} => found[c] \in Title
  /\ found[c] \in Title =>
       found[c].key = key[c] /\ now[c] - found[c].at <= 2 * (TTL - 1) + Duration
  /\ pc[c] = "repopulate" => now[c] - found[c].at <= TTL - 1 + Duration
  /\ pc[c] \in {"insert", "store"} => now[c] <= found[c].at
  /\ pc[c] = "return" /\ found[c] \in {None, Error} => c \in asked

\* The variables of the callers are functions.
Typed ==
  /\ pc \in [Callers -> Steps] /\ key \in [Callers -> Keys \cup {None}]
  /\ now \in [Callers -> 0..MaxTime] /\ found \in [Callers -> Title \cup {None, Error}]

IInv == clock \in 0..MaxTime /\ Typed /\ Layers /\ \A c \in Callers : Caller(c)
-----------------------------------------------------------------------------
\* A step of c leaves the lookups of the others alone.
LEMMA Others ==
  ASSUME IInv, NEW c \in Callers, clock' = clock,
         \A e \in Callers \ {c} :
           /\ pc'[e] = pc[e] /\ key'[e] = key[e] /\ now'[e] = now[e]
           /\ found'[e] = found[e] /\ (e \in asked => e \in asked')
  PROVE  \A e \in Callers \ {c} : Caller(e)'
BY DEF IInv, Caller

LEMMA LookupStep == ASSUME IInv, NEW c \in Callers, lookup(c) PROVE IInv'
<1> USE DEF IInv, lookup, Goto, Finding, layers
<1>1. PICK k \in Keys : key' = [key EXCEPT ![c] = k]
  BY DEF cache_key, Keys
<1>2. Typed' BY <1>1 DEF Typed, Steps
<1>3. Layers' BY DEF Layers
<1>4. Caller(c)'
  BY <1>1, CacheAssumption DEF Typed, Caller, Steps
<1>5. \A e \in Callers \ {c} : Caller(e)' BY <1>1, Others DEF Typed
<1> QED BY <1>2, <1>3, <1>4, <1>5

LEMMA FromMemoryStep == ASSUME IInv, NEW c \in Callers, FromMemory(c) PROVE IInv'
<1> USE DEF IInv, FromMemory, Goto, Finding, layers
<1>1. Layers' BY DEF Layers
<1>2. CASE pc' = [pc EXCEPT ![c] = "durable"] /\ found' = found
  <2>1. Typed' BY <1>2 DEF Typed, Steps
  <2>2. Caller(c)' BY <1>2 DEF Typed, Caller, Steps
  <2>3. \A e \in Callers \ {c} : Caller(e)' BY <1>2, Others DEF Typed
  <2> QED BY <1>1, <2>1, <2>2, <2>3
<1>3. CASE /\ key[c] \in DOMAIN cache
           /\ 0 <= now[c] - cache[key[c]].cached_at /\ now[c] - cache[key[c]].cached_at < TTL
           /\ pc' = [pc EXCEPT ![c] = "return"]
           /\ found' = [found EXCEPT ![c] = cache[key[c]].title]
  <2> DEFINE entry == cache[key[c]]
  <2>1. /\ entry.title \in Title /\ entry.title.key = key[c]
        /\ entry.cached_at \in 0..MaxTime
        /\ entry.cached_at - entry.title.at <= TTL - 1 + Duration
    BY <1>3 DEF Layers
  <2>2. now[c] - entry.title.at <= 2 * (TTL - 1) + Duration
    <3>1. entry.title.at \in 0..MaxTime BY <2>1 DEF Title
    <3>2. now[c] \in 0..MaxTime BY DEF Typed
    <3> HIDE DEF entry
    <3> QED BY <1>3, <2>1, <3>1, <3>2, CacheAssumption DEF entry
  <2>3. Typed' BY <1>3, <2>1 DEF Typed, Steps
  <2>4. Caller(c)'
    BY <1>3, <2>1, <2>2, CacheAssumption DEF Typed, Caller, Steps
  <2>5. \A e \in Callers \ {c} : Caller(e)' BY <1>3, Others DEF Typed
  <2> QED BY <1>1, <2>3, <2>4, <2>5
<1> QED BY <1>2, <1>3

LEMMA FromTableStep == ASSUME IInv, NEW c \in Callers, FromTable(c) PROVE IInv'
<1> USE DEF IInv, FromTable, Goto, Finding, layers
<1>1. Layers' BY DEF Layers
<1>2. CASE pc' = [pc EXCEPT ![c] = "inner"] /\ found' = found
  <2>1. Typed' BY <1>2 DEF Typed, Steps
  <2>2. Caller(c)' BY <1>2 DEF Typed, Caller, Steps
  <2>3. \A e \in Callers \ {c} : Caller(e)' BY <1>2, Others DEF Typed
  <2> QED BY <1>1, <2>1, <2>2, <2>3
<1>3. CASE /\ key[c] \in DOMAIN table /\ table[key[c]].expires_at > clock
           /\ pc' = [pc EXCEPT ![c] = "repopulate"]
           /\ found' = [found EXCEPT ![c] = table[key[c]].title]
  <2> DEFINE row == table[key[c]]
  <2>1. /\ row.title \in Title /\ row.title.key = key[c]
        /\ row.expires_at \in 0..MaxTime + TTL
        /\ row.expires_at <= row.title.at + TTL + Duration
    BY <1>3 DEF Layers
  <2>2. now[c] - row.title.at <= TTL - 1 + Duration
    <3>1. row.title.at \in 0..MaxTime BY <2>1 DEF Title
    <3>2. now[c] \in 0..MaxTime /\ now[c] <= clock /\ row.expires_at > clock
      BY <1>3 DEF Typed, Caller
    <3> HIDE DEF row
    <3> QED BY <2>1, <3>1, <3>2, CacheAssumption
  <2>3. now[c] - row.title.at <= 2 * (TTL - 1) + Duration
    <3>1. row.title.at \in 0..MaxTime BY <2>1 DEF Title
    <3>2. now[c] \in 0..MaxTime BY DEF Typed
    <3> HIDE DEF row
    <3> QED BY <2>2, <3>1, <3>2, CacheAssumption
  <2>4. Typed' BY <1>3, <2>1 DEF Typed, Steps
  <2>5. Caller(c)'
    BY <1>3, <2>1, <2>2, <2>3, CacheAssumption DEF Typed, Caller, Steps
  <2>6. \A e \in Callers \ {c} : Caller(e)' BY <1>3, Others DEF Typed
  <2> QED BY <1>1, <2>4, <2>5, <2>6
<1> QED BY <1>2, <1>3 DEF db_key

LEMMA InnerStep == ASSUME IInv, NEW c \in Callers, Inner(c) PROVE IInv'
<1> USE DEF IInv, Inner, Goto, Finding, layers
<1>1. Layers' BY DEF Layers
<1>2. ASSUME NEW what \in {None, Error},
             found' = [found EXCEPT ![c] = what], pc' = [pc EXCEPT ![c] = "return"]
      PROVE  IInv'
  <2>1. Typed' BY <1>2 DEF Typed, Steps
  <2>2. Caller(c)' BY <1>2, CacheAssumption DEF Typed, Caller, Steps
  <2>3. \A e \in Callers \ {c} : Caller(e)' BY <1>2, Others DEF Typed
  <2> QED BY <1>1, <2>1, <2>2, <2>3
<1>3. CASE /\ found' = [found EXCEPT ![c] = [key |-> key[c], at |-> clock]]
           /\ pc' = [pc EXCEPT ![c] = "insert"]
  <2> DEFINE title == [key |-> key[c], at |-> clock]
  <2>1. key[c] \in Keys /\ now[c] <= clock BY DEF Caller
  <2>2. title \in Title /\ title.key = key[c] /\ title.at = clock BY <2>1 DEF Title
  <2>3. now[c] - title.at <= 2 * (TTL - 1) + Duration
    BY <2>1, <2>2, CacheAssumption DEF Typed
  <2> HIDE DEF title
  <2>4. Typed' BY <1>3, <2>2 DEF Typed, Steps, title
  <2>5. found'[c] = title /\ pc'[c] = "insert" BY <1>3 DEF Typed, title
  <2>6. Caller(c)'
    BY <2>1, <2>2, <2>3, <2>5, CacheAssumption DEF Typed, Caller, Steps
  <2>7. \A e \in Callers \ {c} : Caller(e)' BY <1>3, Others DEF Typed
  <2> QED BY <1>1, <2>4, <2>6, <2>7
<1> QED BY <1>2, <1>3

\* Both ways to put a title into memory.
LEMMA RememberStep ==
  ASSUME IInv, NEW c \in Callers, Remember(c), UNCHANGED <<clock, table, key, now, found>>,
         pc[c] \in {"repopulate", "insert"}
  PROVE  Layers'
<1> USE DEF IInv, Remember
<1> DEFINE entry == [title |-> found[c], cached_at |-> now[c]]
<1>1. /\ found[c] \in Title /\ found[c].key = key[c] /\ now[c] \in 0..MaxTime
      /\ found[c].at \in 0..MaxTime
  BY DEF Caller, Title
<1>2. now[c] - found[c].at <= TTL - 1 + Duration
  BY <1>1, CacheAssumption DEF Caller
<1>3. /\ DOMAIN cache' = DOMAIN cache \cup {key[c]}
      /\ cache'[key[c]] = entry
      /\ \A k \in DOMAIN cache \ {key[c]} : cache'[k] = cache[k]
  <2>1. cache' = [k \in DOMAIN cache \cup {key[c]} |-> IF k = key[c] THEN entry ELSE cache[k]]
    BY DEF With
  <2> QED BY <2>1
<1>4. ASSUME NEW k \in DOMAIN cache'
      PROVE  /\ cache'[k].title \in Title /\ cache'[k].title.key = k
             /\ cache'[k].cached_at \in 0..MaxTime
             /\ cache'[k].cached_at - cache'[k].title.at <= TTL - 1 + Duration
  <2>1. CASE k = key[c] BY <2>1, <1>1, <1>2, <1>3
  <2>2. CASE k # key[c] BY <2>2, <1>3, <1>4 DEF Layers
  <2> QED BY <2>1, <2>2
<1>5. \A k \in DOMAIN table' :
        /\ table'[k].title \in Title /\ table'[k].title.key = k
        /\ table'[k].expires_at \in 0..MaxTime + TTL
        /\ table'[k].expires_at <= table'[k].title.at + TTL + Duration
  BY DEF Layers
<1>6. Title' = Title BY DEF Title
<1> HIDE DEF Remember, IInv
<1> QED BY <1>4, <1>5, <1>6 DEF Layers

LEMMA RepopulateStep == ASSUME IInv, NEW c \in Callers, Repopulate(c) PROVE IInv'
<1> USE DEF IInv, Repopulate, Goto
<1>1. Layers' BY RememberStep
<1>2. Typed' BY DEF Typed, Steps
<1>3. Caller(c)' BY CacheAssumption DEF Typed, Caller, Steps
<1>4. \A e \in Callers \ {c} : Caller(e)' BY Others DEF Typed
<1> QED BY <1>1, <1>2, <1>3, <1>4

LEMMA InsertStep == ASSUME IInv, NEW c \in Callers, Insert(c) PROVE IInv'
<1> USE DEF IInv, Insert, Goto
<1>1. Layers' BY RememberStep
<1>2. Typed' BY DEF Typed, Steps
<1>3. Caller(c)' BY CacheAssumption DEF Typed, Caller, Steps
<1>4. \A e \in Callers \ {c} : Caller(e)' BY Others DEF Typed
<1> QED BY <1>1, <1>2, <1>3, <1>4

LEMMA StoreStep == ASSUME IInv, NEW c \in Callers, Store(c) PROVE IInv'
<1> USE DEF IInv, Store, Goto
<1>1. /\ found[c] \in Title /\ found[c].key = key[c] /\ found[c].at \in 0..MaxTime
      /\ now[c] \in 0..MaxTime /\ now[c] <= found[c].at /\ clock <= now[c] + Duration
  BY DEF Caller, Title
<1>2. Layers'
  <2>1. CASE table' = table BY <2>1 DEF Layers
  <2>2. CASE table' = With(table, key[c], [title |-> found[c], expires_at |-> clock + TTL])
    <3>1. /\ DOMAIN table' = DOMAIN table \cup {key[c]}
          /\ table'[key[c]] = [title |-> found[c], expires_at |-> clock + TTL]
          /\ \A k \in DOMAIN table \ {key[c]} : table'[k] = table[k]
      BY <2>2 DEF With
    <3>2. clock + TTL \in 0..MaxTime + TTL /\ clock + TTL <= found[c].at + TTL + Duration
      BY <1>1, CacheAssumption
    <3>3. ASSUME NEW k \in DOMAIN table'
          PROVE  /\ table'[k].title \in Title /\ table'[k].title.key = k
                 /\ table'[k].expires_at \in 0..MaxTime + TTL
                 /\ table'[k].expires_at <= table'[k].title.at + TTL + Duration
      <4>1. CASE k = key[c] BY <4>1, <1>1, <3>1, <3>2
      <4>2. CASE k # key[c] BY <4>2, <3>1, <3>3 DEF Layers
      <4> QED BY <4>1, <4>2
    <3>4. cache' = cache /\ Layers OBVIOUS
    <3> HIDE DEF IInv, Store
    <3>5. Title' = Title BY DEF Title
    <3> QED BY <3>3, <3>4, <3>5 DEF Layers
  <2> QED BY <2>1, <2>2 DEF db_key
<1>3. Typed' BY DEF Typed, Steps
<1>4. Caller(c)' BY <1>1, CacheAssumption DEF Typed, Caller, Steps
<1>5. \A e \in Callers \ {c} : Caller(e)' BY Others DEF Typed
<1> QED BY <1>2, <1>3, <1>4, <1>5

LEMMA ReturnStep == ASSUME IInv, NEW c \in Callers, Return(c) PROVE IInv'
<1> USE DEF IInv, Return, Goto, Finding, layers
<1>1. Layers' BY DEF Layers
<1>2. Typed' BY CacheAssumption DEF Typed, Steps
<1>3. Caller(c)' BY CacheAssumption DEF Typed, Caller, Steps
<1>4. \A e \in Callers \ {c} : Caller(e)' BY Others DEF Typed
<1> QED BY <1>1, <1>2, <1>3, <1>4

LEMMA TickStep == ASSUME IInv, Tick PROVE IInv'
<1> USE DEF IInv, Tick, layers
<1>1. Layers' /\ Typed' BY DEF Layers, Typed
<1>2. ASSUME NEW c \in Callers PROVE Caller(c)'
  BY <1>2, CacheAssumption DEF Caller, Typed
<1> QED BY <1>1, <1>2, CacheAssumption

LEMMA RestartStep == ASSUME IInv, Restart PROVE IInv'
<1> USE DEF IInv, Restart
<1>1. Layers' BY DEF Layers, Title
<1>2. Typed' BY CacheAssumption DEF Typed, Steps
<1>3. \A c \in Callers : Caller(c)' BY CacheAssumption DEF Caller, Steps
<1> QED BY <1>1, <1>2, <1>3

LEMMA Inductive == Spec => []IInv
<1>1. Init => IInv
  BY CacheAssumption DEF Init, IInv, Layers, Typed, Caller, Steps
<1>2. IInv /\ [Next]_vars => IInv'
  <2> SUFFICES ASSUME IInv, [Next]_vars PROVE IInv'
    OBVIOUS
  <2>1. ASSUME NEW c \in Callers, lookup(c) \/ Step(c) PROVE IInv'
    BY <2>1, LookupStep, FromMemoryStep, FromTableStep, RepopulateStep, InnerStep,
       InsertStep, StoreStep, ReturnStep DEF Step
  <2>2. CASE Tick BY <2>2, TickStep
  <2>3. CASE Restart BY <2>3, RestartStep
  <2>4. CASE UNCHANGED vars
    BY <2>4 DEF vars, layers, IInv, Layers, Typed, Caller
  <2> QED BY <2>1, <2>2, <2>3, <2>4 DEF Next
<1> QED BY <1>1, <1>2, PTL DEF Spec

\* The layers and the lookups are well typed: CachedLookup of metadata.rs.
THEOREM TypeCorrect == Spec => []TypeOK
<1>1. IInv => TypeOK BY DEF IInv, Layers, Typed, Steps, TypeOK
<1> QED BY <1>1, Inductive, PTL

\* No lookup of CachedLookup answers with the title of another release, or with one its
\* two layers have kept for more than two lifetimes and the time of two lookups.
THEOREM TitlesExpire == Spec => []TwoLifetimes
<1>1. IInv => TwoLifetimes
  <2> SUFFICES ASSUME IInv, NEW c \in Callers, Returns(c), found[c] \in Title
               PROVE  /\ found[c].key = key[c]
                      /\ clock - found[c].at <= 2 * (TTL - 1) + 2 * Duration
    BY DEF TwoLifetimes
  <2>1. /\ clock <= now[c] + Duration /\ now[c] \in 0..MaxTime /\ clock \in 0..MaxTime
        /\ now[c] - found[c].at <= 2 * (TTL - 1) + Duration
        /\ found[c].key = key[c]
    BY DEF IInv, Caller, Returns
  <2>2. found[c].at \in 0..MaxTime BY DEF Title
  <2> QED BY <2>1, <2>2, CacheAssumption
<1> QED BY <1>1, Inductive, PTL

\* "No title" and an error are answers of the inner lookup, never of a layer.
THEOREM AbsenceIsAsked == Spec => []NothingWithoutAsking
<1>1. IInv => NothingWithoutAsking BY DEF IInv, Caller, NothingWithoutAsking, Returns
<1> QED BY <1>1, Inductive, PTL
=============================================================================
