-------------------------- MODULE ConnectionCache --------------------------
(***************************************************************************)
(* src/app/services/connection_cache.py: the bounded, least-recently-used, *)
(* time-limited cache of customer database engines.                        *)
(*                                                                         *)
(* Each public method takes the lock once; the part under the lock is one  *)
(* action.  Engines that leave the cache are disposed by the same caller   *)
(* AFTER the lock is released, one at a time: between the two they are in  *)
(* toDispose[caller], and other callers' operations may come in between.   *)
(***************************************************************************)
EXTENDS Naturals, SequencesExt

CONSTANTS
  Conns,     \* connection ids, the keys of the cache
  Engines,   \* SQLAlchemy engines
  Callers,   \* threads that call the cache
  MaxSize,   \* ConnectionCache(max_size), 20 in the program
  TTL        \* ConnectionCache(ttl_seconds), in clock ticks

ASSUME CacheAssumption == MaxSize \in Nat \ {0} /\ TTL \in Nat

VARIABLES
  entries,   \* the OrderedDict: its first entry is the least recently used
  toDispose, \* engines a caller took out under the lock and disposes next
  disposed   \* engines dispose() was called on

cacheVars == <<entries, toDispose, disposed>>

(***************************************************************************)
(* CachedConnection.  age stands for clock() - loaded_at; every age above  *)
(* TTL behaves alike, so ages saturate at TTL + 1.  The schema is read     *)
(* from the engine once and never told apart from it.                      *)
(***************************************************************************)
Entry == [conn : Conns, engine : Engines, age : 0..TTL+1]

EnginesOf(s) == {s[i].engine : i \in DOMAIN s}

IsCached(s, c) == \E i \in DOMAIN s : s[i].conn = c

Position(s, c) == CHOOSE i \in DOMAIN s : s[i].conn = c

\* OrderedDict.pop(c, None): the other entries keep their order.
Without(s, c) == IF IsCached(s, c) THEN RemoveAt(s, Position(s, c)) ELSE s

\* The engines pop(c, None) returns: one or none.
Popped(s, c) == {s[i].engine : i \in {j \in DOMAIN s : s[j].conn = c}}

\* Mutant: the cache makes room only once it is one entry over its size.
Mutant_SurplusLate(s) == IF Len(s) > MaxSize + 1 THEN Len(s) - MaxSize ELSE 0

\* while len > max_size: popitem(last=False)
Surplus(s) == IF Len(s) > MaxSize THEN Len(s) - MaxSize ELSE 0
Trimmed(s) == SubSeq(s, Surplus(s) + 1, Len(s))
Oldest(s) == SubSeq(s, 1, Surplus(s))

Filled(s, c, e) == Append(Without(s, c), [conn |-> c, engine |-> e, age |-> 0])

Expired(s, c) == s[Position(s, c)].age > TTL

-----------------------------------------------------------------------------
CacheInit ==
  /\ entries = <<>>
  /\ toDispose = [k \in Callers |-> {}]
  /\ disposed = {}

\* Mutant: a hit does not move the entry to the end.
Mutant_GetHitKeepsPlace(c) ==
  /\ IsCached(entries, c)
  /\ ~Expired(entries, c)
  /\ UNCHANGED cacheVars

\* get: a live entry becomes the most recently used and is returned.
GetHit(c) ==
  /\ IsCached(entries, c)
  /\ ~Expired(entries, c)
  /\ entries' = Append(Without(entries, c), entries[Position(entries, c)])
  /\ UNCHANGED <<toDispose, disposed>>

\* Mutant: an expired entry is disposed and stays in the dictionary.
Mutant_GetExpiredKeepsEntry(k, c) ==
  /\ IsCached(entries, c)
  /\ Expired(entries, c)
  /\ toDispose' = [toDispose EXCEPT ![k] = Popped(entries, c)]
  /\ UNCHANGED <<entries, disposed>>

\* get: an expired entry is popped; the caller disposes it and sees a miss.
GetExpired(k, c) ==
  /\ IsCached(entries, c)
  /\ Expired(entries, c)
  /\ entries' = Without(entries, c)
  /\ toDispose' = [toDispose EXCEPT ![k] = Popped(entries, c)]
  /\ UNCHANGED disposed

GetMiss(c) ==
  /\ ~IsCached(entries, c)
  /\ UNCHANGED cacheVars

\* Mutant: the engine a put replaces is dropped without being disposed.
Mutant_PutForgetsReplaced(k, c, e) ==
  /\ entries' = Trimmed(Filled(entries, c, e))
  /\ toDispose' = [toDispose EXCEPT ![k] = EnginesOf(Oldest(Filled(entries, c, e)))]
  /\ UNCHANGED disposed

\* put: an entry of the same id makes way (disposed unless it holds this very
\* engine), the new entry is the most recently used, the oldest ones overflow.
Put(k, c, e) ==
  /\ entries' = Trimmed(Filled(entries, c, e))
  /\ toDispose' = [toDispose EXCEPT ![k] =
       (Popped(entries, c) \ {e}) \cup EnginesOf(Oldest(Filled(entries, c, e)))]
  /\ UNCHANGED disposed

Evict(k, c) ==
  /\ entries' = Without(entries, c)
  /\ toDispose' = [toDispose EXCEPT ![k] = Popped(entries, c)]
  /\ UNCHANGED disposed

Clear(k) ==
  /\ entries' = <<>>
  /\ toDispose' = [toDispose EXCEPT ![k] = EnginesOf(entries)]
  /\ UNCHANGED disposed

\* _dispose, one engine: an error dispose() raises is logged and swallowed, so
\* the loop always goes on to the next engine.
Dispose(k) ==
  \E e \in toDispose[k] :
    /\ toDispose' = [toDispose EXCEPT ![k] = @ \ {e}]
    /\ disposed' = disposed \cup {e}
    /\ UNCHANGED entries

\* The monotonic clock.
Tick ==
  /\ \E i \in DOMAIN entries : entries[i].age <= TTL
  /\ entries' = [i \in DOMAIN entries |->
       [entries[i] EXCEPT !.age = IF @ <= TTL THEN @ + 1 ELSE @]]
  /\ UNCHANGED <<toDispose, disposed>>

-----------------------------------------------------------------------------
(***************************************************************************)
(* The cache on its own, with callers that do what its only client,        *)
(* app.services.connections, does: an engine is put by one caller, under   *)
(* the id it was built for, and never after it left the cache.             *)
(***************************************************************************)
Idle(k) == toDispose[k] = {}

Doomed == UNION {toDispose[k] : k \in Callers}

MayPut(c, e) ==
  /\ e \notin disposed \cup Doomed
  /\ \A i \in DOMAIN entries : entries[i].engine = e => entries[i].conn = c

Operation(k) ==
  /\ Idle(k)
  /\ \E c \in Conns :
       \/ GetHit(c)
       \/ GetExpired(k, c)
       \/ GetMiss(c)
       \/ Evict(k, c)
       \/ \E e \in Engines : MayPut(c, e) /\ Put(k, c, e)

CacheNext ==
  \/ Tick
  \/ \E k \in Callers : Operation(k) \/ (Idle(k) /\ Clear(k)) \/ Dispose(k)

\* A thread inside _dispose goes on: nothing makes it wait.
CacheSpec == CacheInit /\ [][CacheNext]_cacheVars
                       /\ \A k \in Callers : WF_cacheVars(Dispose(k))

-----------------------------------------------------------------------------
\* Every variable has its type.
CacheTypeOK ==
  /\ entries \in Seq(Entry)
  /\ toDispose \in [Callers -> SUBSET Engines]
  /\ disposed \in SUBSET Engines

\* The dictionary never holds more than max_size entries, has one entry per id,
\* and no engine sits under two ids.
CacheShape ==
  /\ Len(entries) <= MaxSize
  /\ \A i, j \in DOMAIN entries :
       (entries[i].conn = entries[j].conn \/ entries[i].engine = entries[j].engine) => i = j

\* An engine the cache would hand out was never disposed and is on no thread's
\* list to dispose; and no engine is on two threads' lists.
NoUseAfterDispose ==
  /\ EnginesOf(entries) \cap (disposed \cup Doomed) = {}
  /\ Doomed \cap disposed = {}
  /\ \A k, l \in Callers : k # l => toDispose[k] \cap toDispose[l] = {}
=============================================================================
