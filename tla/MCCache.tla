------------------------------ MODULE MCCache ------------------------------
(***************************************************************************)
(* ConnectionCache for TLC, with the history that its least-recently-used  *)
(* promise is stated on, and against what it promises its callers.         *)
(***************************************************************************)
EXTENDS ConnectionCache

CONSTANT NoEngine

ASSUME NoEngineAssumption == NoEngine \notin Engines

\* For each id, the other ids used (returned by get, or put) since it was.
VARIABLE since

mcVars == <<entries, toDispose, disposed, since>>

Used(c) == since' = [d \in Conns |-> IF d = c THEN {} ELSE since[d] \cup {c}]

TrackedOperation(k) ==
  /\ Idle(k)
  /\ \E c \in Conns :
       \/ GetHit(c) /\ Used(c)
       \/ GetExpired(k, c) /\ UNCHANGED since
       \/ GetMiss(c) /\ UNCHANGED since
       \/ Evict(k, c) /\ UNCHANGED since
       \/ \E e \in Engines : MayPut(c, e) /\ Put(k, c, e) /\ Used(c)

MCInit == CacheInit /\ since = [c \in Conns |-> {}]

MCNext ==
  \/ \E k \in Callers : TrackedOperation(k)
  \/ \E k \in Callers : Idle(k) /\ Clear(k) /\ UNCHANGED since
  \/ \E k \in Callers : Dispose(k) /\ UNCHANGED since
  \/ Tick /\ UNCHANGED since

\* Disposing leaves the history alone, so this is the fairness of CacheSpec.
MCSpec == MCInit /\ [][MCNext]_mcVars
                 /\ \A k \in Callers : WF_mcVars(Dispose(k) /\ UNCHANGED since)

(***************************************************************************)
(* A put pushes an entry of another id out only when at least MaxSize      *)
(* other ids were used since that id was: the entry is least recently      *)
(* used, and the cache is full.                                            *)
(***************************************************************************)
OverflowIsLeastRecent ==
  [][\A c \in Conns :
       /\ IsCached(entries, c) /\ ~IsCached(entries', c)
       /\ since' # since
       => Cardinality(since'[c]) >= MaxSize]_mcVars

\* The dictionary as a map.
MapOf(s) == [c \in Conns |-> IF IsCached(s, c) THEN s[Position(s, c)].engine ELSE NoEngine]

\* The cache implements the engine store: callers see a map that may forget,
\* and every engine it lets go is disposed once, whoever let it go.
StoreOf == INSTANCE EngineStore WITH
  store <- MapOf(entries),
  released <- Doomed,
  gone <- disposed

ImplementsStore == StoreOf!Spec
=============================================================================
