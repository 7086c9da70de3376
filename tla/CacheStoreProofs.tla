-------------------------- MODULE CacheStoreProofs --------------------------
(***************************************************************************)
(* The cache implements the engine store, and makes room by forgetting the *)
(* least recently used entry: for every size and lifetime, and any number  *)
(* of ids, engines and callers.                                            *)
(***************************************************************************)
EXTENDS MCCache, ConnectionCacheProofs, FiniteSetTheorems

\* s holds e for c.
Holds(s, c, e) == \E i \in DOMAIN s : s[i].conn = c /\ s[i].engine = e

\* The entry of c comes before the entry of d.
Before(s, c, d) == \E i, j \in DOMAIN s : i < j /\ s[i].conn = c /\ s[j].conn = d

ConnsOf(s) == {s[i].conn : i \in DOMAIN s}

-----------------------------------------------------------------------------
(* The dictionary as a map *)

\* What an entry of the dictionary is made of.
LEMMA EntryOf ==
  ASSUME NEW s \in Seq(Entry), NEW i \in DOMAIN s
  PROVE  s[i].conn \in Conns /\ s[i].engine \in Engines
<1>1. s[i] \in Entry
  OBVIOUS
<1> QED
  BY <1>1 DEF Entry

\* The map gives an id the engine the dictionary holds for it, or none.
LEMMA MapIs ==
  ASSUME NEW s \in Seq(Entry), Keyed(s), NEW c \in Conns
  PROVE  /\ MapOf(s)[c] \in Engines \cup {NoEngine}
         /\ \A e \in Engines : MapOf(s)[c] = e <=> Holds(s, c, e)
         /\ MapOf(s)[c] = NoEngine <=> ~IsCached(s, c)
         /\ IsCached(s, c) <=> \E e \in Engines : Holds(s, c, e)
<1>1. \A i \in DOMAIN s : s[i].engine \in Engines
  BY EntryOf
<1>2. CASE IsCached(s, c)
  <2>1. Position(s, c) \in DOMAIN s /\ s[Position(s, c)].conn = c
    BY <1>2, PositionFinds
  <2>2. MapOf(s)[c] = s[Position(s, c)].engine
    BY <1>2 DEF MapOf
  <2>3. \A e : Holds(s, c, e) <=> e = s[Position(s, c)].engine
    BY <2>1 DEF Holds, Keyed
  <2> QED
    BY <1>1, <1>2, <2>1, <2>2, <2>3, NoEngineAssumption
<1>3. CASE ~IsCached(s, c)
  <2>1. MapOf(s)[c] = NoEngine
    BY <1>3 DEF MapOf
  <2>2. \A e : ~Holds(s, c, e)
    BY <1>3 DEF Holds, IsCached
  <2> QED
    BY <1>3, <2>1, <2>2, NoEngineAssumption
<1> QED
  BY <1>2, <1>3

\* Dictionaries that hold the same, but for the ids in D, which t lacks.
LEMMA MapWithout ==
  ASSUME NEW s \in Seq(Entry), NEW t \in Seq(Entry), Keyed(s), Keyed(t), NEW D,
         \A c \in Conns, e \in Engines : Holds(t, c, e) <=> c \notin D /\ Holds(s, c, e)
  PROVE  MapOf(t) = [c \in Conns |-> IF c \in D THEN NoEngine ELSE MapOf(s)[c]]
<1>1. ASSUME NEW c \in Conns PROVE MapOf(t)[c] = IF c \in D THEN NoEngine ELSE MapOf(s)[c]
  <2>1. CASE c \in D
    BY <2>1, MapIs
  <2>2. CASE c \notin D
    <3>1. /\ MapOf(s)[c] \in Engines \cup {NoEngine} /\ MapOf(t)[c] \in Engines \cup {NoEngine}
          /\ \A e \in Engines : MapOf(s)[c] = e <=> MapOf(t)[c] = e
      BY <2>2, MapIs
    <3> QED
      BY <2>2, <3>1
  <2> QED
    BY <2>1, <2>2
<1> QED
  BY <1>1 DEF MapOf

\* Dictionaries that hold the same are the same map.
LEMMA MapSame ==
  ASSUME NEW s \in Seq(Entry), NEW t \in Seq(Entry), Keyed(s), Keyed(t),
         \A c \in Conns, e \in Engines : Holds(t, c, e) <=> Holds(s, c, e)
  PROVE  MapOf(t) = MapOf(s)
<1> DEFINE none == {}
<1>1. MapOf(t) = [c \in Conns |-> IF c \in none THEN NoEngine ELSE MapOf(s)[c]]
  <2>1. \A c \in Conns, e \in Engines : Holds(t, c, e) <=> c \notin none /\ Holds(s, c, e)
    OBVIOUS
  <2> HIDE DEF none
  <2> QED
    BY <2>1, MapWithout
<1> QED
  BY <1>1 DEF MapOf

\* A dictionary made of entries of s holds what s holds with an engine that is left.
LEMMA HoldsFrom ==
  ASSUME NEW s \in Seq(Entry), NEW t \in Seq(Entry), Keyed(s),
         \A i \in DOMAIN t : From(t, i, s), NEW c, NEW e
  PROVE  Holds(t, c, e) <=> Holds(s, c, e) /\ e \in EnginesOf(t)
<1>1. Holds(t, c, e) => Holds(s, c, e) /\ e \in EnginesOf(t)
  BY DEF Holds, From, EnginesOf
<1>2. ASSUME Holds(s, c, e), e \in EnginesOf(t) PROVE Holds(t, c, e)
  <2>1. PICK j \in DOMAIN s : s[j].conn = c /\ s[j].engine = e
    BY <1>2 DEF Holds
  <2>2. PICK i \in DOMAIN t : t[i].engine = e
    BY <1>2 DEF EnginesOf
  <2>3. PICK k \in DOMAIN s : t[i].conn = s[k].conn /\ t[i].engine = s[k].engine
    BY <2>2 DEF From
  <2>4. k = j
    BY <2>1, <2>2, <2>3 DEF Keyed
  <2> QED
    BY <2>1, <2>2, <2>3, <2>4 DEF Holds
<1> QED
  BY <1>1, <1>2

\* What the ids in D hold, as the store has it.
LEMMA HoldingsAre ==
  ASSUME entries \in Seq(Entry), Keyed(entries), NEW D \in SUBSET Conns
  PROVE  StoreOf!Holdings(D) = {entries[i].engine : i \in {j \in DOMAIN entries : entries[j].conn \in D}}
<1>1. \A e \in StoreOf!Holdings(D) : \E c \in D : e \in Engines /\ Holds(entries, c, e)
  <2> SUFFICES ASSUME NEW c \in D, MapOf(entries)[c] # NoEngine
               PROVE  MapOf(entries)[c] \in Engines /\ Holds(entries, c, MapOf(entries)[c])
    BY DEF StoreOf!Holdings
  <2> QED
    BY MapIs
<1>2. ASSUME NEW i \in DOMAIN entries, entries[i].conn \in D
      PROVE  entries[i].engine \in StoreOf!Holdings(D)
  <2>1. entries[i].engine \in Engines /\ entries[i].conn \in Conns
    BY EntryOf
  <2>2. Holds(entries, entries[i].conn, entries[i].engine)
    BY DEF Holds
  <2>3. MapOf(entries)[entries[i].conn] = entries[i].engine
    BY <2>1, <2>2, MapIs
  <2> QED
    BY <1>2, <2>1, <2>3, NoEngineAssumption DEF StoreOf!Holdings
<1> QED
  BY <1>1, <1>2 DEF Holds

\* EngineStore counts with the same Cardinality.
LEMMA SameCardinality == \A S : StoreOf!Cardinality(S) = Cardinality(S)
BY DEF StoreOf!Cardinality, Cardinality

\* The map has as many ids as the dictionary entries.
LEMMA HeldCount ==
  ASSUME NEW s \in Seq(Entry), Keyed(s)
  PROVE  /\ IsFiniteSet(ConnsOf(s)) /\ Cardinality(ConnsOf(s)) = Len(s)
         /\ {c \in Conns : MapOf(s)[c] # NoEngine} = ConnsOf(s)
<1> DEFINE f == [i \in 1..Len(s) |-> s[i].conn]
<1>1. DOMAIN s = 1..Len(s) /\ Len(s) \in Nat
  OBVIOUS
<1>2. f \in Bijection(1..Len(s), ConnsOf(s))
  <2>1. f \in [1..Len(s) -> ConnsOf(s)]
    BY <1>1 DEF ConnsOf
  <2>2. \A i, j \in 1..Len(s) : f[i] = f[j] => i = j
    BY <1>1 DEF Keyed
  <2>3. \A c \in ConnsOf(s) : \E i \in 1..Len(s) : f[i] = c
    BY <1>1 DEF ConnsOf
  <2> HIDE DEF f
  <2> QED
    BY <2>1, <2>2, <2>3 DEF Bijection, Injection, IsInjective, Surjection
<1>3. IsFiniteSet(1..Len(s)) /\ Cardinality(1..Len(s)) = Len(s)
  BY <1>1, FS_Interval
<1>4. ExistsBijection(1..Len(s), ConnsOf(s))
  BY <1>2 DEF ExistsBijection
<1>5. {c \in Conns : MapOf(s)[c] # NoEngine} = ConnsOf(s)
  <2>1. \A c \in Conns : MapOf(s)[c] # NoEngine <=> IsCached(s, c)
    BY MapIs
  <2>2. \A i \in DOMAIN s : s[i].conn \in Conns
    BY EntryOf
  <2> QED
    BY <2>1, <2>2 DEF IsCached, ConnsOf
<1> QED
  BY <1>3, <1>4, <1>5, FS_Bijection
-----------------------------------------------------------------------------
(* pop, put and the overflow, as operations of the map *)

LEMMA HoldsWithout ==
  ASSUME NEW s \in Seq(Entry), Keyed(s), NEW c, NEW x, NEW e
  PROVE  Holds(Without(s, c), x, e) <=> x # c /\ Holds(s, x, e)
<1>1. /\ Without(s, c) \in Seq(Entry)
      /\ \A i \in DOMAIN Without(s, c) : Without(s, c)[i].conn # c /\ From(Without(s, c), i, s)
      /\ EnginesOf(Without(s, c)) \cup Popped(s, c) = EnginesOf(s)
      /\ EnginesOf(Without(s, c)) \cap Popped(s, c) = {}
  BY WithoutSplits
<1>2. Holds(Without(s, c), x, e) <=> Holds(s, x, e) /\ e \in EnginesOf(Without(s, c))
  BY <1>1, HoldsFrom
<1>3. Holds(Without(s, c), x, e) => x # c
  BY <1>1 DEF Holds
<1>4. Holds(s, x, e) /\ x # c => e \in EnginesOf(s) \ Popped(s, c)
  BY DEF Holds, EnginesOf, Popped, Keyed
<1> QED
  BY <1>1, <1>2, <1>3, <1>4

\* The dictionary before the overflow loop.
LEMMA FilledIs ==
  ASSUME NEW s \in Seq(Entry), Keyed(s), NEW c \in Conns, NEW e \in Engines,
         \A i \in DOMAIN s : s[i].engine = e => s[i].conn = c
  PROVE  /\ Without(s, c) \in Seq(Entry) /\ Len(Without(s, c)) <= Len(s)
         /\ \A i \in DOMAIN Without(s, c) : Without(s, c)[i].conn # c
         /\ Filled(s, c, e) \in Seq(Entry) /\ Keyed(Filled(s, c, e))
         /\ Len(Filled(s, c, e)) = Len(Without(s, c)) + 1
         /\ \A i \in 1..Len(Without(s, c)) : Filled(s, c, e)[i] = Without(s, c)[i]
         /\ Filled(s, c, e)[Len(Without(s, c)) + 1] = [conn |-> c, engine |-> e, age |-> 0]
<1> DEFINE w == Without(s, c)
           x == [conn |-> c, engine |-> e, age |-> 0]
<1>1. /\ w \in Seq(Entry) /\ Keyed(w) /\ Len(w) <= Len(s)
      /\ \A i \in DOMAIN w : w[i].conn # c /\ From(w, i, s)
  BY WithoutSplits
<1>2. x \in Entry /\ x.conn = c /\ x.engine = e
  BY CacheAssumption DEF Entry
<1>3. e \notin EnginesOf(w)
  <2> HIDE DEF w
  <2>1. \A i \in DOMAIN w : w[i].engine # e
    BY <1>1 DEF From
  <2> QED
    BY <2>1 DEF EnginesOf
<1> HIDE DEF w, x
<1>4. /\ Append(w, x) \in Seq(Entry) /\ Len(Append(w, x)) = Len(w) + 1 /\ Keyed(Append(w, x))
      /\ \A i \in 1..Len(w) : Append(w, x)[i] = w[i]
      /\ Append(w, x)[Len(w) + 1] = x
  BY <1>1, <1>2, <1>3, AppendAdds
<1> QED
  BY <1>1, <1>4 DEF Filled, w, x

LEMMA TrimmedIs ==
  ASSUME NEW s \in Seq(Entry)
  PROVE  /\ Surplus(s) \in Nat /\ Surplus(s) <= Len(s)
         /\ Surplus(s) > 0 => Len(s) - Surplus(s) = MaxSize
         /\ Len(s) > 0 => Surplus(s) < Len(s)
         /\ Trimmed(s) \in Seq(Entry) /\ Len(Trimmed(s)) = Len(s) - Surplus(s)
         /\ \A i \in 1..Len(s) - Surplus(s) : Trimmed(s)[i] = s[i + Surplus(s)]
         /\ Oldest(s) \in Seq(Entry) /\ Len(Oldest(s)) = Surplus(s)
         /\ \A i \in 1..Surplus(s) : Oldest(s)[i] = s[i]
<1>1. /\ Surplus(s) \in Nat /\ Surplus(s) <= Len(s) /\ Len(s) \in Nat
      /\ Surplus(s) > 0 => Len(s) - Surplus(s) = MaxSize
      /\ Len(s) > 0 => Surplus(s) < Len(s)
  BY CacheAssumption DEF Surplus
<1> QED
  BY <1>1 DEF Trimmed, Oldest

\* The indexes of a dictionary.
LEMMA SeqDomain ==
  ASSUME NEW s \in Seq(Entry) PROVE Len(s) \in Nat /\ DOMAIN s = 1..Len(s)
OBVIOUS

LEMMA HoldsTrimmed ==
  ASSUME NEW s \in Seq(Entry), Keyed(s), NEW c, NEW e
  PROVE  Holds(Trimmed(s), c, e) <=> c \notin ConnsOf(Oldest(s)) /\ Holds(s, c, e)
<1> DEFINE n == Surplus(s)
           t == Trimmed(s)
           o == Oldest(s)
<1>1. /\ n \in Nat /\ n <= Len(s) /\ Len(s) \in Nat /\ DOMAIN s = 1..Len(s)
      /\ DOMAIN t = 1..Len(s) - n /\ \A i \in 1..Len(s) - n : t[i] = s[i + n]
      /\ DOMAIN o = 1..n /\ \A i \in 1..n : o[i] = s[i]
  <2>1. /\ n \in Nat /\ n <= Len(s)
        /\ t \in Seq(Entry) /\ Len(t) = Len(s) - n /\ \A i \in 1..Len(s) - n : t[i] = s[i + n]
        /\ o \in Seq(Entry) /\ Len(o) = n /\ \A i \in 1..n : o[i] = s[i]
    BY TrimmedIs
  <2> HIDE DEF n, t, o
  <2> QED
    BY <2>1, SeqDomain
<1> HIDE DEF n, t, o
<1>2. ASSUME Holds(t, c, e) PROVE c \notin ConnsOf(o) /\ Holds(s, c, e)
  <2>1. PICK i \in 1..Len(s) - n : t[i].conn = c /\ t[i].engine = e
    BY <1>1, <1>2 DEF Holds
  <2>2. i + n \in DOMAIN s /\ s[i + n].conn = c /\ s[i + n].engine = e
    BY <1>1, <2>1
  <2>3. ASSUME NEW j \in 1..n, s[j].conn = c PROVE FALSE
    <3>1. j \in DOMAIN s /\ j # i + n
      BY <1>1
    <3> QED
      BY <2>2, <2>3, <3>1 DEF Keyed
  <2> QED
    BY <1>1, <2>2, <2>3 DEF Holds, ConnsOf
<1>3. ASSUME c \notin ConnsOf(o), Holds(s, c, e) PROVE Holds(t, c, e)
  <2>1. PICK i \in DOMAIN s : s[i].conn = c /\ s[i].engine = e
    BY <1>3 DEF Holds
  <2>2. ~(i \in 1..n)
    BY <1>1, <1>3, <2>1 DEF ConnsOf
  <2>3. i - n \in 1..Len(s) - n /\ (i - n) + n = i
    BY <1>1, <2>2
  <2> QED
    BY <1>1, <2>1, <2>3 DEF Holds
<1> QED
  BY <1>2, <1>3 DEF t, o

(***************************************************************************)
(* What a put does to the map: c has e, the ids of the oldest entries have *)
(* nothing, and there are such only when the dictionary is full then.      *)
(***************************************************************************)
LEMMA PutOnMap ==
  ASSUME NEW s \in Seq(Entry), Keyed(s), NEW c \in Conns, NEW e \in Engines,
         \A i \in DOMAIN s : s[i].engine = e => s[i].conn = c,
         NEW t, t = Trimmed(Filled(s, c, e)),
         NEW D, D = ConnsOf(Oldest(Filled(s, c, e)))
  PROVE  /\ t \in Seq(Entry) /\ Keyed(t)
         /\ D \in SUBSET (Conns \ {c})
         /\ D # {} => Len(t) = MaxSize
         /\ \A x \in Conns, g \in Engines :
              Holds(t, x, g) <=> IF x = c THEN g = e ELSE x \notin D /\ Holds(s, x, g)
         /\ EnginesOf(Oldest(Filled(s, c, e))) = {s[i].engine : i \in {j \in DOMAIN s : s[j].conn \in D}}
<1> DEFINE f == Filled(s, c, e)
           w == Without(s, c)
           o == Oldest(f)
<1>1. /\ w \in Seq(Entry) /\ \A i \in DOMAIN w : w[i].conn # c
      /\ f \in Seq(Entry) /\ Keyed(f) /\ Len(f) = Len(w) + 1 /\ DOMAIN f = 1..Len(w) + 1
      /\ \A i \in 1..Len(w) : f[i] = w[i]
      /\ f[Len(w) + 1] = [conn |-> c, engine |-> e, age |-> 0] /\ Len(w) \in Nat
  BY FilledIs
<1>2. \A x, g : Holds(w, x, g) <=> x # c /\ Holds(s, x, g)
  BY HoldsWithout
<1>3. t = Trimmed(f) /\ D = ConnsOf(o)
  OBVIOUS
<1> HIDE DEF w, f
<1>4. /\ Surplus(f) \in Nat /\ Surplus(f) <= Len(w)
      /\ Surplus(f) > 0 => Len(t) = MaxSize
      /\ t \in Seq(Entry) /\ Keyed(t)
      /\ o \in Seq(Entry) /\ DOMAIN o = 1..Surplus(f)
      /\ \A i \in 1..Surplus(f) : o[i] = f[i]
  <2>1. /\ Surplus(f) \in Nat /\ Surplus(f) > 0 => Len(f) - Surplus(f) = MaxSize
        /\ Len(f) > 0 => Surplus(f) < Len(f)
        /\ Trimmed(f) \in Seq(Entry) /\ Len(Trimmed(f)) = Len(f) - Surplus(f)
        /\ o \in Seq(Entry) /\ Len(o) = Surplus(f)
        /\ \A i \in 1..Surplus(f) : o[i] = f[i]
    BY <1>1, TrimmedIs
  <2>2. Keyed(t)
    BY <1>1, <1>3, TrimSplits
  <2> HIDE DEF o
  <2>3. DOMAIN o = 1..Surplus(f)
    BY <2>1, SeqDomain
  <2> QED
    BY <1>1, <1>3, <2>1, <2>2, <2>3
<1>5. \A x, g : Holds(t, x, g) <=> x \notin D /\ Holds(f, x, g)
  BY <1>1, <1>3, HoldsTrimmed
<1> HIDE DEF o
<1>6. \A i \in DOMAIN o : i \in 1..Len(w) /\ o[i] = w[i]
  BY <1>1, <1>4
<1>7. D \in SUBSET (Conns \ {c})
  <2>1. \A i \in DOMAIN o : o[i].conn \in Conns
    BY <1>4, EntryOf
  <2>2. \A i \in DOMAIN o : o[i].conn # c
    BY <1>1, <1>6
  <2> QED
    BY <1>3, <2>1, <2>2 DEF ConnsOf
<1>8. \A x, g : Holds(f, x, g) <=> IF x = c THEN g = e ELSE Holds(s, x, g)
  <2>1. ASSUME NEW x, NEW g PROVE Holds(f, x, g) <=> Holds(w, x, g) \/ (x = c /\ g = e)
    <3>1. DOMAIN f = (DOMAIN w) \cup {Len(w) + 1} /\ DOMAIN w = 1..Len(w)
      BY <1>1
    <3>2. ASSUME Holds(f, x, g) PROVE Holds(w, x, g) \/ (x = c /\ g = e)
      <4>1. PICK i \in DOMAIN f : f[i].conn = x /\ f[i].engine = g
        BY <3>2 DEF Holds
      <4>2. CASE i \in DOMAIN w
        BY <1>1, <3>1, <4>1, <4>2 DEF Holds
      <4>3. CASE i = Len(w) + 1
        BY <1>1, <4>1, <4>3
      <4> QED
        BY <3>1, <4>2, <4>3
    <3>3. ASSUME Holds(w, x, g) PROVE Holds(f, x, g)
      <4>1. PICK i \in DOMAIN w : w[i].conn = x /\ w[i].engine = g
        BY <3>3 DEF Holds
      <4>2. i \in DOMAIN f /\ f[i] = w[i]
        BY <1>1, <3>1
      <4> QED
        BY <4>1, <4>2 DEF Holds
    <3>4. ASSUME x = c, g = e PROVE Holds(f, x, g)
      <4> DEFINE i == Len(w) + 1
      <4>1. i \in DOMAIN f /\ f[i].conn = x /\ f[i].engine = g
        BY <1>1, <3>1, <3>4
      <4> QED
        BY <4>1 DEF Holds
    <3> QED
      BY <3>2, <3>3, <3>4
  <2> QED
    BY <1>2, <2>1
<1>9. D # {} => Len(t) = MaxSize
  <2>1. D # {} => \E i \in 1..Surplus(f) : TRUE
    BY <1>3, <1>4 DEF ConnsOf
  <2> QED
    BY <1>4, <2>1
<1>10. EnginesOf(o) = {s[i].engine : i \in {j \in DOMAIN s : s[j].conn \in D}}
  <2>1. ASSUME NEW i \in DOMAIN o PROVE o[i].conn \in D /\ Holds(s, o[i].conn, o[i].engine)
    <3>1. Holds(w, o[i].conn, o[i].engine)
      BY <1>1, <1>6 DEF Holds
    <3> QED
      BY <1>2, <1>3, <3>1 DEF ConnsOf
  <2>2. ASSUME NEW j \in DOMAIN s, s[j].conn \in D PROVE s[j].engine \in EnginesOf(o)
    <3>1. PICK i \in DOMAIN o : o[i].conn = s[j].conn
      BY <1>3, <2>2 DEF ConnsOf
    <3>2. o[i].engine = s[j].engine
      BY <2>1, <3>1 DEF Holds, Keyed
    <3> QED
      BY <3>2 DEF EnginesOf
  <2>3. \A g \in EnginesOf(o) : \E j \in DOMAIN s : s[j].conn \in D /\ s[j].engine = g
    BY <2>1 DEF EnginesOf, Holds
  <2> QED
    BY <2>2, <2>3
<1> QED
  BY <1>4, <1>5, <1>7, <1>8, <1>9, <1>10 DEF o, f
-----------------------------------------------------------------------------
(* The refinement, one operation at a time *)

\* A hit and the clock change nothing that the store shows.
LEMMA ReorderStutters ==
  ASSUME CacheSafe, NEW c \in Conns, GetHit(c) \/ GetMiss(c) \/ Tick
  PROVE  UNCHANGED StoreOf!storeVars
<1>1. CASE GetMiss(c)
  BY <1>1 DEF GetMiss, cacheVars, StoreOf!storeVars, Doomed
<1>2. CASE GetHit(c) \/ Tick
  <2>1. /\ CacheSafe' /\ EnginesOf(entries') = EnginesOf(entries) /\ Doomed' = Doomed
        /\ \A i \in DOMAIN entries' : From(entries', i, entries)
    BY <1>2, GetHitSafe, TickSafe
  <2>2. /\ entries \in Seq(Entry) /\ Keyed(entries) /\ entries' \in Seq(Entry) /\ Keyed(entries')
    BY <2>1 DEF CacheSafe, CacheTypeOK, CacheShape, Keyed
  <2>3. \A x \in Conns, e \in Engines : Holds(entries', x, e) <=> Holds(entries, x, e)
    <3>1. \A x, e : Holds(entries', x, e) <=> Holds(entries, x, e) /\ e \in EnginesOf(entries')
      BY <2>1, <2>2, HoldsFrom
    <3>2. \A x, e : Holds(entries, x, e) => e \in EnginesOf(entries)
      BY DEF Holds, EnginesOf
    <3> QED
      BY <2>1, <3>1, <3>2
  <2>4. MapOf(entries') = MapOf(entries)
    BY <2>2, <2>3, MapSame
  <2>5. MapOf(entries)' = MapOf(entries') /\ disposed' = disposed
    BY <1>2 DEF MapOf, GetHit, Tick
  <2> QED
    BY <2>1, <2>4, <2>5 DEF StoreOf!storeVars
<1> QED
  BY <1>1, <1>2

\* An entry that expired or was evicted is forgotten.
LEMMA PopForgets ==
  ASSUME CacheSafe, NEW k \in Callers, Idle(k), NEW c \in Conns, GetExpired(k, c) \/ Evict(k, c)
  PROVE  StoreOf!Forget({c})
<1>1. entries \in Seq(Entry) /\ Keyed(entries) /\ toDispose \in [Callers -> SUBSET Engines]
  BY DEF CacheSafe, CacheTypeOK, CacheShape, Keyed
<1>2. /\ entries' = Without(entries, c) /\ disposed' = disposed
      /\ toDispose' = [toDispose EXCEPT ![k] = Popped(entries, c)]
  BY DEF GetExpired, Evict
<1>3. Without(entries, c) \in Seq(Entry) /\ Keyed(Without(entries, c))
  BY <1>1, WithoutSplits
<1>4. MapOf(Without(entries, c)) = [x \in Conns |-> IF x \in {c} THEN NoEngine ELSE MapOf(entries)[x]]
  <2> DEFINE D == {c}
  <2>1. \A x \in Conns, e \in Engines :
          Holds(Without(entries, c), x, e) <=> x \notin D /\ Holds(entries, x, e)
    BY <1>1, HoldsWithout
  <2>2. MapOf(Without(entries, c)) = [x \in Conns |-> IF x \in D THEN NoEngine ELSE MapOf(entries)[x]]
    <3> HIDE DEF D
    <3> QED
      BY <1>1, <1>3, <2>1, MapWithout
  <2> QED
    BY <2>2
<1>5. Popped(entries, c) = StoreOf!Holdings({c})
  BY <1>1, HoldingsAre DEF Popped
<1>6. Doomed' = Doomed \cup Popped(entries, c)
  <2>1. Popped(entries, c) \in SUBSET Engines
    BY <1>1, EntryOf DEF Popped
  <2> QED
    BY <1>1, <1>2, <2>1, DoomMore
<1>7. MapOf(entries)' = MapOf(Without(entries, c))
  BY <1>2 DEF MapOf
<1> QED
  BY <1>2, <1>4, <1>5, <1>6, <1>7 DEF StoreOf!Forget

LEMMA ClearForgets ==
  ASSUME CacheSafe, NEW k \in Callers, Idle(k), Clear(k)
  PROVE  StoreOf!Forget(Conns)
<1>1. entries \in Seq(Entry) /\ Keyed(entries)
  BY DEF CacheSafe, CacheTypeOK, CacheShape, Keyed
<1>2. CacheSafe' /\ entries' = <<>> /\ Doomed' = EnginesOf(entries) \cup Doomed /\ disposed' = disposed
  BY ClearSafe DEF Clear
<1>3. MapOf(entries') = [x \in Conns |-> IF x \in Conns THEN NoEngine ELSE MapOf(entries)[x]]
  BY <1>2 DEF MapOf, IsCached
<1>4. EnginesOf(entries) = StoreOf!Holdings(Conns)
  <2>1. {j \in DOMAIN entries : entries[j].conn \in Conns} = DOMAIN entries
    BY <1>1, EntryOf
  <2> QED
    BY <1>1, <2>1, HoldingsAre DEF EnginesOf
<1>5. MapOf(entries)' = MapOf(entries')
  BY DEF MapOf
<1> QED
  BY <1>2, <1>3, <1>4, <1>5 DEF StoreOf!Forget

\* A put keeps the new engine, and others have to make room only when the store is full.
LEMMA PutKeeps ==
  ASSUME CacheSafe, NEW k \in Callers, Idle(k), NEW c \in Conns, NEW e \in Engines,
         MayPut(c, e), Put(k, c, e)
  PROVE  StoreOf!Keep(c, e)
<1> DEFINE o == Oldest(Filled(entries, c, e))
           D == ConnsOf(o)
           d == (Popped(entries, c) \ {e}) \cup EnginesOf(o)
<1>1. /\ entries \in Seq(Entry) /\ Keyed(entries) /\ toDispose \in [Callers -> SUBSET Engines]
      /\ \A i \in DOMAIN entries : entries[i].engine = e => entries[i].conn = c
  BY DEF CacheSafe, CacheTypeOK, CacheShape, Keyed, MayPut
<1>2. /\ entries' = Trimmed(Filled(entries, c, e)) /\ disposed' = disposed
      /\ toDispose' = [toDispose EXCEPT ![k] = d]
  BY DEF Put
<1>3. /\ entries' \in Seq(Entry) /\ Keyed(entries')
      /\ D \in SUBSET (Conns \ {c})
      /\ D # {} => Len(entries') = MaxSize
      /\ \A x \in Conns, g \in Engines :
           Holds(entries', x, g) <=> IF x = c THEN g = e ELSE x \notin D /\ Holds(entries, x, g)
      /\ EnginesOf(o) = {entries[i].engine : i \in {j \in DOMAIN entries : entries[j].conn \in D}}
  BY <1>1, <1>2, PutOnMap
<1>4. Len(entries') <= MaxSize
  BY PutSafe DEF CacheSafe, CacheShape
<1> HIDE DEF D, o
<1>5. Doomed' = Doomed \cup d
  <2>1. d \in SUBSET Engines
    BY <1>1, <1>3, EntryOf DEF Popped
  <2> HIDE DEF d
  <2> QED
    BY <1>1, <1>2, <2>1, DoomMore
<1>6. MapOf(entries)' = [x \in Conns |-> IF x = c THEN e ELSE IF x \in D THEN NoEngine ELSE MapOf(entries)[x]]
  <2>1. MapOf(entries)' = MapOf(entries')
    BY DEF MapOf
  <2>2. ASSUME NEW x \in Conns
        PROVE  MapOf(entries')[x] = IF x = c THEN e ELSE IF x \in D THEN NoEngine ELSE MapOf(entries)[x]
    <3>1. CASE x = c
      BY <1>3, <3>1, MapIs
    <3>2. CASE x # c /\ x \in D
      <4>1. ~IsCached(entries', x)
        BY <1>3, <3>2, MapIs
      <4> QED
        BY <1>3, <3>2, <4>1, MapIs
    <3>3. CASE x # c /\ x \notin D
      <4>1. /\ MapOf(entries)[x] \in Engines \cup {NoEngine}
            /\ MapOf(entries')[x] \in Engines \cup {NoEngine}
            /\ \A g \in Engines : MapOf(entries)[x] = g <=> MapOf(entries')[x] = g
        BY <1>1, <1>3, <3>3, MapIs
      <4> QED
        BY <3>3, <4>1
    <3> QED
      BY <3>1, <3>2, <3>3
  <2>3. MapOf(entries') = [x \in Conns |-> MapOf(entries')[x]]
    BY DEF MapOf
  <2> QED
    BY <2>1, <2>2, <2>3
<1>7. e \notin Doomed \cup disposed \cup StoreOf!Holdings(Conns \ {c})
  <2>1. e \notin Doomed \cup disposed
    BY DEF MayPut
  <2>2. e \notin StoreOf!Holdings(Conns \ {c})
    BY <1>1, HoldingsAre
  <2> QED
    BY <2>1, <2>2
<1>8. d = StoreOf!Holdings(D \cup {c}) \ {e}
  <2>1. D \cup {c} \in SUBSET Conns
    BY <1>3
  <2>2. StoreOf!Holdings(D \cup {c})
        = {entries[i].engine : i \in {j \in DOMAIN entries : entries[j].conn \in D \cup {c}}}
    BY <1>1, <2>1, HoldingsAre
  <2>3. e \notin EnginesOf(o)
    BY <1>1, <1>3
  <2>4. StoreOf!Holdings(D \cup {c}) = Popped(entries, c) \cup EnginesOf(o)
    BY <1>3, <2>2 DEF Popped
  <2> QED
    BY <2>3, <2>4
<1>9. Cardinality(StoreOf!Held(MapOf(entries)')) = Len(entries')
  <2>1. MapOf(entries)' = MapOf(entries')
    BY DEF MapOf
  <2>2. StoreOf!Held(MapOf(entries')) = {x \in Conns : MapOf(entries')[x] # NoEngine}
    BY DEF StoreOf!Held
  <2> QED
    BY <1>3, <2>1, <2>2, HeldCount
<1>10. StoreOf!Holdings(D) # {} => D # {}
  BY DEF StoreOf!Holdings
<1>11. StoreOf!Cardinality(StoreOf!Held(MapOf(entries)')) = Len(entries')
  BY <1>9, SameCardinality
<1> HIDE DEF d
<1> QED
  BY <1>2, <1>3, <1>4, <1>5, <1>6, <1>7, <1>8, <1>10, <1>11 DEF StoreOf!Keep

LEMMA DisposeCloses ==
  ASSUME CacheSafe, NEW k \in Callers, Dispose(k)
  PROVE  \E e \in Engines : StoreOf!Close(e)
<1>1. PICK e \in toDispose[k] :
        /\ toDispose' = [toDispose EXCEPT ![k] = @ \ {e}]
        /\ disposed' = disposed \cup {e}
        /\ UNCHANGED entries
  BY DEF Dispose
<1>2. /\ e \in Engines
      /\ \A l \in Callers : toDispose'[l] = IF l = k THEN toDispose[k] \ {e} ELSE toDispose[l]
  BY <1>1 DEF CacheSafe, CacheTypeOK
<1>3. \A l \in Callers : l # k => e \notin toDispose[l]
  BY <1>1 DEF CacheSafe, NoUseAfterDispose
<1>4. Doomed' = Doomed \ {e} /\ e \in Doomed
  BY <1>1, <1>2, <1>3 DEF Doomed
<1>5. MapOf(entries)' = MapOf(entries)
  BY <1>1 DEF MapOf
<1> QED
  BY <1>1, <1>2, <1>4, <1>5 DEF StoreOf!Close

\* Every step of the cache is one of the store, or one the store does not see.
LEMMA StoreStep == CacheSafe /\ [CacheNext]_cacheVars => [StoreOf!Next]_(StoreOf!storeVars)
<1> SUFFICES ASSUME CacheSafe, [CacheNext]_cacheVars PROVE StoreOf!Next \/ UNCHANGED StoreOf!storeVars
  OBVIOUS
<1>1. CASE UNCHANGED cacheVars
  <2>1. entries' = entries /\ Doomed' = Doomed /\ disposed' = disposed
    BY <1>1 DEF cacheVars, Doomed
  <2> QED
    BY <2>1 DEF StoreOf!storeVars, MapOf
<1>2. CASE Tick
  <2>1. PICK c \in Conns : TRUE
    BY <1>2, EntryOf DEF Tick, CacheSafe, CacheTypeOK
  <2> QED
    BY <1>2, <2>1, ReorderStutters
<1>3. ASSUME NEW k \in Callers, Operation(k)
      PROVE  StoreOf!Next \/ UNCHANGED StoreOf!storeVars
  <2>1. Idle(k)
    BY <1>3 DEF Operation
  <2>2. PICK c \in Conns : \/ GetHit(c) \/ GetMiss(c)
                           \/ GetExpired(k, c) \/ Evict(k, c)
                           \/ \E e \in Engines : MayPut(c, e) /\ Put(k, c, e)
    BY <1>3 DEF Operation
  <2>3. CASE GetHit(c) \/ GetMiss(c)
    BY <2>3, ReorderStutters
  <2>4. CASE GetExpired(k, c) \/ Evict(k, c)
    BY <2>1, <2>4, PopForgets DEF StoreOf!Next
  <2>5. CASE \E e \in Engines : MayPut(c, e) /\ Put(k, c, e)
    BY <2>1, <2>5, PutKeeps DEF StoreOf!Next
  <2> QED
    BY <2>2, <2>3, <2>4, <2>5
<1>4. ASSUME NEW k \in Callers, Idle(k), Clear(k) PROVE StoreOf!Next
  BY <1>4, ClearForgets DEF StoreOf!Next
<1>5. ASSUME NEW k \in Callers, Dispose(k) PROVE StoreOf!Next
  BY <1>5, DisposeCloses DEF StoreOf!Next
<1> QED
  BY <1>1, <1>2, <1>3, <1>4, <1>5 DEF CacheNext

(***************************************************************************)
(* What callers see of the cache, whatever the interleaving of their       *)
(* operations and disposals, is a bounded map from ids to engines that     *)
(* makes room only when it is full, and never gives out again, or disposes *)
(* twice, an engine it let go.                                             *)
(***************************************************************************)
THEOREM CacheIsStore == CacheInit /\ [][CacheNext]_cacheVars => StoreOf!Safety
<1>1. CacheInit => StoreOf!Init
  <2> SUFFICES ASSUME CacheInit PROVE StoreOf!Init
    OBVIOUS
  <2>1. entries = <<>> /\ Doomed = {} /\ disposed = {}
    BY DEF CacheInit, Doomed
  <2>2. MapOf(entries) = [c \in Conns |-> NoEngine]
    BY <2>1 DEF MapOf, IsCached
  <2> QED
    BY <2>1, <2>2 DEF StoreOf!Init
<1> QED
  BY <1>1, StoreStep, CacheStart, CacheStep, PTL DEF StoreOf!Safety

\* The history only watches: what the cache does with it is what it does without.
LEMMA HistoryWatches == [MCNext]_mcVars => [CacheNext]_cacheVars
BY DEF MCNext, TrackedOperation, CacheNext, Operation, mcVars, cacheVars

\* The safety of ImplementsStore: the behaviours TLC checks it on implement the store.
THEOREM CacheImplementsStore == MCSpec => StoreOf!Safety
<1>1. MCInit => CacheInit
  BY DEF MCInit
<1> QED
  BY <1>1, HistoryWatches, CacheIsStore, PTL DEF MCSpec

\* What CacheIsSafe proves of the cache, with the history beside it.
THEOREM CacheInvariant == MCSpec => []CacheSafe
<1>1. MCInit => CacheSafe
  BY CacheStart DEF MCInit
<1>2. CacheSafe /\ [MCNext]_mcVars => CacheSafe'
  BY HistoryWatches, CacheStep
<1> QED
  BY <1>1, <1>2, PTL DEF MCSpec

-----------------------------------------------------------------------------
(* The history: what is later in the dictionary was used since *)

(***************************************************************************)
(* The order of the dictionary is the order of the last uses: an id that   *)
(* comes after c in it was used since c was.  OverflowIsLeastRecent speaks *)
(* of one put; this is what the operations before it have to keep.         *)
(***************************************************************************)
OrderIsHistory ==
  /\ since \in [Conns -> SUBSET Conns]
  /\ \A c \in Conns : IsFiniteSet(since[c])
  /\ \A c, d \in Conns : Before(entries, c, d) => d \in since[c]

\* pop keeps the order of what it leaves.
LEMMA BeforeWithout ==
  ASSUME NEW s \in Seq(Entry), Keyed(s), NEW c, NEW a, NEW d, Before(Without(s, c), a, d)
  PROVE  Before(s, a, d)
<1>1. CASE ~IsCached(s, c)
  BY <1>1 DEF Without
<1>2. CASE IsCached(s, c)
  <2> DEFINE p == Position(s, c)
             w == Without(s, c)
  <2>1. /\ w \in Seq(Entry) /\ Len(w) = Len(s) - 1
        /\ \A i \in 1..Len(s) - 1 : w[i] = IF i < p THEN s[i] ELSE s[i + 1]
    BY <1>2, WithoutEntries
  <2>2. p \in 1..Len(s) /\ DOMAIN s = 1..Len(s) /\ Len(s) \in Nat
    BY <1>2, PositionFinds
  <2> HIDE DEF p
  <2>3. PICK i, j \in DOMAIN w : i < j /\ w[i].conn = a /\ w[j].conn = d
    BY DEF Before
  <2> HIDE DEF w
  <2>4. i \in 1..Len(s) - 1 /\ j \in 1..Len(s) - 1
    BY <2>1, <2>3, SeqDomain
  <2> DEFINE u == IF i < p THEN i ELSE i + 1
             v == IF j < p THEN j ELSE j + 1
  <2>5. /\ u \in DOMAIN s /\ v \in DOMAIN s /\ u < v
        /\ w[i] = s[u] /\ w[j] = s[v]
    BY <2>1, <2>2, <2>3, <2>4
  <2> HIDE DEF u, v
  <2> QED
    BY <2>3, <2>5 DEF Before
<1> QED
  BY <1>1, <1>2

\* An entry added at the end comes after all others and before none.
LEMMA BeforeAppended ==
  ASSUME NEW w \in Seq(Entry), NEW t \in Seq(Entry), Len(t) = Len(w) + 1,
         \A i \in 1..Len(w) : t[i] = w[i], NEW a, NEW d, Before(t, a, d)
  PROVE  \/ Before(w, a, d)
         \/ t[Len(w) + 1].conn = d /\ \E i \in DOMAIN w : w[i].conn = a
<1>1. DOMAIN t = 1..Len(w) + 1 /\ DOMAIN w = 1..Len(w) /\ Len(w) \in Nat
  BY SeqDomain
<1>2. PICK i, j \in DOMAIN t : i < j /\ t[i].conn = a /\ t[j].conn = d
  BY DEF Before
<1>3. i \in 1..Len(w) /\ w[i].conn = a
  BY <1>1, <1>2
<1>4. CASE j \in 1..Len(w)
  <2>1. w[j].conn = d
    BY <1>2, <1>4
  <2> QED
    BY <1>1, <1>2, <1>3, <1>4, <2>1 DEF Before
<1>5. CASE j = Len(w) + 1
  BY <1>1, <1>2, <1>3, <1>5
<1> QED
  BY <1>1, <1>4, <1>5

\* What the overflow leaves is in the order it was in.
LEMMA BeforeTrimmed ==
  ASSUME NEW s \in Seq(Entry), NEW a, NEW d
  PROVE  /\ Before(Trimmed(s), a, d) => Before(s, a, d)
         /\ a \in ConnsOf(Oldest(s)) /\ d \in ConnsOf(Trimmed(s)) => Before(s, a, d)
<1> DEFINE n == Surplus(s)
           t == Trimmed(s)
           o == Oldest(s)
<1>1. /\ n \in Nat /\ n <= Len(s) /\ Len(s) \in Nat /\ DOMAIN s = 1..Len(s)
      /\ DOMAIN t = 1..Len(s) - n /\ \A i \in 1..Len(s) - n : t[i] = s[i + n]
      /\ DOMAIN o = 1..n /\ \A i \in 1..n : o[i] = s[i]
  <2>1. /\ n \in Nat /\ n <= Len(s)
        /\ t \in Seq(Entry) /\ Len(t) = Len(s) - n /\ \A i \in 1..Len(s) - n : t[i] = s[i + n]
        /\ o \in Seq(Entry) /\ Len(o) = n /\ \A i \in 1..n : o[i] = s[i]
    BY TrimmedIs
  <2> HIDE DEF n, t, o
  <2> QED
    BY <2>1, SeqDomain
<1> HIDE DEF n, t, o
<1>2. ASSUME Before(t, a, d) PROVE Before(s, a, d)
  <2>1. PICK i, j \in DOMAIN t : i < j /\ t[i].conn = a /\ t[j].conn = d
    BY <1>2 DEF Before
  <2>2. /\ i + n \in DOMAIN s /\ j + n \in DOMAIN s /\ i + n < j + n
        /\ s[i + n].conn = a /\ s[j + n].conn = d
    BY <1>1, <2>1
  <2> QED
    BY <2>2 DEF Before
<1>3. ASSUME a \in ConnsOf(o), d \in ConnsOf(t) PROVE Before(s, a, d)
  <2>1. PICK i \in DOMAIN o : o[i].conn = a
    BY <1>3 DEF ConnsOf
  <2>2. PICK j \in DOMAIN t : t[j].conn = d
    BY <1>3 DEF ConnsOf
  <2>3. /\ i \in DOMAIN s /\ j + n \in DOMAIN s /\ i < j + n
        /\ s[i].conn = a /\ s[j + n].conn = d
    BY <1>1, <2>1, <2>2
  <2> QED
    BY <2>3 DEF Before
<1> QED
  BY <1>2, <1>3 DEF t, o

\* Using c puts it after every other entry, and the history says so.
LEMMA UsedIsLast ==
  ASSUME OrderIsHistory, entries \in Seq(Entry), Keyed(entries), NEW c \in Conns, Used(c),
         NEW t \in Seq(Entry), Len(t) = Len(Without(entries, c)) + 1,
         \A i \in 1..Len(Without(entries, c)) : t[i] = Without(entries, c)[i],
         t[Len(Without(entries, c)) + 1].conn = c
  PROVE  /\ since' \in [Conns -> SUBSET Conns]
         /\ \A a \in Conns : IsFiniteSet(since'[a])
         /\ \A a, d \in Conns : Before(t, a, d) => d \in since'[a]
<1> DEFINE w == Without(entries, c)
<1>1. w \in Seq(Entry) /\ \A i \in DOMAIN w : w[i].conn # c
  BY WithoutSplits
<1>2. /\ since' \in [Conns -> SUBSET Conns]
      /\ \A a \in Conns : since'[a] = IF a = c THEN {} ELSE since[a] \cup {c}
  BY DEF Used, OrderIsHistory
<1>3. ASSUME NEW a \in Conns PROVE IsFiniteSet(since'[a])
  <2>1. IsFiniteSet({}) /\ IsFiniteSet(since[a]) /\ IsFiniteSet({c})
    BY FS_EmptySet, FS_Singleton DEF OrderIsHistory
  <2>2. IsFiniteSet(since[a] \cup {c})
    BY <2>1, FS_Union
  <2> QED
    BY <1>2, <2>1, <2>2
<1>4. ASSUME NEW a \in Conns, NEW d \in Conns, Before(t, a, d) PROVE d \in since'[a]
  <2>1. Before(w, a, d) \/ (d = c /\ \E i \in DOMAIN w : w[i].conn = a)
    BY <1>1, <1>4, BeforeAppended
  <2>2. a # c
    BY <1>1, <2>1 DEF Before
  <2>3. Before(w, a, d) => Before(entries, a, d)
    BY BeforeWithout
  <2>4. d \in since[a] \/ d = c
    BY <2>1, <2>3 DEF OrderIsHistory
  <2> QED
    BY <1>2, <2>2, <2>4
<1> QED
  BY <1>2, <1>3, <1>4

LEMMA GetHitHistory ==
  ASSUME CacheSafe, OrderIsHistory, NEW c \in Conns, GetHit(c), Used(c)
  PROVE  /\ OrderIsHistory'
         /\ \A d \in Conns : IsCached(entries, d) => IsCached(entries', d)
<1> DEFINE w == Without(entries, c)
           x == entries[Position(entries, c)]
<1>1. /\ entries \in Seq(Entry) /\ Keyed(entries) /\ entries' \in Seq(Entry) /\ Keyed(entries')
  BY GetHitSafe DEF CacheSafe, CacheTypeOK, CacheShape, Keyed
<1>2. entries' = Append(w, x) /\ w \in Seq(Entry)
  BY <1>1, WithoutSplits DEF GetHit
<1>3. x.conn = c /\ x \in Entry
  BY <1>1, PositionFinds DEF GetHit
<1>4. /\ Len(entries') = Len(w) + 1
      /\ \A i \in 1..Len(w) : entries'[i] = w[i]
      /\ entries'[Len(w) + 1].conn = c
  <2> HIDE DEF w, x
  <2> QED
    BY <1>2, <1>3
<1>5. OrderIsHistory'
  <2>1. /\ since' \in [Conns -> SUBSET Conns]
        /\ \A a \in Conns : IsFiniteSet(since'[a])
        /\ \A a, d \in Conns : Before(entries', a, d) => d \in since'[a]
    BY <1>1, <1>4, UsedIsLast
  <2> QED
    BY <2>1 DEF OrderIsHistory, Before
<1>6. MapOf(entries') = MapOf(entries)
  <2>1. MapOf(entries)' = MapOf(entries)
    BY ReorderStutters DEF StoreOf!storeVars
  <2> QED
    BY <2>1 DEF MapOf
<1> QED
  BY <1>1, <1>5, <1>6, MapIs

\* An id a put pushes out has every id the full dictionary is left with in its history.
LEMMA PutHistory ==
  ASSUME CacheSafe, OrderIsHistory, NEW k \in Callers, Idle(k), NEW c \in Conns,
         NEW e \in Engines, MayPut(c, e), Put(k, c, e), Used(c)
  PROVE  /\ OrderIsHistory'
         /\ \A d \in Conns : IsCached(entries, d) /\ ~IsCached(entries', d)
                             => Cardinality(since'[d]) >= MaxSize
<1> DEFINE f == Filled(entries, c, e)
           w == Without(entries, c)
           D == ConnsOf(Oldest(f))
<1>1. /\ entries \in Seq(Entry) /\ Keyed(entries)
      /\ \A i \in DOMAIN entries : entries[i].engine = e => entries[i].conn = c
      /\ entries' = Trimmed(f)
  BY DEF CacheSafe, CacheTypeOK, CacheShape, Keyed, MayPut, Put
<1>2. /\ f \in Seq(Entry) /\ Len(f) = Len(w) + 1
      /\ \A i \in 1..Len(w) : f[i] = w[i]
      /\ f[Len(w) + 1] = [conn |-> c, engine |-> e, age |-> 0]
  BY <1>1, FilledIs
<1>3. f[Len(w) + 1].conn = c
  BY <1>2
<1>4. /\ since' \in [Conns -> SUBSET Conns]
      /\ \A a \in Conns : IsFiniteSet(since'[a])
      /\ \A a, d \in Conns : Before(f, a, d) => d \in since'[a]
  <2> HIDE DEF f
  <2> QED
    BY <1>1, <1>2, <1>3, UsedIsLast
<1>5. /\ entries' \in Seq(Entry) /\ Keyed(entries')
      /\ D # {} => Len(entries') = MaxSize
      /\ \A x \in Conns, g \in Engines :
           Holds(entries', x, g) <=> IF x = c THEN g = e ELSE x \notin D /\ Holds(entries, x, g)
  BY <1>1, PutOnMap
<1> HIDE DEF f
<1>6. OrderIsHistory'
  <2>1. \A a, d \in Conns : Before(entries', a, d) => Before(f, a, d)
    BY <1>1, <1>2, BeforeTrimmed
  <2>2. \A a, d \in Conns : Before(entries', a, d) => d \in since'[a]
    BY <1>4, <2>1
  <2> QED
    BY <1>4, <2>2 DEF OrderIsHistory, Before
<1>7. ASSUME NEW d \in Conns, IsCached(entries, d), ~IsCached(entries', d)
      PROVE  Cardinality(since'[d]) >= MaxSize
  <2>1. d \in D
    <3>1. PICK g \in Engines : Holds(entries, d, g)
      BY <1>1, <1>7, MapIs
    <3>2. \A g2 \in Engines : ~Holds(entries', d, g2)
      BY <1>5, <1>7, MapIs
    <3> QED
      BY <1>5, <3>1, <3>2
  <2>2. ConnsOf(entries') \subseteq since'[d]
    <3>1. ConnsOf(entries') \subseteq Conns
      BY <1>5, EntryOf DEF ConnsOf
    <3>2. \A x \in ConnsOf(entries') : Before(f, d, x)
      BY <1>1, <1>2, <2>1, BeforeTrimmed
    <3> QED
      BY <1>4, <3>1, <3>2
  <2>3. IsFiniteSet(ConnsOf(entries')) /\ Cardinality(ConnsOf(entries')) = MaxSize
    BY <1>5, <2>1, HeldCount
  <2>4. IsFiniteSet(since'[d])
    BY <1>4
  <2>5. Cardinality(ConnsOf(entries')) <= Cardinality(since'[d])
    BY <2>2, <2>4, FS_Subset
  <2>6. Cardinality(since'[d]) \in Nat /\ MaxSize \in Nat
    BY <2>4, FS_CardinalityType, CacheAssumption
  <2> QED
    BY <2>3, <2>5, <2>6
<1> QED
  BY <1>6, <1>7

\* Nothing else adds an entry or changes their order.
LEMMA OthersKeepOrder ==
  ASSUME CacheSafe, OrderIsHistory, UNCHANGED since,
         \/ UNCHANGED entries \/ Tick \/ entries' = <<>>
         \/ \E c \in Conns : entries' = Without(entries, c)
  PROVE  OrderIsHistory'
<1>1. entries \in Seq(Entry) /\ Keyed(entries)
  BY DEF CacheSafe, CacheTypeOK, CacheShape, Keyed
<1>2. \A a, d \in Conns : Before(entries', a, d) => Before(entries, a, d)
  <2>1. CASE UNCHANGED entries
    BY <2>1
  <2>2. CASE Tick
    <3>1. /\ DOMAIN entries' = DOMAIN entries
          /\ \A i \in DOMAIN entries : entries[i] \in Entry
          /\ entries' = [i \in DOMAIN entries |->
               [entries[i] EXCEPT !.age = IF @ <= TTL THEN @ + 1 ELSE @]]
      BY <1>1, <2>2 DEF Tick
    <3>2. \A i \in DOMAIN entries : entries'[i].conn = entries[i].conn
      BY <3>1 DEF Entry
    <3> QED
      BY <3>1, <3>2 DEF Before
  <2>3. CASE entries' = <<>>
    BY <2>3 DEF Before
  <2>4. CASE \E c \in Conns : entries' = Without(entries, c)
    BY <1>1, <2>4, BeforeWithout
  <2> QED
    BY <2>1, <2>2, <2>3, <2>4
<1> QED
  BY <1>2 DEF OrderIsHistory, Before

LEMMA HistoryStep ==
  ASSUME CacheSafe, OrderIsHistory, [MCNext]_mcVars
  PROVE  /\ OrderIsHistory'
         /\ \A c \in Conns :
              IsCached(entries, c) /\ ~IsCached(entries', c) /\ since' # since
              => Cardinality(since'[c]) >= MaxSize
<1>1. CASE UNCHANGED mcVars
  BY <1>1, OthersKeepOrder DEF mcVars
<1>2. CASE Tick /\ UNCHANGED since
  BY <1>2, OthersKeepOrder
<1>3. ASSUME NEW k \in Callers, TrackedOperation(k)
      PROVE  /\ OrderIsHistory'
             /\ \A c \in Conns :
                  IsCached(entries, c) /\ ~IsCached(entries', c) /\ since' # since
                  => Cardinality(since'[c]) >= MaxSize
  <2>1. PICK c \in Conns :
          \/ GetHit(c) /\ Used(c)
          \/ GetExpired(k, c) /\ UNCHANGED since
          \/ GetMiss(c) /\ UNCHANGED since
          \/ Evict(k, c) /\ UNCHANGED since
          \/ \E e \in Engines : MayPut(c, e) /\ Put(k, c, e) /\ Used(c)
    BY <1>3 DEF TrackedOperation
  <2>2. Idle(k)
    BY <1>3 DEF TrackedOperation
  <2>3. CASE GetHit(c) /\ Used(c)
    BY <2>3, GetHitHistory
  <2>4. CASE (GetExpired(k, c) \/ GetMiss(c) \/ Evict(k, c)) /\ UNCHANGED since
    <3>1. UNCHANGED entries \/ entries' = Without(entries, c)
      BY <2>4 DEF GetExpired, GetMiss, Evict, cacheVars
    <3> QED
      BY <2>4, <3>1, OthersKeepOrder
  <2>5. CASE \E e \in Engines : MayPut(c, e) /\ Put(k, c, e) /\ Used(c)
    BY <2>2, <2>5, PutHistory
  <2> QED
    BY <2>1, <2>3, <2>4, <2>5
<1>4. ASSUME NEW k \in Callers, (Idle(k) /\ Clear(k)) \/ Dispose(k), UNCHANGED since
      PROVE  OrderIsHistory'
  <2>1. UNCHANGED entries \/ entries' = <<>>
    BY <1>4 DEF Clear, Dispose
  <2> QED
    BY <1>4, <2>1, OthersKeepOrder
<1> QED
  BY <1>1, <1>2, <1>3, <1>4 DEF MCNext

(***************************************************************************)
(* OverflowIsLeastRecent, for every size: an entry of another id is pushed *)
(* out only when at least MaxSize ids were used since it was.              *)
(***************************************************************************)
THEOREM OverflowHolds == MCSpec => OverflowIsLeastRecent
<1>1. MCInit => OrderIsHistory
  <2> SUFFICES ASSUME MCInit PROVE OrderIsHistory
    OBVIOUS
  <2>1. entries = <<>> /\ since = [c \in Conns |-> {}]
    BY DEF MCInit, CacheInit
  <2>2. \A c, d : ~Before(entries, c, d)
    BY <2>1 DEF Before
  <2> QED
    BY <2>1, <2>2, FS_EmptySet DEF OrderIsHistory
<1>2. CacheSafe /\ OrderIsHistory /\ [MCNext]_mcVars => OrderIsHistory'
  BY HistoryStep
<1>3. CacheSafe /\ OrderIsHistory /\ [MCNext]_mcVars =>
        [\A c \in Conns :
           /\ IsCached(entries, c) /\ ~IsCached(entries', c)
           /\ since' # since
           => Cardinality(since'[c]) >= MaxSize]_mcVars
  BY HistoryStep
<1> QED
  BY <1>1, <1>2, <1>3, CacheInvariant, PTL DEF MCSpec, OverflowIsLeastRecent
=============================================================================
