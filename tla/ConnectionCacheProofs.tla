----------------------- MODULE ConnectionCacheProofs -----------------------
(***************************************************************************)
(* Lemmas on the ordered dictionary of ConnectionCache, and the theorems   *)
(* on the cache.                                                           *)
(***************************************************************************)
EXTENDS ConnectionCache, TLAPS

\* One entry per id, and no engine under two ids: the second part of CacheShape.
Keyed(s) ==
  \A i, j \in DOMAIN s : (s[i].conn = s[j].conn \/ s[i].engine = s[j].engine) => i = j

\* The entry at i of s is one of t, up to its age.
From(s, i, t) ==
  \E j \in DOMAIN t : s[i].conn = t[j].conn /\ s[i].engine = t[j].engine

-----------------------------------------------------------------------------
\* Position finds an id that is there.
LEMMA PositionFinds ==
  ASSUME NEW s \in Seq(Entry), NEW c, IsCached(s, c)
  PROVE  Position(s, c) \in 1..Len(s) /\ s[Position(s, c)].conn = c
BY DEF IsCached, Position

\* pop(c, None), entry by entry: what is left is s without its only entry of c.
LEMMA WithoutEntries ==
  ASSUME NEW s \in Seq(Entry), NEW c, IsCached(s, c), NEW p, p = Position(s, c)
  PROVE  /\ Without(s, c) \in Seq(Entry)
         /\ Len(Without(s, c)) = Len(s) - 1
         /\ \A i \in 1..Len(s) - 1 :
              Without(s, c)[i] = IF i < p THEN s[i] ELSE s[i+1]
<1>1. p \in 1..Len(s) /\ Len(s) \in Nat
  BY PositionFinds
<1>2. Without(s, c) = SubSeq(s, 1, p - 1) \o SubSeq(s, p + 1, Len(s))
  BY DEF Without, RemoveAt
<1> DEFINE a == SubSeq(s, 1, p - 1)
           b == SubSeq(s, p + 1, Len(s))
<1>3. /\ a \in Seq(Entry) /\ Len(a) = p - 1
      /\ \A i \in 1..p-1 : a[i] = s[i]
  BY <1>1
<1>4. /\ b \in Seq(Entry) /\ Len(b) = Len(s) - p
      /\ \A i \in 1..Len(s)-p : b[i] = s[i + p]
  BY <1>1
<1> HIDE DEF a, b
<1>5. /\ a \o b \in Seq(Entry)
      /\ Len(a \o b) = Len(s) - 1
      /\ \A i \in 1..Len(s) - 1 : (a \o b)[i] = IF i < p THEN a[i] ELSE b[i - (p - 1)]
  BY <1>1, <1>3, <1>4
<1>6. \A i \in 1..Len(s) - 1 : (a \o b)[i] = IF i < p THEN s[i] ELSE s[i + 1]
  <2> SUFFICES ASSUME NEW i \in 1..Len(s) - 1
               PROVE (a \o b)[i] = IF i < p THEN s[i] ELSE s[i + 1]
    OBVIOUS
  <2>1. CASE i < p
    BY <2>1, <1>1, <1>3, <1>5
  <2>2. CASE ~(i < p)
    <3>1. i - (p - 1) \in 1..Len(s) - p /\ (i - (p - 1)) + p = i + 1
      BY <2>2, <1>1
    <3> QED BY <2>2, <3>1, <1>4, <1>5
  <2> QED BY <2>1, <2>2
<1> QED
  BY <1>2, <1>5, <1>6 DEF a, b

\* What pop leaves and what it returns.
LEMMA WithoutSplits ==
  ASSUME NEW s \in Seq(Entry), NEW c, Keyed(s)
  PROVE  /\ Without(s, c) \in Seq(Entry)
         /\ Len(Without(s, c)) <= Len(s)
         /\ Keyed(Without(s, c))
         /\ \A i \in DOMAIN Without(s, c) : Without(s, c)[i].conn # c /\ From(Without(s, c), i, s)
         /\ EnginesOf(Without(s, c)) \cup Popped(s, c) = EnginesOf(s)
         /\ EnginesOf(Without(s, c)) \cap Popped(s, c) = {}
<1>1. CASE ~IsCached(s, c)
  BY <1>1 DEF Without, IsCached, Popped, From, EnginesOf
<1>2. CASE IsCached(s, c)
  <2> DEFINE p == Position(s, c)
             t == Without(s, c)
  <2>1. p \in 1..Len(s) /\ s[p].conn = c /\ Len(s) \in Nat
    BY <1>2, PositionFinds
  <2>2. /\ t \in Seq(Entry)
        /\ Len(t) = Len(s) - 1
        /\ \A i \in 1..Len(s) - 1 : t[i] = IF i < p THEN s[i] ELSE s[i+1]
    BY <1>2, WithoutEntries
  <2>3. \A j \in 1..Len(s) : s[j].conn = c => j = p
    BY <2>1 DEF Keyed
  <2> HIDE DEF p, t
  <2>4. \A i \in 1..Len(t) : \E j \in 1..Len(s) : j # p /\ t[i] = s[j] /\ (j = i \/ j = i + 1)
    BY <2>1, <2>2
  <2>5. \A j \in 1..Len(s) : j # p => \E i \in 1..Len(t) : t[i] = s[j]
    <3> SUFFICES ASSUME NEW j \in 1..Len(s), j # p PROVE \E i \in 1..Len(t) : t[i] = s[j]
      OBVIOUS
    <3>1. CASE j < p
      BY <3>1, <2>1, <2>2
    <3>2. CASE j > p
      <4>1. j - 1 \in 1..Len(t) /\ t[j - 1] = s[j]
        BY <3>2, <2>1, <2>2
      <4> QED BY <4>1
    <3> QED BY <3>1, <3>2, <2>1
  <2>6. Keyed(t)
    <3> SUFFICES ASSUME NEW i \in 1..Len(t), NEW k \in 1..Len(t),
                        t[i].conn = t[k].conn \/ t[i].engine = t[k].engine
                 PROVE  i = k
      BY <2>2 DEF Keyed
    <3>1. i \in 1..Len(s) - 1 /\ k \in 1..Len(s) - 1
      BY <2>2
    <3> DEFINE I == IF i < p THEN i ELSE i + 1
               K == IF k < p THEN k ELSE k + 1
    <3>2. I \in 1..Len(s) /\ K \in 1..Len(s) /\ t[i] = s[I] /\ t[k] = s[K]
      BY <3>1, <2>1, <2>2
    <3>3. I = K
      BY <3>2 DEF Keyed
    <3> QED BY <3>1, <3>3, <2>1
  <2>7. \A i \in DOMAIN t : t[i].conn # c /\ From(t, i, s)
    BY <2>2, <2>3, <2>4 DEF From
  <2>8. Popped(s, c) = {s[p].engine}
    BY <2>1, <2>3 DEF Popped
  <2>9. EnginesOf(t) = {s[j].engine : j \in (1..Len(s)) \ {p}}
    <3>1. DOMAIN t = 1..Len(t)
      BY <2>2
    <3>2. \A i \in 1..Len(t) : t[i].engine \in {s[j].engine : j \in (1..Len(s)) \ {p}}
      BY <2>4
    <3>3. \A j \in (1..Len(s)) \ {p} : s[j].engine \in EnginesOf(t)
      BY <2>5, <3>1 DEF EnginesOf
    <3> QED BY <3>1, <3>2, <3>3 DEF EnginesOf
  <2>10. EnginesOf(s) = {s[j].engine : j \in 1..Len(s)}
    BY DEF EnginesOf
  <2>11. s[p].engine \notin EnginesOf(t)
    BY <2>1, <2>9 DEF Keyed
  <2> QED
    BY <2>1, <2>2, <2>6, <2>7, <2>8, <2>9, <2>10, <2>11 DEF t
<1> QED BY <1>1, <1>2

\* A new most recently used entry.
LEMMA AppendAdds ==
  ASSUME NEW s \in Seq(Entry), NEW x \in Entry, Keyed(s),
         \A i \in DOMAIN s : s[i].conn # x.conn, x.engine \notin EnginesOf(s)
  PROVE  /\ Append(s, x) \in Seq(Entry)
         /\ Len(Append(s, x)) = Len(s) + 1
         /\ Keyed(Append(s, x))
         /\ EnginesOf(Append(s, x)) = EnginesOf(s) \cup {x.engine}
         /\ \A i \in 1..Len(s) : Append(s, x)[i] = s[i]
         /\ Append(s, x)[Len(s) + 1] = x
<1> DEFINE t == Append(s, x)
<1>1. /\ t \in Seq(Entry) /\ Len(t) = Len(s) + 1 /\ Len(s) \in Nat
      /\ \A i \in 1..Len(s) : t[i] = s[i]
      /\ t[Len(s) + 1] = x
  OBVIOUS
<1> HIDE DEF t
<1>2. \A i \in 1..Len(s) : s[i].engine # x.engine
  BY DEF EnginesOf
<1>3. Keyed(t)
  <2> SUFFICES ASSUME NEW i \in 1..Len(t), NEW j \in 1..Len(t),
                      t[i].conn = t[j].conn \/ t[i].engine = t[j].engine
               PROVE  i = j
    BY <1>1 DEF Keyed
  <2>1. (i \in 1..Len(s) \/ i = Len(s) + 1) /\ (j \in 1..Len(s) \/ j = Len(s) + 1)
    BY <1>1
  <2> QED BY <2>1, <1>1, <1>2 DEF Keyed
<1>4. EnginesOf(t) = EnginesOf(s) \cup {x.engine}
  <2>1. DOMAIN t = DOMAIN s \cup {Len(s) + 1} /\ DOMAIN s = 1..Len(s)
    BY <1>1
  <2> QED BY <2>1, <1>1 DEF EnginesOf
<1> QED BY <1>1, <1>3, <1>4 DEF t

\* The overflow loop: it drops a prefix, and what is left fits.
LEMMA TrimSplits ==
  ASSUME NEW s \in Seq(Entry), Keyed(s)
  PROVE  /\ Trimmed(s) \in Seq(Entry)
         /\ Len(Trimmed(s)) <= MaxSize
         /\ Keyed(Trimmed(s))
         /\ \A i \in DOMAIN Trimmed(s) : From(Trimmed(s), i, s)
         /\ EnginesOf(Trimmed(s)) \cup EnginesOf(Oldest(s)) = EnginesOf(s)
         /\ EnginesOf(Trimmed(s)) \cap EnginesOf(Oldest(s)) = {}
<1> DEFINE n == Surplus(s)
           t == Trimmed(s)
           o == Oldest(s)
<1>1. n \in 0..Len(s) /\ Len(s) - n <= MaxSize /\ Len(s) \in Nat
  BY CacheAssumption DEF Surplus
<1>2. /\ t \in Seq(Entry) /\ Len(t) = Len(s) - n
      /\ \A i \in 1..Len(t) : t[i] = s[i + n]
  BY <1>1 DEF Trimmed
<1>3. /\ o \in Seq(Entry) /\ Len(o) = n
      /\ \A i \in 1..Len(o) : o[i] = s[i]
  BY <1>1 DEF Oldest
<1> HIDE DEF n, t, o
<1>4. \A i \in 1..Len(t) : i + n \in 1..Len(s)
  BY <1>1, <1>2
<1>5. Keyed(t)
  <2> SUFFICES ASSUME NEW i \in 1..Len(t), NEW j \in 1..Len(t),
                      t[i].conn = t[j].conn \/ t[i].engine = t[j].engine
               PROVE  i = j
    BY <1>2 DEF Keyed
  <2>1. i + n = j + n
    BY <1>2, <1>4 DEF Keyed
  <2> QED BY <2>1, <1>1, <1>2
<1>6. \A i \in DOMAIN t : From(t, i, s)
  BY <1>2, <1>4 DEF From
<1>7. EnginesOf(t) = {s[i].engine : i \in n+1..Len(s)}
  <2>1. \A i \in n+1..Len(s) : i - n \in 1..Len(t) /\ t[i - n] = s[i]
    BY <1>1, <1>2
  <2>2. \A i \in 1..Len(t) : i + n \in n+1..Len(s) /\ t[i] = s[i + n]
    BY <1>1, <1>2
  <2> QED BY <1>2, <2>1, <2>2 DEF EnginesOf
<1>8. EnginesOf(o) = {s[i].engine : i \in 1..n}
  BY <1>1, <1>3 DEF EnginesOf
<1>9. EnginesOf(s) = {s[i].engine : i \in 1..Len(s)}
  BY DEF EnginesOf
<1>10. 1..Len(s) = (1..n) \cup (n+1..Len(s)) /\ (1..n) \cap (n+1..Len(s)) = {}
  BY <1>1
<1>11. EnginesOf(t) \cap EnginesOf(o) = {}
  BY <1>7, <1>8, <1>10 DEF Keyed
<1>12. EnginesOf(t) \cup EnginesOf(o) = EnginesOf(s)
  BY <1>7, <1>8, <1>9, <1>10
<1> QED BY <1>1, <1>2, <1>5, <1>6, <1>11, <1>12 DEF t, o

-----------------------------------------------------------------------------
(* The operations of the cache, as functions of the dictionary. *)

\* A hit reorders: the same entries, the same engines.
LEMMA HitReorders ==
  ASSUME NEW s \in Seq(Entry), NEW c, Keyed(s), IsCached(s, c),
         NEW t, t = Append(Without(s, c), s[Position(s, c)])
  PROVE  /\ t \in Seq(Entry)
         /\ Len(t) = Len(s)
         /\ Keyed(t)
         /\ EnginesOf(t) = EnginesOf(s)
         /\ \A i \in DOMAIN t : From(t, i, s)
<1> DEFINE w == Without(s, c)
           p == Position(s, c)
<1>1. p \in 1..Len(s) /\ s[p].conn = c /\ s[p] \in Entry /\ Len(s) \in Nat
  BY PositionFinds
<1>2. /\ w \in Seq(Entry) /\ Keyed(w)
      /\ \A i \in DOMAIN w : w[i].conn # c /\ From(w, i, s)
      /\ EnginesOf(w) \cup Popped(s, c) = EnginesOf(s)
      /\ EnginesOf(w) \cap Popped(s, c) = {}
  BY WithoutSplits
<1>3. Popped(s, c) = {s[p].engine}
  BY <1>1 DEF Popped, Keyed
<1>4. Len(w) = Len(s) - 1
  BY WithoutEntries
<1> HIDE DEF w, p
<1>5. /\ t \in Seq(Entry) /\ Len(t) = Len(w) + 1 /\ Keyed(t)
      /\ EnginesOf(t) = EnginesOf(w) \cup {s[p].engine}
      /\ \A i \in 1..Len(w) : t[i] = w[i]
      /\ t[Len(w) + 1] = s[p]
  <2>1. s[p].engine \notin EnginesOf(w) /\ \A i \in DOMAIN w : w[i].conn # s[p].conn
    BY <1>1, <1>2, <1>3
  <2> QED BY <1>1, <1>2, <2>1, AppendAdds DEF w, p
<1>6. \A i \in DOMAIN t : From(t, i, s)
  <2> SUFFICES ASSUME NEW i \in 1..Len(t) PROVE From(t, i, s)
    BY <1>5
  <2>1. CASE i \in 1..Len(w)
    <3>1. From(w, i, s) /\ t[i] = w[i]
      BY <2>1, <1>2, <1>5
    <3> QED BY <3>1 DEF From
  <2>2. CASE i = Len(w) + 1
    BY <2>2, <1>1, <1>5 DEF From
  <2> QED BY <2>1, <2>2, <1>2, <1>5
<1> QED BY <1>1, <1>2, <1>3, <1>4, <1>5, <1>6

\* put: what was there and the new engine are cached or to be disposed, not both.
LEMMA PutSplits ==
  ASSUME NEW s \in Seq(Entry), NEW c \in Conns, NEW e \in Engines, Keyed(s),
         \A i \in DOMAIN s : s[i].engine = e => s[i].conn = c,
         NEW t, t = Trimmed(Filled(s, c, e)),
         NEW d, d = (Popped(s, c) \ {e}) \cup EnginesOf(Oldest(Filled(s, c, e)))
  PROVE  /\ t \in Seq(Entry)
         /\ Len(t) <= MaxSize
         /\ Keyed(t)
         /\ EnginesOf(t) \cup d = EnginesOf(s) \cup {e}
         /\ EnginesOf(t) \cap d = {}
         /\ \A i \in DOMAIN t : From(t, i, s) \/ (t[i].conn = c /\ t[i].engine = e)
<1> DEFINE w == Without(s, c)
           x == [conn |-> c, engine |-> e, age |-> 0]
           f == Filled(s, c, e)
<1>1. /\ w \in Seq(Entry) /\ Keyed(w)
      /\ \A i \in DOMAIN w : w[i].conn # c /\ From(w, i, s)
      /\ EnginesOf(w) \cup Popped(s, c) = EnginesOf(s)
      /\ EnginesOf(w) \cap Popped(s, c) = {}
  BY WithoutSplits
<1>2. x \in Entry /\ x.conn = c /\ x.engine = e
  BY CacheAssumption DEF Entry
<1>3. f = Append(w, x)
  BY DEF Filled
<1> HIDE DEF w, x, f
<1>4. e \notin EnginesOf(w)
  <2> SUFFICES ASSUME NEW i \in DOMAIN w, w[i].engine = e PROVE FALSE
    BY DEF EnginesOf
  <2>1. w[i].conn # c /\ From(w, i, s)
    BY <1>1
  <2>2. PICK j \in DOMAIN s : w[i].conn = s[j].conn /\ w[i].engine = s[j].engine
    BY <2>1 DEF From
  <2> QED BY <2>1, <2>2
<1>5. /\ f \in Seq(Entry) /\ Len(f) = Len(w) + 1 /\ Keyed(f)
      /\ EnginesOf(f) = EnginesOf(w) \cup {e}
      /\ \A i \in 1..Len(w) : f[i] = w[i]
      /\ f[Len(w) + 1] = x
  BY <1>1, <1>2, <1>3, <1>4, AppendAdds
<1>6. /\ t \in Seq(Entry) /\ Len(t) <= MaxSize /\ Keyed(t)
      /\ \A i \in DOMAIN t : From(t, i, f)
      /\ EnginesOf(t) \cup EnginesOf(Oldest(f)) = EnginesOf(f)
      /\ EnginesOf(t) \cap EnginesOf(Oldest(f)) = {}
  BY <1>5, TrimSplits DEF f
<1>7. d = (Popped(s, c) \ {e}) \cup EnginesOf(Oldest(f))
  BY DEF f
<1>8. EnginesOf(t) \cup d = EnginesOf(s) \cup {e} /\ EnginesOf(t) \cap d = {}
  BY <1>1, <1>5, <1>6, <1>7
<1>9. \A j \in DOMAIN f : From(f, j, s) \/ (f[j].conn = c /\ f[j].engine = e)
  <2> SUFFICES ASSUME NEW j \in 1..Len(f)
               PROVE From(f, j, s) \/ (f[j].conn = c /\ f[j].engine = e)
    BY <1>5
  <2>1. CASE j \in 1..Len(w)
    BY <2>1, <1>1, <1>5 DEF From
  <2>2. CASE j = Len(w) + 1
    BY <2>2, <1>2, <1>5
  <2> QED BY <2>1, <2>2, <1>1, <1>5
<1>10. \A i \in DOMAIN t : From(t, i, s) \/ (t[i].conn = c /\ t[i].engine = e)
  BY <1>6, <1>9 DEF From
<1> QED BY <1>6, <1>8, <1>10

\* The clock changes ages only.
LEMMA TickAges ==
  ASSUME NEW s \in Seq(Entry), Keyed(s),
         NEW t, t = [i \in DOMAIN s |-> [s[i] EXCEPT !.age = IF @ <= TTL THEN @ + 1 ELSE @]]
  PROVE  /\ t \in Seq(Entry)
         /\ Len(t) = Len(s)
         /\ Keyed(t)
         /\ EnginesOf(t) = EnginesOf(s)
         /\ \A i \in DOMAIN t : From(t, i, s)
<1>1. DOMAIN s = 1..Len(s) /\ Len(s) \in Nat /\ DOMAIN t = 1..Len(s)
  OBVIOUS
<1>2. \A i \in 1..Len(s) : s[i] \in Entry
  OBVIOUS
<1>3. \A i \in 1..Len(s) : /\ t[i] \in Entry
                           /\ t[i].conn = s[i].conn
                           /\ t[i].engine = s[i].engine
  BY <1>1, <1>2, CacheAssumption DEF Entry
<1>4. t \in Seq(Entry) /\ Len(t) = Len(s)
  BY <1>1, <1>3
<1>5. Keyed(t)
  BY <1>1, <1>3, <1>4 DEF Keyed
<1>6. EnginesOf(t) = EnginesOf(s)
  BY <1>1, <1>3, <1>4 DEF EnginesOf
<1> QED BY <1>1, <1>3, <1>4, <1>5, <1>6 DEF From

-----------------------------------------------------------------------------
(* The lists of engines to dispose. *)

\* A caller with an empty list fills it with engines nobody else has.
LEMMA DoomMore ==
  ASSUME toDispose \in [Callers -> SUBSET Engines], NEW k \in Callers, Idle(k),
         NEW d \in SUBSET Engines, toDispose' = [toDispose EXCEPT ![k] = d]
  PROVE  /\ toDispose' \in [Callers -> SUBSET Engines]
         /\ Doomed' = Doomed \cup d
         /\ \A l \in Callers : toDispose'[l] = IF l = k THEN d ELSE toDispose[l]
<1>1. /\ toDispose' \in [Callers -> SUBSET Engines]
      /\ \A l \in Callers : toDispose'[l] = IF l = k THEN d ELSE toDispose[l]
  OBVIOUS
<1>2. Doomed' \subseteq Doomed \cup d
  BY <1>1 DEF Doomed
<1>3. Doomed \cup d \subseteq Doomed'
  BY <1>1 DEF Doomed, Idle
<1> QED BY <1>1, <1>2, <1>3

\* A thread disposes the next engine of its list.
LEMMA DoomLess ==
  ASSUME CacheTypeOK, NoUseAfterDispose, NEW k \in Callers, Dispose(k)
  PROVE  /\ CacheTypeOK'
         /\ NoUseAfterDispose'
         /\ Doomed' \cup disposed' = Doomed \cup disposed
<1>1. PICK e \in toDispose[k] :
        /\ toDispose' = [toDispose EXCEPT ![k] = @ \ {e}]
        /\ disposed' = disposed \cup {e}
        /\ UNCHANGED entries
  BY DEF Dispose
<1>2. /\ toDispose' \in [Callers -> SUBSET Engines] /\ e \in Engines
      /\ \A l \in Callers : toDispose'[l] = IF l = k THEN toDispose[k] \ {e} ELSE toDispose[l]
  BY <1>1 DEF CacheTypeOK
<1>3. \A l \in Callers : l # k => e \notin toDispose[l]
  BY <1>1 DEF NoUseAfterDispose
<1>4. Doomed' = Doomed \ {e} /\ e \in Doomed
  BY <1>1, <1>2, <1>3 DEF Doomed
<1>5. CacheTypeOK'
  BY <1>1, <1>2 DEF CacheTypeOK
<1>6. EnginesOf(entries)' = EnginesOf(entries)
  BY <1>1 DEF EnginesOf
<1>7. NoUseAfterDispose'
  BY <1>1, <1>2, <1>4, <1>6 DEF NoUseAfterDispose
<1> QED BY <1>1, <1>4, <1>5, <1>7

(***************************************************************************)
(* A step that takes engines out of the dictionary, to the list of a       *)
(* caller whose list is empty, and puts in at most fresh ones.             *)
(***************************************************************************)
LEMMA MoveKeeps ==
  ASSUME CacheTypeOK, NoUseAfterDispose, NEW k \in Callers, Idle(k),
         NEW d, NEW fresh \in SUBSET Engines,
         fresh \cap (Doomed \cup disposed) = {},
         toDispose' = [toDispose EXCEPT ![k] = d], UNCHANGED disposed,
         entries' \in Seq(Entry),
         EnginesOf(entries') \cup d = EnginesOf(entries) \cup fresh,
         EnginesOf(entries') \cap d = {}
  PROVE  CacheTypeOK' /\ NoUseAfterDispose' /\ Doomed' = Doomed \cup d
<1>1. EnginesOf(entries) \subseteq Engines
  <2> SUFFICES ASSUME NEW i \in DOMAIN entries PROVE entries[i].engine \in Engines
    BY DEF EnginesOf
  <2>1. entries[i] \in Entry
    BY DEF CacheTypeOK
  <2> QED BY <2>1 DEF Entry
<1>2. d \in SUBSET Engines
  BY <1>1
<1>3. /\ toDispose' \in [Callers -> SUBSET Engines]
      /\ Doomed' = Doomed \cup d
      /\ \A l \in Callers : toDispose'[l] = IF l = k THEN d ELSE toDispose[l]
  BY <1>2, DoomMore DEF CacheTypeOK
<1>4. CacheTypeOK'
  BY <1>3 DEF CacheTypeOK
<1>5. d \cap (Doomed \cup disposed) = {}
  BY DEF NoUseAfterDispose
<1>6. EnginesOf(entries)' \cap (disposed' \cup Doomed') = {} /\ Doomed' \cap disposed' = {}
  BY <1>3, <1>5 DEF NoUseAfterDispose, EnginesOf
<1>7. \A l \in Callers : toDispose[l] \subseteq Doomed
  BY DEF Doomed
<1>8. \A l, m \in Callers : l # m => toDispose'[l] \cap toDispose'[m] = {}
  BY <1>3, <1>5, <1>7 DEF NoUseAfterDispose
<1> QED BY <1>3, <1>4, <1>6, <1>8 DEF NoUseAfterDispose

-----------------------------------------------------------------------------
(* The safety of the cache: its type, its shape, and no use after dispose. *)

CacheSafe == CacheTypeOK /\ CacheShape /\ NoUseAfterDispose

\* CacheShape says that the dictionary is bounded and keyed.
LEMMA ShapeIsKeyed == CacheShape <=> Len(entries) <= MaxSize /\ Keyed(entries)
BY DEF CacheShape, Keyed

\* One operation each.
LEMMA GetHitSafe ==
  ASSUME CacheSafe, NEW c \in Conns, GetHit(c)
  PROVE  /\ CacheSafe'
         /\ EnginesOf(entries') = EnginesOf(entries) /\ Doomed' = Doomed
         /\ \A i \in DOMAIN entries' : From(entries', i, entries)
<1>1. Keyed(entries) /\ entries \in Seq(Entry)
  BY ShapeIsKeyed DEF CacheSafe, CacheTypeOK
<1>2. /\ entries' \in Seq(Entry) /\ Len(entries') = Len(entries) /\ Keyed(entries')
      /\ EnginesOf(entries') = EnginesOf(entries)
      /\ \A i \in DOMAIN entries' : From(entries', i, entries)
  BY <1>1, HitReorders DEF GetHit
<1>3. UNCHANGED <<toDispose, disposed>>
  BY DEF GetHit
<1>4. Doomed' = Doomed
  BY <1>3 DEF Doomed
<1>5. CacheTypeOK' /\ CacheShape'
  BY <1>2, <1>3 DEF CacheSafe, CacheTypeOK, CacheShape, Keyed
<1>6. NoUseAfterDispose'
  BY <1>2, <1>3, <1>4 DEF CacheSafe, NoUseAfterDispose, EnginesOf
<1> QED BY <1>2, <1>4, <1>5, <1>6 DEF CacheSafe

LEMMA PopSafe ==
  ASSUME CacheSafe, NEW k \in Callers, Idle(k), NEW c \in Conns,
         GetExpired(k, c) \/ Evict(k, c)
  PROVE  /\ CacheSafe'
         /\ EnginesOf(entries') \cup Doomed' = EnginesOf(entries) \cup Doomed
         /\ \A i \in DOMAIN entries' : From(entries', i, entries)
<1>1. Keyed(entries) /\ entries \in Seq(Entry) /\ Len(entries) <= MaxSize
  BY ShapeIsKeyed DEF CacheSafe, CacheTypeOK
<1>2. /\ entries' = Without(entries, c)
      /\ toDispose' = [toDispose EXCEPT ![k] = Popped(entries, c)]
      /\ UNCHANGED disposed
  BY DEF GetExpired, Evict
<1>3. /\ entries' \in Seq(Entry) /\ Len(entries') <= Len(entries) /\ Keyed(entries')
      /\ \A i \in DOMAIN entries' : From(entries', i, entries)
      /\ EnginesOf(entries') \cup Popped(entries, c) = EnginesOf(entries)
      /\ EnginesOf(entries') \cap Popped(entries, c) = {}
  BY <1>1, <1>2, WithoutSplits
<1>4. CacheTypeOK' /\ NoUseAfterDispose' /\ Doomed' = Doomed \cup Popped(entries, c)
  <2> DEFINE none == {}
  <2>1. none \in SUBSET Engines /\ none \cap (Doomed \cup disposed) = {}
    OBVIOUS
  <2>2. EnginesOf(entries') \cup Popped(entries, c) = EnginesOf(entries) \cup none
    BY <1>3
  <2> HIDE DEF none
  <2> QED BY <1>2, <1>3, <2>1, <2>2, MoveKeeps DEF CacheSafe
<1>5. CacheShape'
  <2>1. Len(entries') <= MaxSize
    BY <1>1, <1>3, CacheAssumption
  <2> QED BY <1>3, <2>1 DEF CacheShape, Keyed
<1> QED BY <1>3, <1>4, <1>5 DEF CacheSafe

LEMMA PutSafe ==
  ASSUME CacheSafe, NEW k \in Callers, Idle(k), NEW c \in Conns, NEW e \in Engines,
         MayPut(c, e), Put(k, c, e)
  PROVE  /\ CacheSafe'
         /\ EnginesOf(entries') \cup Doomed' = EnginesOf(entries) \cup Doomed \cup {e}
         /\ \A i \in DOMAIN entries' :
              From(entries', i, entries) \/ (entries'[i].conn = c /\ entries'[i].engine = e)
<1>1. Keyed(entries) /\ entries \in Seq(Entry)
  BY ShapeIsKeyed DEF CacheSafe, CacheTypeOK
<1> DEFINE d == (Popped(entries, c) \ {e}) \cup EnginesOf(Oldest(Filled(entries, c, e)))
<1>2. /\ entries' = Trimmed(Filled(entries, c, e))
      /\ toDispose' = [toDispose EXCEPT ![k] = d]
      /\ UNCHANGED disposed
  BY DEF Put
<1>3. /\ entries' \in Seq(Entry) /\ Len(entries') <= MaxSize /\ Keyed(entries')
      /\ EnginesOf(entries') \cup d = EnginesOf(entries) \cup {e}
      /\ EnginesOf(entries') \cap d = {}
      /\ \A i \in DOMAIN entries' :
           From(entries', i, entries) \/ (entries'[i].conn = c /\ entries'[i].engine = e)
  <2>1. \A i \in DOMAIN entries : entries[i].engine = e => entries[i].conn = c
    BY DEF MayPut
  <2>2. d = (Popped(entries, c) \ {e}) \cup EnginesOf(Oldest(Filled(entries, c, e)))
    OBVIOUS
  <2> HIDE DEF d
  <2> QED BY <1>1, <1>2, <2>1, <2>2, PutSplits
<1> HIDE DEF d
<1>4. {e} \in SUBSET Engines /\ {e} \cap (Doomed \cup disposed) = {}
  BY DEF MayPut
<1>5. CacheTypeOK' /\ NoUseAfterDispose' /\ Doomed' = Doomed \cup d
  BY <1>2, <1>3, <1>4, MoveKeeps DEF CacheSafe
<1>6. CacheShape'
  BY <1>3 DEF CacheShape, Keyed
<1> QED BY <1>3, <1>5, <1>6 DEF CacheSafe

LEMMA ClearSafe ==
  ASSUME CacheSafe, NEW k \in Callers, Idle(k), Clear(k)
  PROVE  /\ CacheSafe'
         /\ entries' = <<>>
         /\ Doomed' = EnginesOf(entries) \cup Doomed
<1>1. /\ entries' = <<>> /\ entries' \in Seq(Entry) /\ Len(entries') = 0
      /\ DOMAIN entries' = {} /\ EnginesOf(entries') = {}
  BY DEF Clear, EnginesOf
<1>2. CacheTypeOK' /\ NoUseAfterDispose' /\ Doomed' = Doomed \cup EnginesOf(entries)
  <2> DEFINE none == {}
             d == EnginesOf(entries)
  <2>1. none \in SUBSET Engines /\ none \cap (Doomed \cup disposed) = {}
    OBVIOUS
  <2>2. EnginesOf(entries') \cup d = EnginesOf(entries) \cup none /\ EnginesOf(entries') \cap d = {}
    BY <1>1
  <2>3. toDispose' = [toDispose EXCEPT ![k] = d] /\ UNCHANGED disposed
    BY DEF Clear
  <2> HIDE DEF none, d
  <2>4. CacheTypeOK' /\ NoUseAfterDispose' /\ Doomed' = Doomed \cup d
    BY <1>1, <2>1, <2>2, <2>3, MoveKeeps DEF CacheSafe
  <2> QED BY <2>4 DEF d
<1>3. CacheShape'
  BY <1>1, CacheAssumption DEF CacheShape
<1> QED BY <1>1, <1>2, <1>3 DEF CacheSafe

LEMMA DisposeSafe ==
  ASSUME CacheSafe, NEW k \in Callers, Dispose(k)
  PROVE  /\ CacheSafe'
         /\ entries' = entries
         /\ Doomed' \cup disposed' = Doomed \cup disposed
<1>1. entries' = entries
  BY DEF Dispose
<1>2. CacheShape'
  BY <1>1 DEF CacheSafe, CacheShape
<1> QED BY <1>1, <1>2, DoomLess DEF CacheSafe

LEMMA TickSafe ==
  ASSUME CacheSafe, Tick
  PROVE  /\ CacheSafe'
         /\ EnginesOf(entries') = EnginesOf(entries) /\ Doomed' = Doomed
         /\ \A i \in DOMAIN entries' : From(entries', i, entries)
<1>1. Keyed(entries) /\ entries \in Seq(Entry) /\ UNCHANGED <<toDispose, disposed>>
  BY ShapeIsKeyed DEF CacheSafe, CacheTypeOK, Tick
<1>2. /\ entries' \in Seq(Entry) /\ Len(entries') = Len(entries) /\ Keyed(entries')
      /\ EnginesOf(entries') = EnginesOf(entries)
      /\ \A i \in DOMAIN entries' : From(entries', i, entries)
  BY <1>1, TickAges DEF Tick
<1>3. Doomed' = Doomed
  BY <1>1 DEF Doomed
<1>4. CacheTypeOK' /\ CacheShape'
  BY <1>1, <1>2 DEF CacheSafe, CacheTypeOK, CacheShape, Keyed
<1>5. NoUseAfterDispose'
  BY <1>1, <1>2, <1>3 DEF CacheSafe, NoUseAfterDispose, EnginesOf
<1> QED BY <1>2, <1>3, <1>4, <1>5 DEF CacheSafe

LEMMA CacheStart == CacheInit => CacheSafe
<1> SUFFICES ASSUME CacheInit PROVE CacheSafe
  OBVIOUS
<1>1. entries = <<>> /\ entries \in Seq(Entry) /\ Len(entries) = 0 /\ DOMAIN entries = {}
  BY DEF CacheInit
<1>2. Doomed = {} /\ disposed = {} /\ EnginesOf(entries) = {}
  BY <1>1 DEF CacheInit, Doomed, EnginesOf
<1> QED
  BY <1>1, <1>2, CacheAssumption
  DEF CacheInit, CacheSafe, CacheTypeOK, CacheShape, NoUseAfterDispose

LEMMA CacheStep == CacheSafe /\ [CacheNext]_cacheVars => CacheSafe'
<1> SUFFICES ASSUME CacheSafe, [CacheNext]_cacheVars PROVE CacheSafe'
  OBVIOUS
<1>1. CASE UNCHANGED cacheVars
  BY <1>1
  DEF cacheVars, CacheSafe, CacheTypeOK, CacheShape, NoUseAfterDispose, Doomed, EnginesOf
<1>2. CASE Tick
  BY <1>2, TickSafe
<1>3. ASSUME NEW k \in Callers, Operation(k) PROVE CacheSafe'
  <2>1. Idle(k)
    BY <1>3 DEF Operation
  <2>2. PICK c \in Conns : \/ GetHit(c)
                           \/ GetExpired(k, c)
                           \/ GetMiss(c)
                           \/ Evict(k, c)
                           \/ \E e \in Engines : MayPut(c, e) /\ Put(k, c, e)
    BY <1>3 DEF Operation
  <2>3. CASE GetHit(c)
    BY <2>3, GetHitSafe
  <2>4. CASE GetExpired(k, c) \/ Evict(k, c)
    BY <2>1, <2>4, PopSafe
  <2>5. CASE GetMiss(c)
    BY <2>5, <1>1 DEF GetMiss
  <2>6. CASE \E e \in Engines : MayPut(c, e) /\ Put(k, c, e)
    BY <2>1, <2>6, PutSafe
  <2> QED BY <2>2, <2>3, <2>4, <2>5, <2>6
<1>4. ASSUME NEW k \in Callers, Idle(k), Clear(k) PROVE CacheSafe'
  BY <1>4, ClearSafe
<1>5. ASSUME NEW k \in Callers, Dispose(k) PROVE CacheSafe'
  BY <1>5, DisposeSafe
<1> QED BY <1>1, <1>2, <1>3, <1>4, <1>5 DEF CacheNext

(***************************************************************************)
(* Whatever callers do and however their operations and disposals          *)
(* interleave: the dictionary stays bounded and keyed, and no engine is    *)
(* disposed while the cache holds it, or by two threads.                   *)
(***************************************************************************)
THEOREM CacheIsSafe == CacheSpec => [](CacheTypeOK /\ CacheShape /\ NoUseAfterDispose)
  BY CacheStart, CacheStep, PTL DEF CacheSpec, CacheSafe

\* The dictionary never holds more entries than its size, nor two of one id.
THEOREM CacheShapeHolds == CacheSpec => []CacheShape
  BY CacheIsSafe, PTL
=============================================================================
