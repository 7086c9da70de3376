---------------------- MODULE ConnectionServiceProofs ----------------------
(***************************************************************************)
(* Safety of the connection service, for any number of requests, users,    *)
(* names and pool threads, any limits, and any size and lifetime of the    *)
(* cache.                                                                  *)
(***************************************************************************)
EXTENDS ConnectionService, ConnectionCacheProofs, FiniteSetTheorems

-----------------------------------------------------------------------------
(* The inductive invariant *)

CreateSteps == {"check", "connect", "insert", "put"}
LookupSteps == {"lookup", "cache_get", "rebuild", "put_rebuilt", "touch"}
DeleteSteps == {"delete", "evict"}

InHandSteps == {"insert", "put", "put_rebuilt"}

\* The connection r asks for was saved by the user of r.
Looked(r) == req[r].conn \in saved /\ req[req[r].conn].user = req[r].user

\* What is known of one request at each of its steps.
RequestInv(r) ==
  /\ pc[r] = "idle" => req[r] = None
  /\ pc[r] # "idle" => req[r] \in ArgsOf(r)
  /\ pc[r] \in CreateSteps => req[r].op = "create"
  /\ pc[r] \in LookupSteps => req[r].op \in {"schema", "generate"}
  /\ pc[r] \in DeleteSteps => req[r].op = "delete"
  /\ pc[r] \in {"cache_get", "rebuild", "put_rebuilt"} => Looked(r)
  /\ r \in built => pc[r] \in InHandSteps \cup {"touch"} \cup Answers
  /\ r \in saved => pc[r] \in {"put", "created", "error"} /\ req[r].op = "create"
  /\ pc[r] = "put" => r \in saved
  /\ served[r] # None => /\ pc[r] \in {"touch", "entry"}
                         /\ served[r] \in built
                         /\ req[served[r]].conn = req[r].conn
                         /\ Looked(r)

Kept == EnginesOf(entries) \cup Doomed \cup disposed

Inv ==
  /\ CacheSafe
  /\ ServiceTypeOK
  /\ rows \subseteq saved
  /\ \A r \in Requests : RequestInv(r)
  /\ built = InHand \cup Kept
  /\ InHand \cap Kept = {}
  /\ CachedForItsConnection

\* What a reader sees of it.
LEMMA InvImplies ==
  Inv => ServiceTypeOK /\ CacheShape /\ EngineHasOneKeeper /\ CachedForItsConnection /\ ServedToOwner
<1> SUFFICES ASSUME Inv
             PROVE  /\ ServiceTypeOK /\ CacheShape /\ EngineHasOneKeeper
                    /\ CachedForItsConnection /\ ServedToOwner
  OBVIOUS
<1>1. EngineHasOneKeeper
  BY DEF Inv, Kept, EngineHasOneKeeper, CacheSafe
<1>2. ServedToOwner
  BY DEF Inv, RequestInv, Looked, ServedToOwner, Owner
<1> QED BY <1>1, <1>2 DEF Inv, CacheSafe

-----------------------------------------------------------------------------
(* Lemmas on steps *)

\* A step of r changes nothing that is known of another request.
LEMMA OthersKeep ==
  ASSUME Inv, NEW r \in Requests,
         \A q \in Requests \ {r} : pc'[q] = pc[q] /\ req'[q] = req[q] /\ served'[q] = served[q],
         pc[r] = "idle" \/ req'[r] = req[r],
         built \subseteq built', built' \subseteq built \cup {r},
         saved \subseteq saved', saved' \subseteq saved \cup {r}
  PROVE  \A q \in Requests \ {r} : RequestInv(q)'
<1>1. pc[r] = "idle" => r \notin built /\ r \notin saved
  BY DEF Inv, RequestInv, InHandSteps, Answers, Refusals
<1>2. \A e \in built \cup saved : req'[e] = req[e]
  BY <1>1 DEF Inv, ServiceTypeOK
<1> SUFFICES ASSUME NEW q \in Requests, q # r PROVE RequestInv(q)'
  OBVIOUS
<1>3. RequestInv(q)
  BY DEF Inv
<1>4. Looked(q) => Looked(q)'
  BY <1>2 DEF Looked
<1>5. served[q] # None => served[q] \in built' /\ req'[served[q]].conn = req'[q].conn
  BY <1>2, <1>3 DEF RequestInv
<1> QED
  BY <1>3, <1>4, <1>5 DEF RequestInv, ArgsOf

\* Where InHand goes when r goes to a step.
LEMMA HandOfGoto ==
  ASSUME ServiceTypeOK, NEW r \in Requests, NEW x, Goto(r, x)
  PROVE  /\ InHand' = IF x \in InHandSteps THEN InHand \cup {r} ELSE InHand \ {r}
         /\ pc'[r] = x
         /\ \A q \in Requests \ {r} : pc'[q] = pc[q]
BY DEF ServiceTypeOK, Goto, InHand, InHandSteps

\* What the cache keeps, when the cache does not change.
LEMMA KeptSame ==
  ASSUME UNCHANGED cacheVars, CacheSafe
  PROVE  CacheSafe' /\ Kept' = Kept /\ Doomed' = Doomed
BY DEF cacheVars, Kept, EnginesOf, Doomed, CacheSafe, CacheTypeOK, CacheShape, NoUseAfterDispose

\* The cached engines stay right when only new requests get arguments.
LEMMA CachedKeeps ==
  ASSUME Inv, \A i \in DOMAIN entries' : From(entries', i, entries),
         \A e \in built \cup saved : req'[e] = req[e], saved \subseteq saved'
  PROVE  CachedForItsConnection'
<1> SUFFICES ASSUME NEW i \in DOMAIN entries'
             PROVE  /\ entries'[i].conn = req'[entries'[i].engine].conn
                    /\ entries'[i].conn \in saved'
  BY DEF CachedForItsConnection
<1>1. PICK j \in DOMAIN entries :
        entries'[i].conn = entries[j].conn /\ entries'[i].engine = entries[j].engine
  BY DEF From
<1>2. entries[j].engine \in built
  BY DEF Inv, Kept, EnginesOf
<1> QED BY <1>1, <1>2 DEF Inv, CachedForItsConnection

\* The types of the service's own variables, after a step of r.
LEMMA TypesKeep ==
  ASSUME ServiceTypeOK, NEW r \in Requests, NEW x \in Steps \cup Answers, Goto(r, x),
         CacheTypeOK', UNCHANGED <<req, running>>, served' \in [Requests -> Requests \cup {None}],
         built' \subseteq built \cup {r}, saved' \subseteq saved \cup {r}, rows' \subseteq saved'
  PROVE  ServiceTypeOK'
BY DEF ServiceTypeOK, Goto

\* A step of r that does not touch the cache.
LEMMA LocalStep ==
  ASSUME Inv, NEW r \in Requests, NEW x \in Steps \cup Answers, Goto(r, x),
         UNCHANGED cacheVars, UNCHANGED <<req, served, running>>,
         built \subseteq built', built' \subseteq built \cup {r},
         saved \subseteq saved', saved' \subseteq saved \cup {r}, rows' \subseteq saved',
         RequestInv(r)',
         built' = InHand' \cup Kept, InHand' \cap Kept = {}
  PROVE  Inv'
<1>1. CacheSafe' /\ Kept' = Kept
  BY KeptSame DEF Inv
<1>2. ServiceTypeOK'
  BY <1>1, TypesKeep DEF Inv, CacheSafe, ServiceTypeOK
<1>3. pc'[r] = x /\ \A q \in Requests \ {r} : pc'[q] = pc[q]
  BY HandOfGoto DEF Inv
<1>4. \A q \in Requests : RequestInv(q)'
  BY <1>3, OthersKeep
<1>5. CachedForItsConnection'
  <2>1. entries' = entries
    BY DEF cacheVars
  <2>2. \A i \in DOMAIN entries' : From(entries', i, entries)
    BY <2>1 DEF From
  <2> QED BY <2>2, CachedKeeps
<1> QED BY <1>1, <1>2, <1>4, <1>5 DEF Inv

\* A step of r that only goes to a step where r has no engine in hand, from one
\* where it had none.
LEMMA QuietStep ==
  ASSUME Inv, NEW r \in Requests, NEW x \in (Steps \cup Answers) \ InHandSteps, Goto(r, x),
         pc[r] \notin InHandSteps,
         UNCHANGED cacheVars, UNCHANGED <<req, saved, built, served, running>>, rows' \subseteq rows,
         RequestInv(r)'
  PROVE  Inv'
<1>1. InHand' = InHand
  BY HandOfGoto DEF Inv, InHand, InHandSteps
<1> QED BY <1>1, LocalStep DEF Inv

-----------------------------------------------------------------------------
(* One lemma for each action *)

LEMMA BeginKeeps == ASSUME Inv, NEW r \in Requests, Begin(r) PROVE Inv'
<1>1. PICK a \in ArgsOf(r) : req' = [req EXCEPT ![r] = a] /\ Goto(r, FirstStep(a.op))
  BY DEF Begin
<1>2. /\ pc[r] = "idle" /\ UNCHANGED <<cacheVars, rows, saved, built, served, running>>
  BY DEF Begin
<1>3. FirstStep(a.op) \in {"check", "lookup", "delete"}
  BY DEF FirstStep
<1>4. CacheSafe' /\ Kept' = Kept
  BY <1>2, KeptSame DEF Inv, cacheVars
<1>5. ServiceTypeOK'
  BY <1>1, <1>2, <1>3, <1>4 DEF Inv, ServiceTypeOK, CacheSafe, Goto, ArgsOf, Steps
<1>6. /\ pc'[r] = FirstStep(a.op) /\ InHand' = InHand
      /\ \A q \in Requests \ {r} : pc'[q] = pc[q]
  BY <1>1, <1>2, <1>3, HandOfGoto DEF Inv, InHand, InHandSteps
<1>7. req'[r] = a /\ \A q \in Requests \ {r} : req'[q] = req[q]
  BY <1>1 DEF Inv, ServiceTypeOK
<1>8. r \notin built /\ r \notin saved /\ served[r] = None
  BY <1>2 DEF Inv, RequestInv, InHandSteps, Answers, Refusals
<1>9. RequestInv(r)'
  <2>1. a.op \in {"create", "schema", "generate", "delete"} /\ a \in ArgsOf(r)
    BY DEF ArgsOf, Args
  <2> QED
    BY <1>2, <1>6, <1>7, <1>8, <2>1
    DEF RequestInv, FirstStep, CreateSteps, LookupSteps, DeleteSteps, InHandSteps, ArgsOf
<1>10. \A q \in Requests : RequestInv(q)'
  BY <1>2, <1>6, <1>7, <1>9, OthersKeep
<1>11. CachedForItsConnection'
  <2>1. \A i \in DOMAIN entries' : From(entries', i, entries)
    BY <1>2 DEF cacheVars, From
  <2>2. \A e \in built \cup saved : req'[e] = req[e]
    BY <1>7, <1>8 DEF Inv, ServiceTypeOK
  <2> QED BY <1>2, <2>1, <2>2, CachedKeeps
<1> QED BY <1>2, <1>4, <1>5, <1>6, <1>10, <1>11 DEF Inv

LEMMA ControlPlaneErrorKeeps == ASSUME Inv, NEW r \in Requests, ControlPlaneError(r) PROVE Inv'
<1>1. /\ Goto(r, "error") /\ pc[r] \in {"check", "lookup", "delete"}
      /\ UNCHANGED <<cacheVars, req, rows, saved, built, served, running>>
  BY DEF ControlPlaneError, At
<1>2. RequestInv(r)'
  BY <1>1, HandOfGoto
  DEF Inv, RequestInv, Looked, ArgsOf, Answers, CreateSteps, LookupSteps, DeleteSteps, InHandSteps
<1> QED
  BY <1>1, <1>2, QuietStep DEF Answers, InHandSteps

LEMMA CreateCheckKeeps == ASSUME Inv, NEW r \in Requests, CreateCheck(r) PROVE Inv'
<1>1. /\ Goto(r, Usage(r)) /\ pc[r] = "check"
      /\ UNCHANGED <<cacheVars, req, rows, saved, built, served, running>>
  BY DEF CreateCheck, At
<1>2. Usage(r) \in {"invalid_name", "limit_reached", "name_taken", "connect"}
  BY DEF Usage
<1>3. RequestInv(r)'
  BY <1>1, <1>2, HandOfGoto
  DEF Inv, RequestInv, Looked, ArgsOf, Answers, Refusals, CreateSteps, LookupSteps, DeleteSteps,
      InHandSteps
<1> QED
  BY <1>1, <1>2, <1>3, QuietStep DEF Steps, Answers, Refusals, InHandSteps

\* Building an engine: nobody has it yet.
LEMMA NotBuilt ==
  ASSUME Inv, NEW r \in Requests, pc[r] \in {"connect", "rebuild"}
  PROVE  /\ r \notin built /\ r \notin InHand /\ r \notin Kept
         /\ r \notin saved /\ served[r] = None
BY DEF Inv, RequestInv, InHandSteps, Answers, Refusals

LEMMA RefuseKeeps ==
  ASSUME Inv, NEW r \in Requests, pc[r] \in {"connect", "rebuild"},
         NEW x \in {"error", "unreadable", "unsafe"}, Refuse(r, x)
  PROVE  Inv'
<1>1. /\ Goto(r, x)
      /\ UNCHANGED <<cacheVars, req, rows, saved, built, served, running>>
  BY DEF Refuse
<1>2. RequestInv(r)'
  BY <1>1, HandOfGoto, NotBuilt
  DEF Inv, RequestInv, Looked, ArgsOf, Answers, Refusals, CreateSteps, LookupSteps, DeleteSteps,
      InHandSteps
<1> QED
  BY <1>1, <1>2, QuietStep DEF Answers, Refusals, InHandSteps

LEMMA BuildFailsKeeps ==
  ASSUME Inv, NEW r \in Requests, pc[r] \in {"connect", "rebuild"}, BuildFails(r)
  PROVE  Inv'
<1>1. PICK x \in {"test_failed", "error"} : Goto(r, x)
  BY DEF BuildFails
<1>2. /\ built' = built \cup {r} /\ disposed' = disposed \cup {r}
      /\ UNCHANGED <<entries, toDispose, req, rows, saved, served, running>>
  BY DEF BuildFails
<1>3. /\ InHand' = InHand /\ pc'[r] = x
      /\ \A q \in Requests \ {r} : pc'[q] = pc[q]
  BY <1>1, HandOfGoto DEF Inv, InHand, InHandSteps
<1>4. Doomed' = Doomed /\ EnginesOf(entries') = EnginesOf(entries) /\ Kept' = Kept \cup {r}
  BY <1>2 DEF Doomed, Kept
<1>5. CacheSafe'
  <2>1. CacheTypeOK' /\ CacheShape'
    <3>1. r \in Engines
      BY OneShot
    <3> QED BY <1>2, <3>1 DEF Inv, CacheSafe, CacheTypeOK, CacheShape
  <2>2. NoUseAfterDispose'
    BY <1>2, <1>4, NotBuilt DEF Inv, CacheSafe, NoUseAfterDispose, Kept
  <2> QED BY <2>1, <2>2 DEF CacheSafe
<1>6. ServiceTypeOK'
  BY <1>1, <1>2, <1>5, TypesKeep DEF Inv, CacheSafe, ServiceTypeOK, Answers, Refusals
<1>7. RequestInv(r)'
  BY <1>2, <1>3, NotBuilt
  DEF Inv, RequestInv, Looked, ArgsOf, Answers, Refusals, CreateSteps, LookupSteps, DeleteSteps,
      InHandSteps
<1>8. \A q \in Requests : RequestInv(q)'
  BY <1>2, <1>3, <1>7, OthersKeep
<1>9. CachedForItsConnection'
  <2>1. \A i \in DOMAIN entries' : From(entries', i, entries)
    BY <1>2 DEF From
  <2> QED BY <1>2, <2>1, CachedKeeps
<1> QED BY <1>2, <1>3, <1>4, <1>5, <1>6, <1>8, <1>9, NotBuilt DEF Inv

LEMMA BuildWorksKeeps ==
  ASSUME Inv, NEW r \in Requests, NEW x, BuildWorks(r, x),
         \/ pc[r] = "connect" /\ x = "insert"
         \/ pc[r] = "rebuild" /\ x = "put_rebuilt"
  PROVE  Inv'
<1>1. /\ Goto(r, x) /\ built' = built \cup {r}
      /\ UNCHANGED <<cacheVars, req, rows, saved, served, running>>
  BY DEF BuildWorks
<1>2. InHand' = InHand \cup {r} /\ pc'[r] = x
  BY <1>1, HandOfGoto DEF Inv, InHandSteps
<1>3. RequestInv(r)'
  BY <1>1, <1>2, NotBuilt
  DEF Inv, RequestInv, Looked, ArgsOf, Answers, Refusals, CreateSteps, LookupSteps, DeleteSteps,
      InHandSteps
<1>4. Kept' = Kept
  BY <1>1, KeptSame DEF Inv
<1>5. built' = InHand' \cup Kept' /\ InHand' \cap Kept' = {}
  BY <1>1, <1>2, <1>4, NotBuilt DEF Inv
<1>6. x \in Steps \cup Answers
  BY DEF Steps
<1>7. rows' \subseteq saved' /\ Kept' = Kept
  BY <1>1, <1>4 DEF Inv
<1> QED BY <1>1, <1>3, <1>4, <1>5, <1>6, <1>7, LocalStep

LEMMA CreateInsertKeeps == ASSUME Inv, NEW r \in Requests, CreateInsert(r) PROVE Inv'
<1>1. /\ Goto(r, "put") /\ pc[r] = "insert"
      /\ rows' = rows \cup {r} /\ saved' = saved \cup {r}
      /\ UNCHANGED <<cacheVars, req, built, served, running>>
  BY DEF CreateInsert, At
<1>2. InHand' = InHand /\ pc'[r] = "put"
  BY <1>1, HandOfGoto DEF Inv, InHand, InHandSteps
<1>3. RequestInv(r)'
  BY <1>1, <1>2
  DEF Inv, RequestInv, Looked, ArgsOf, Answers, Refusals, CreateSteps, LookupSteps, DeleteSteps,
      InHandSteps
<1>4. rows' \subseteq saved' /\ "put" \in Steps
  BY <1>1 DEF Inv, Steps
<1> QED BY <1>1, <1>2, <1>3, <1>4, LocalStep DEF Inv

LEMMA CreateInsertFailsKeeps == ASSUME Inv, NEW r \in Requests, CreateInsertFails(r) PROVE Inv'
<1>1. PICK x \in {"name_taken", "error"} : Goto(r, x)
  BY DEF CreateInsertFails
<1>2. /\ pc[r] = "insert" /\ disposed' = disposed \cup {r}
      /\ UNCHANGED <<entries, toDispose, req, built, served, running>>
  BY DEF CreateInsertFails, At
<1>3. /\ InHand' = InHand \ {r} /\ pc'[r] = x
      /\ \A q \in Requests \ {r} : pc'[q] = pc[q]
  BY <1>1, HandOfGoto DEF Inv, InHandSteps
<1>4. \/ UNCHANGED <<rows, saved>>
      \/ x = "error" /\ rows' = rows \cup {r} /\ saved' = saved \cup {r}
  BY <1>2, <1>3 DEF CreateInsertFails, Goto, Inv, ServiceTypeOK
<1>5. Doomed' = Doomed /\ EnginesOf(entries') = EnginesOf(entries) /\ Kept' = Kept \cup {r}
  BY <1>2 DEF Doomed, Kept
<1>6. r \in InHand /\ r \notin Kept /\ r \in built
  BY <1>2 DEF Inv, InHand
<1>7. CacheSafe'
  <2>1. CacheTypeOK' /\ CacheShape'
    <3>1. r \in Engines
      BY OneShot
    <3> QED BY <1>2, <3>1 DEF Inv, CacheSafe, CacheTypeOK, CacheShape
  <2>2. NoUseAfterDispose'
    BY <1>2, <1>5, <1>6 DEF Inv, CacheSafe, NoUseAfterDispose, Kept
  <2> QED BY <2>1, <2>2 DEF CacheSafe
<1>8. saved \subseteq saved' /\ saved' \subseteq saved \cup {r} /\ rows' \subseteq saved'
  BY <1>4 DEF Inv
<1>9. ServiceTypeOK'
  BY <1>1, <1>2, <1>7, <1>8, TypesKeep DEF Inv, CacheSafe, ServiceTypeOK, Answers, Refusals
<1>10. RequestInv(r)'
  BY <1>2, <1>3, <1>4
  DEF Inv, RequestInv, Looked, ArgsOf, Answers, Refusals, CreateSteps, LookupSteps, DeleteSteps,
      InHandSteps
<1>11. \A q \in Requests : RequestInv(q)'
  BY <1>2, <1>3, <1>8, <1>10, OthersKeep
<1>12. CachedForItsConnection'
  <2>1. \A i \in DOMAIN entries' : From(entries', i, entries)
    BY <1>2 DEF From
  <2> QED BY <1>2, <1>8, <2>1, CachedKeeps
<1>13. built' = InHand' \cup Kept' /\ InHand' \cap Kept' = {}
  BY <1>2, <1>3, <1>5, <1>6 DEF Inv
<1> QED BY <1>7, <1>8, <1>9, <1>11, <1>12, <1>13 DEF Inv

\* A request hands the engine it built to the cache, under id c.
LEMMA HandOver ==
  ASSUME Inv, NEW r \in Requests, Free(r), NEW c \in Requests, Put(r, c, r),
         pc[r] \in {"put", "put_rebuilt"}, req[r].conn = c, c \in saved,
         NEW x \in (Steps \cup Answers) \ InHandSteps, Goto(r, x),
         UNCHANGED <<req, rows, saved, built, running>>,
         served' \in [Requests -> Requests \cup {None}],
         \A q \in Requests \ {r} : served'[q] = served[q],
         RequestInv(r)'
  PROVE  Inv'
<1>1. /\ InHand' = InHand \ {r} /\ pc'[r] = x
      /\ \A q \in Requests \ {r} : pc'[q] = pc[q]
  BY HandOfGoto DEF Inv, InHandSteps
<1>2. r \in InHand /\ r \notin Kept /\ r \in built
  BY DEF Inv, InHand
<1>3. r \in Callers /\ c \in Conns /\ r \in Engines /\ Idle(r) /\ CacheSafe
  BY OneShot DEF Free, Idle, Inv
<1>4. MayPut(c, r)
  BY <1>2 DEF MayPut, Kept, EnginesOf
<1>5. /\ CacheSafe'
      /\ EnginesOf(entries') \cup Doomed' = EnginesOf(entries) \cup Doomed \cup {r}
      /\ \A i \in DOMAIN entries' :
           From(entries', i, entries) \/ (entries'[i].conn = c /\ entries'[i].engine = r)
  BY <1>3, <1>4, PutSafe
<1>6. disposed' = disposed
  BY DEF Put
<1>7. Kept' = Kept \cup {r}
  BY <1>5, <1>6 DEF Kept, EnginesOf
<1>8. built' = InHand' \cup Kept' /\ InHand' \cap Kept' = {}
  BY <1>1, <1>2, <1>7 DEF Inv
<1>9. ServiceTypeOK'
  BY <1>5, TypesKeep DEF Inv, CacheSafe
<1>10. \A q \in Requests : RequestInv(q)'
  BY <1>1, OthersKeep
<1>11. CachedForItsConnection'
  <2> SUFFICES ASSUME NEW i \in DOMAIN entries'
               PROVE  /\ entries'[i].conn = req'[entries'[i].engine].conn
                      /\ entries'[i].conn \in saved'
    BY DEF CachedForItsConnection
  <2>1. CASE From(entries', i, entries)
    <3>1. PICK j \in DOMAIN entries :
            entries'[i].conn = entries[j].conn /\ entries'[i].engine = entries[j].engine
      BY <2>1 DEF From
    <3> QED BY <3>1 DEF Inv, CachedForItsConnection
  <2>2. CASE entries'[i].conn = c /\ entries'[i].engine = r
    BY <2>2
  <2> QED BY <2>1, <2>2, <1>5
<1> QED BY <1>5, <1>8, <1>9, <1>10, <1>11 DEF Inv

LEMMA CreatePutKeeps == ASSUME Inv, NEW r \in Requests, CreatePut(r) PROVE Inv'
<1>1. /\ pc[r] = "put" /\ Free(r) /\ Put(r, r, r) /\ Goto(r, "created")
      /\ UNCHANGED <<req, rows, saved, built, served, running>>
  BY DEF CreatePut, At
<1>2. req[r].conn = r /\ r \in saved
  BY <1>1 DEF Inv, RequestInv, ArgsOf, CreateSteps
<1>3. RequestInv(r)'
  BY <1>1, HandOfGoto
  DEF Inv, RequestInv, Looked, ArgsOf, Answers, Refusals, CreateSteps, LookupSteps, DeleteSteps,
      InHandSteps
<1>4. "created" \in (Steps \cup Answers) \ InHandSteps
  BY DEF Answers, InHandSteps
<1>5. served' \in [Requests -> Requests \cup {None}]
  BY <1>1 DEF Inv, ServiceTypeOK
<1> QED BY <1>1, <1>2, <1>3, <1>4, <1>5, HandOver

LEMMA LookupKeeps == ASSUME Inv, NEW r \in Requests, Lookup(r) PROVE Inv'
<1>1. /\ Goto(r, IF req[r].conn \in RowsOf(req[r].user) THEN "cache_get" ELSE "not_found")
      /\ pc[r] = "lookup"
      /\ UNCHANGED <<cacheVars, req, rows, saved, built, served, running>>
  BY DEF Lookup, At
<1>2. RequestInv(r)'
  BY <1>1, HandOfGoto
  DEF Inv, RequestInv, Looked, RowsOf, Owner, ArgsOf, Answers, Refusals, CreateSteps, LookupSteps,
      DeleteSteps, InHandSteps
<1> QED
  BY <1>1, <1>2, QuietStep DEF Steps, Answers, Refusals, InHandSteps

LEMMA LookupHitKeeps == ASSUME Inv, NEW r \in Requests, LookupHit(r) PROVE Inv'
<1> DEFINE c == req[r].conn
           e == EngineFor(c)
<1>1. /\ pc[r] = "cache_get" /\ GetHit(c) /\ Goto(r, "entry")
      /\ served' = [served EXCEPT ![r] = e]
      /\ UNCHANGED <<req, rows, saved, built, running>>
  BY DEF LookupHit, At
<1>2. c \in Requests /\ Looked(r)
  BY <1>1 DEF Inv, RequestInv, ArgsOf, Args
<1>3. e \in EnginesOf(entries) /\ req[e].conn = c
  <2>1. entries \in Seq(Entry) /\ IsCached(entries, c)
    BY <1>1 DEF Inv, CacheSafe, CacheTypeOK, GetHit
  <2>2. Position(entries, c) \in DOMAIN entries /\ entries[Position(entries, c)].conn = c
    BY <2>1, PositionFinds
  <2> QED BY <2>2 DEF Inv, CachedForItsConnection, EngineFor, EnginesOf
<1>4. e \in built /\ e \in Requests
  BY <1>3 DEF Inv, Kept, ServiceTypeOK
<1> HIDE DEF c, e
<1>5. /\ InHand' = InHand /\ pc'[r] = "entry"
      /\ \A q \in Requests \ {r} : pc'[q] = pc[q]
  BY <1>1, HandOfGoto DEF Inv, InHand, InHandSteps
<1>6. /\ CacheSafe' /\ EnginesOf(entries') = EnginesOf(entries) /\ Doomed' = Doomed
      /\ \A i \in DOMAIN entries' : From(entries', i, entries)
  BY <1>1, <1>2, OneShot, GetHitSafe DEF Inv
<1>7. Kept' = Kept
  <2>1. disposed' = disposed
    BY <1>1 DEF GetHit
  <2> QED BY <1>6, <2>1 DEF Kept, EnginesOf
<1>8. served'[r] = e /\ served' \in [Requests -> Requests \cup {None}]
      /\ \A q \in Requests \ {r} : served'[q] = served[q]
  BY <1>1, <1>4 DEF Inv, ServiceTypeOK
<1>9. ServiceTypeOK'
  BY <1>1, <1>6, <1>8, TypesKeep DEF Inv, CacheSafe, Answers
<1>10. RequestInv(r)'
  <2>1. req[e].conn = req[r].conn
    BY <1>3 DEF c
  <2> QED
    BY <1>1, <1>2, <1>4, <1>5, <1>8, <2>1
    DEF Inv, RequestInv, Looked, ArgsOf, Answers, Refusals, CreateSteps, LookupSteps, DeleteSteps,
        InHandSteps
<1>11. \A q \in Requests : RequestInv(q)'
  BY <1>1, <1>5, <1>8, <1>10, OthersKeep
<1>12. CachedForItsConnection'
  BY <1>1, <1>6, CachedKeeps
<1> QED BY <1>1, <1>5, <1>6, <1>7, <1>9, <1>11, <1>12 DEF Inv

\* A pop by the thread of r, on its way from step to step.
LEMMA PopKeeps ==
  ASSUME Inv, NEW r \in Requests, Free(r), NEW c \in Requests,
         GetExpired(r, c) \/ Evict(r, c), pc[r] \notin InHandSteps,
         NEW x \in (Steps \cup Answers) \ InHandSteps, Goto(r, x),
         UNCHANGED <<req, rows, saved, built, served, running>>, RequestInv(r)'
  PROVE  Inv'
<1>1. /\ InHand' = InHand /\ pc'[r] = x
      /\ \A q \in Requests \ {r} : pc'[q] = pc[q]
  BY HandOfGoto DEF Inv, InHand, InHandSteps
<1>2. /\ CacheSafe'
      /\ EnginesOf(entries') \cup Doomed' = EnginesOf(entries) \cup Doomed
      /\ \A i \in DOMAIN entries' : From(entries', i, entries)
  BY OneShot, PopSafe DEF Free, Idle, Inv
<1>3. Kept' = Kept
  <2>1. disposed' = disposed
    BY DEF GetExpired, Evict
  <2> QED BY <1>2, <2>1 DEF Kept, EnginesOf
<1>4. ServiceTypeOK'
  BY <1>2, TypesKeep DEF Inv, CacheSafe, ServiceTypeOK
<1>5. \A q \in Requests : RequestInv(q)'
  BY <1>1, OthersKeep
<1>6. CachedForItsConnection'
  BY <1>2, CachedKeeps
<1> QED BY <1>1, <1>2, <1>3, <1>4, <1>5, <1>6 DEF Inv

LEMMA LookupMissKeeps == ASSUME Inv, NEW r \in Requests, LookupMiss(r) PROVE Inv'
<1>1. /\ pc[r] = "cache_get" /\ Free(r) /\ Goto(r, "rebuild")
      /\ GetMiss(req[r].conn) \/ GetExpired(r, req[r].conn)
      /\ UNCHANGED <<req, rows, saved, built, served, running>>
  BY DEF LookupMiss, At
<1>2. RequestInv(r)'
  BY <1>1, HandOfGoto
  DEF Inv, RequestInv, Looked, ArgsOf, Answers, Refusals, CreateSteps, LookupSteps, DeleteSteps,
      InHandSteps
<1>3. req[r].conn \in Requests
  BY <1>1 DEF Inv, RequestInv, ArgsOf, Args
<1>4. "rebuild" \in (Steps \cup Answers) \ InHandSteps /\ pc[r] \notin InHandSteps
  BY <1>1 DEF Steps, InHandSteps
<1>5. CASE GetMiss(req[r].conn)
  BY <1>1, <1>2, <1>4, <1>5, QuietStep DEF GetMiss
<1>6. CASE GetExpired(r, req[r].conn)
  BY <1>1, <1>2, <1>3, <1>4, <1>6, PopKeeps
<1> QED BY <1>1, <1>5, <1>6

LEMMA RebuildKeeps == ASSUME Inv, NEW r \in Requests, Rebuild(r) PROVE Inv'
<1>1. pc[r] = "rebuild"
  BY DEF Rebuild, At
<1>2. CASE \E x \in {"error", "unreadable", "unsafe"} : Refuse(r, x)
  BY <1>1, <1>2, RefuseKeeps
<1>3. CASE BuildFails(r)
  BY <1>1, <1>3, BuildFailsKeeps
<1>4. CASE BuildWorks(r, "put_rebuilt")
  BY <1>1, <1>4, BuildWorksKeeps
<1> QED BY <1>2, <1>3, <1>4 DEF Rebuild

LEMMA CreateConnectKeeps == ASSUME Inv, NEW r \in Requests, CreateConnect(r) PROVE Inv'
<1>1. pc[r] = "connect"
  BY DEF CreateConnect, At
<1>2. CASE Refuse(r, "unsafe")
  BY <1>1, <1>2, RefuseKeeps
<1>3. CASE BuildFails(r)
  BY <1>1, <1>3, BuildFailsKeeps
<1>4. CASE BuildWorks(r, "insert")
  BY <1>1, <1>4, BuildWorksKeeps
<1> QED BY <1>2, <1>3, <1>4 DEF CreateConnect

LEMMA RebuildPutKeeps == ASSUME Inv, NEW r \in Requests, RebuildPut(r) PROVE Inv'
<1>1. /\ pc[r] = "put_rebuilt" /\ Free(r) /\ Put(r, req[r].conn, r) /\ Goto(r, "touch")
      /\ served' = [served EXCEPT ![r] = r]
      /\ UNCHANGED <<req, rows, saved, built, running>>
  BY DEF RebuildPut, At
<1>2. Looked(r) /\ req[r].conn \in Requests /\ r \in built
  BY <1>1 DEF Inv, RequestInv, ArgsOf, Args, InHand
<1>3. req[r].conn \in saved
  BY <1>2 DEF Looked
<1>4. /\ served'[r] = r /\ served' \in [Requests -> Requests \cup {None}]
      /\ \A q \in Requests \ {r} : served'[q] = served[q]
  BY <1>1 DEF Inv, ServiceTypeOK
<1>5. RequestInv(r)'
  BY <1>1, <1>2, <1>4, HandOfGoto
  DEF Inv, RequestInv, Looked, ArgsOf, Answers, Refusals, CreateSteps, LookupSteps, DeleteSteps,
      InHandSteps
<1>6. "touch" \in (Steps \cup Answers) \ InHandSteps
  BY DEF Steps, InHandSteps
<1> QED BY <1>1, <1>2, <1>3, <1>4, <1>5, <1>6, HandOver

LEMMA TouchKeeps == ASSUME Inv, NEW r \in Requests, Touch(r) PROVE Inv'
<1>1. /\ Goto(r, "entry") /\ pc[r] = "touch"
      /\ UNCHANGED <<cacheVars, req, rows, saved, built, served, running>>
  BY DEF Touch, At
<1>2. RequestInv(r)'
  BY <1>1, HandOfGoto
  DEF Inv, RequestInv, Looked, ArgsOf, Answers, CreateSteps, LookupSteps, DeleteSteps, InHandSteps
<1> QED
  BY <1>1, <1>2, QuietStep DEF Answers, InHandSteps

LEMMA DeleteRowKeeps ==
  ASSUME Inv, NEW r \in Requests, DeleteRow(r) \/ DeleteRowUnsure(r) PROVE Inv'
<1>1. PICK x \in {"evict", "not_found", "error"} : Goto(r, x)
  BY DEF DeleteRow, DeleteRowUnsure
<1>2. /\ pc[r] = "delete" /\ rows' \subseteq rows
      /\ UNCHANGED <<cacheVars, req, saved, built, served, running>>
  BY DEF DeleteRow, DeleteRowUnsure, At
<1>3. RequestInv(r)'
  BY <1>1, <1>2, HandOfGoto
  DEF Inv, RequestInv, Looked, ArgsOf, Answers, Refusals, CreateSteps, LookupSteps, DeleteSteps,
      InHandSteps
<1> QED
  BY <1>1, <1>2, <1>3, QuietStep DEF Steps, Answers, Refusals, InHandSteps

LEMMA DeleteEvictKeeps == ASSUME Inv, NEW r \in Requests, DeleteEvict(r) PROVE Inv'
<1>1. /\ pc[r] = "evict" /\ Free(r) /\ Goto(r, "deleted") /\ Evict(r, req[r].conn)
      /\ UNCHANGED <<req, rows, saved, built, served, running>>
  BY DEF DeleteEvict, At
<1>2. RequestInv(r)'
  BY <1>1, HandOfGoto
  DEF Inv, RequestInv, Looked, ArgsOf, Answers, Refusals, CreateSteps, LookupSteps, DeleteSteps,
      InHandSteps
<1>3. req[r].conn \in Requests
  BY <1>1 DEF Inv, RequestInv, ArgsOf, Args
<1>4. "deleted" \in (Steps \cup Answers) \ InHandSteps /\ pc[r] \notin InHandSteps
  BY <1>1 DEF Answers, InHandSteps
<1> QED BY <1>1, <1>2, <1>3, <1>4, PopKeeps

\* A step of the cache alone: Dispose, Clear, or Tick.
LEMMA CacheOnlyKeeps ==
  ASSUME Inv, CacheSafe', Kept' = Kept, \A i \in DOMAIN entries' : From(entries', i, entries),
         UNCHANGED <<req, pc, rows, saved, built, served>>, running' \in BOOLEAN
  PROVE  Inv'
<1>1. InHand' = InHand
  BY DEF InHand
<1>2. ServiceTypeOK'
  BY DEF Inv, CacheSafe, ServiceTypeOK
<1>3. \A q \in Requests : RequestInv(q)'
  BY DEF Inv, RequestInv, Looked, ArgsOf
<1>4. CachedForItsConnection'
  BY CachedKeeps
<1> QED BY <1>1, <1>2, <1>3, <1>4 DEF Inv

LEMMA DisposeNextKeeps ==
  ASSUME Inv, NEW k \in Callers, DisposeNext(k) PROVE Inv'
<1>1. Dispose(k) /\ UNCHANGED <<req, pc, rows, saved, built, served, running>>
  BY DEF DisposeNext, serviceVars
<1>2. CacheSafe' /\ entries' = entries /\ Doomed' \cup disposed' = Doomed \cup disposed
  BY <1>1, DisposeSafe DEF Inv
<1>3. Kept' = Kept
  BY <1>2 DEF Kept, EnginesOf
<1>4. \A i \in DOMAIN entries' : From(entries', i, entries)
  BY <1>2 DEF From
<1>5. running' \in BOOLEAN
  BY <1>1 DEF Inv, ServiceTypeOK
<1> QED BY <1>1, <1>2, <1>3, <1>4, <1>5, CacheOnlyKeeps

\* Only Shutdown gives the main thread engines to dispose.
MainIdle == running => toDispose[Main] = {}

LEMMA ShutdownKeeps == ASSUME Inv, MainIdle, Shutdown PROVE Inv'
<1>1. /\ Clear(Main) /\ running' = FALSE /\ Main \in Callers /\ Idle(Main)
      /\ UNCHANGED <<req, pc, rows, saved, built, served>>
  BY OneShot DEF Shutdown, MainIdle, Idle
<1>2. CacheSafe' /\ entries' = <<>> /\ Doomed' = EnginesOf(entries) \cup Doomed
  BY <1>1, ClearSafe DEF Inv
<1>3. EnginesOf(entries') = {} /\ DOMAIN entries' = {} /\ disposed' = disposed
  BY <1>1, <1>2 DEF EnginesOf, Clear
<1>4. Kept' = Kept
  BY <1>2, <1>3 DEF Kept, EnginesOf
<1> QED BY <1>1, <1>2, <1>3, <1>4, CacheOnlyKeeps

LEMMA ClockKeeps == ASSUME Inv, Clock PROVE Inv'
<1>1. Tick /\ UNCHANGED <<req, pc, rows, saved, built, served, running>>
  BY DEF Clock, serviceVars
<1>2. /\ CacheSafe' /\ EnginesOf(entries') = EnginesOf(entries) /\ Doomed' = Doomed
      /\ \A i \in DOMAIN entries' : From(entries', i, entries)
  BY <1>1, TickSafe DEF Inv
<1>3. Kept' = Kept
  BY <1>1, <1>2 DEF Kept, EnginesOf, Tick
<1>4. running' \in BOOLEAN
  BY <1>1 DEF Inv, ServiceTypeOK
<1> QED BY <1>1, <1>2, <1>3, <1>4, CacheOnlyKeeps

LEMMA StepKeeps == ASSUME Inv, NEW r \in Requests, Step(r) PROVE Inv'
<1>1. r \in Callers
  BY OneShot
<1> QED
  BY <1>1, CreateCheckKeeps, CreateConnectKeeps, CreateInsertKeeps, CreateInsertFailsKeeps,
     CreatePutKeeps, LookupKeeps, LookupHitKeeps, LookupMissKeeps, RebuildKeeps, RebuildPutKeeps,
     TouchKeeps, DeleteRowKeeps, DeleteEvictKeeps, ControlPlaneErrorKeeps, DisposeNextKeeps
  DEF Step

\* The main thread's list.
LEMMA MainIdleKeeps == ASSUME Inv, MainIdle, [Next]_vars PROVE MainIdle'
<1>1. /\ toDispose \in [Callers -> SUBSET Engines] /\ Main \in Callers
      /\ \A r \in Requests : r # Main
  BY OneShot DEF Inv, CacheSafe, CacheTypeOK
<1>2. CASE UNCHANGED vars
  BY <1>2 DEF MainIdle, vars
<1>3. ASSUME NEW r \in Requests, Begin(r) PROVE MainIdle'
  BY <1>3 DEF Begin, MainIdle, cacheVars
<1>4. ASSUME NEW r \in Requests, Step(r) PROVE MainIdle'
  <2>1. running' = running
    BY <1>4 DEF Step, CreateCheck, CreateConnect, CreateInsert, CreateInsertFails, CreatePut, Lookup,
      LookupHit, LookupMiss, Rebuild, RebuildPut, Touch, DeleteRow, DeleteRowUnsure, DeleteEvict,
      ControlPlaneError, DisposeNext, Refuse, BuildFails, BuildWorks, serviceVars
  <2>2. toDispose' = toDispose \/ \E d : toDispose' = [toDispose EXCEPT ![r] = d]
    BY <1>4 DEF Step, CreateCheck, CreateConnect, CreateInsert, CreateInsertFails, CreatePut, Lookup,
      LookupHit, LookupMiss, Rebuild, RebuildPut, Touch, DeleteRow, DeleteRowUnsure, DeleteEvict,
      ControlPlaneError, DisposeNext, Refuse, BuildFails, BuildWorks, cacheVars,
      Put, GetHit, GetMiss, GetExpired, Evict, Dispose
  <2> QED BY <1>1, <2>1, <2>2 DEF MainIdle
<1>5. CASE DisposeNext(Main)
  <2>1. \E e \in toDispose[Main] : TRUE
    BY <1>5 DEF DisposeNext, Dispose
  <2> QED BY <1>5, <2>1 DEF MainIdle, DisposeNext, serviceVars
<1>6. CASE Shutdown
  BY <1>6 DEF Shutdown, MainIdle
<1>7. CASE Clock
  BY <1>7 DEF Clock, Tick, MainIdle, serviceVars
<1> QED BY <1>2, <1>3, <1>4, <1>5, <1>6, <1>7 DEF Next

LEMMA InvInit == Init => Inv /\ MainIdle
<1> SUFFICES ASSUME Init PROVE Inv /\ MainIdle
  OBVIOUS
<1>1. /\ entries = <<>> /\ entries \in Seq(Entry) /\ Len(entries) = 0 /\ DOMAIN entries = {}
      /\ toDispose = [k \in Callers |-> {}] /\ disposed = {}
  BY DEF Init, CacheInit
<1>2. Doomed = {} /\ EnginesOf(entries) = {} /\ Kept = {}
  BY <1>1 DEF Doomed, EnginesOf, Kept
<1>3. CacheSafe
  BY <1>1, <1>2, CacheAssumption DEF CacheSafe, CacheTypeOK, CacheShape, NoUseAfterDispose
<1>4. /\ req = [r \in Requests |-> None] /\ pc = [r \in Requests |-> "idle"]
      /\ rows = {} /\ saved = {} /\ built = {}
      /\ served = [r \in Requests |-> None] /\ running = TRUE
  BY DEF Init
<1>5. ServiceTypeOK
  BY <1>3, <1>4 DEF ServiceTypeOK, CacheSafe
<1>6. \A r \in Requests : RequestInv(r)
  BY <1>4 DEF RequestInv, CreateSteps, LookupSteps, DeleteSteps
<1>7. InHand = {}
  BY <1>4 DEF InHand
<1>8. CachedForItsConnection
  BY <1>1 DEF CachedForItsConnection
<1>9. Main \in Callers
  BY OneShot
<1>10. MainIdle
  BY <1>1, <1>9 DEF MainIdle
<1> QED BY <1>2, <1>3, <1>4, <1>5, <1>6, <1>7, <1>8, <1>10 DEF Inv

LEMMA InvNext == Inv /\ MainIdle /\ [Next]_vars => Inv' /\ MainIdle'
<1> SUFFICES ASSUME Inv, MainIdle, [Next]_vars PROVE Inv' /\ MainIdle'
  OBVIOUS
<1>1. MainIdle'
  BY MainIdleKeeps
<1>2. CASE UNCHANGED vars
  <2>1. UNCHANGED cacheVars /\ UNCHANGED <<req, pc, rows, saved, built, served, running>>
    BY <1>2 DEF vars, cacheVars
  <2>2. CacheSafe' /\ Kept' = Kept /\ entries' = entries
    BY <2>1, KeptSame DEF Inv, cacheVars
  <2>3. \A i \in DOMAIN entries' : From(entries', i, entries)
    BY <2>2 DEF From
  <2>4. running' \in BOOLEAN
    BY <2>1 DEF Inv, ServiceTypeOK
  <2> QED BY <1>1, <2>1, <2>2, <2>3, <2>4, CacheOnlyKeeps
<1>3. CASE Next
  <2>1. Main \in Callers
    BY OneShot
  <2> QED
    BY <1>1, <1>3, <2>1, BeginKeeps, StepKeeps, DisposeNextKeeps, ShutdownKeeps, ClockKeeps DEF Next
<1> QED BY <1>2, <1>3

-----------------------------------------------------------------------------
(* The limit, and the shutdown *)

\* What a step of r leaves alone.
LEMMA StepFrame ==
  ASSUME Inv, NEW r \in Requests, Step(r)
  PROVE  /\ r \in Active
         /\ UNCHANGED <<req, running>>
         /\ \A q \in Requests \ {r} : pc'[q] = pc[q] /\ toDispose'[q] = toDispose[q]
<1>1. toDispose \in [Callers -> SUBSET Engines] /\ pc \in [Requests -> {"idle"} \cup Steps \cup Answers]
  BY DEF Inv, ServiceTypeOK, CacheTypeOK
<1>2. \A q \in Requests : q \in Callers
  BY OneShot
<1>3. r \in Active /\ UNCHANGED <<req, running>>
  BY <1>1
  DEF Step, CreateCheck, CreateConnect, CreateInsert, CreateInsertFails, CreatePut, Lookup,
      LookupHit, LookupMiss, Rebuild, RebuildPut, Touch, DeleteRow, DeleteRowUnsure, DeleteEvict,
      ControlPlaneError, DisposeNext, Dispose, Refuse, BuildFails, BuildWorks, serviceVars, At,
      Active, Steps
<1>4. pc' = pc \/ \E x : pc' = [pc EXCEPT ![r] = x]
  BY DEF Step, CreateCheck, CreateConnect, CreateInsert, CreateInsertFails, CreatePut, Lookup,
      LookupHit, LookupMiss, Rebuild, RebuildPut, Touch, DeleteRow, DeleteRowUnsure, DeleteEvict,
      ControlPlaneError, DisposeNext, Refuse, BuildFails, BuildWorks, serviceVars, Goto
<1>5. toDispose' = toDispose \/ \E d : toDispose' = [toDispose EXCEPT ![r] = d]
  BY DEF Step, CreateCheck, CreateConnect, CreateInsert, CreateInsertFails, CreatePut, Lookup,
      LookupHit, LookupMiss, Rebuild, RebuildPut, Touch, DeleteRow, DeleteRowUnsure, DeleteEvict,
      ControlPlaneError, DisposeNext, Refuse, BuildFails, BuildWorks, cacheVars,
      Put, GetHit, GetMiss, GetExpired, Evict, Dispose
<1> QED BY <1>1, <1>2, <1>3, <1>4, <1>5

\* Requests past the check of the limit whose row is not inserted yet.
Inserting == {r \in Requests : pc[r] \in {"connect", "insert"}}

\* The rows of u, and those that may still come without another check.
Claim(u) == RowsOf(u) \cup {r \in Inserting : req[r].user = u}

LimitInv ==
  /\ Cardinality(Active) <= PoolSize
  /\ \A u \in Users : Cardinality(Claim(u)) <= MaxConnectionsPerUser - 1 + PoolSize

\* Everything counted here is finite.
LEMMA Finite ==
  ASSUME Inv, NEW u
  PROVE  /\ IsFiniteSet(Active) /\ Cardinality(Active) \in Nat
         /\ IsFiniteSet(Claim(u)) /\ Cardinality(Claim(u)) \in Nat
         /\ IsFiniteSet(RowsOf(u)) /\ Cardinality(RowsOf(u)) \in Nat
<1>1. Active \subseteq Requests /\ Claim(u) \subseteq Requests /\ RowsOf(u) \subseteq Requests
  BY DEF Active, Claim, RowsOf, Inserting, Inv, ServiceTypeOK
<1> QED BY <1>1, ServiceAssumption, FS_Subset, FS_CardinalityType

LEMMA PoolBound ==
  ASSUME Inv, Cardinality(Active) <= PoolSize, [Next]_vars
  PROVE  Cardinality(Active') <= PoolSize
<1>1. IsFiniteSet(Active) /\ Cardinality(Active) \in Nat
  BY Finite
<1>2. CASE Active' \subseteq Active
  BY <1>1, <1>2, FS_Subset, FS_CardinalityType, ServiceAssumption
<1>3. ASSUME NEW r \in Requests, Begin(r) PROVE Cardinality(Active') <= PoolSize
  <2>1. Active' \subseteq Active \cup {r}
    BY <1>3 DEF Begin, Active, Goto, cacheVars, Inv, ServiceTypeOK
  <2>2. Cardinality(Active) + 1 <= PoolSize
    BY <1>1, <1>3, ServiceAssumption DEF Begin
  <2>3. /\ IsFiniteSet(Active \cup {r})
        /\ Cardinality(Active \cup {r}) \in Nat
        /\ Cardinality(Active \cup {r}) <= Cardinality(Active) + 1
    <3> DEFINE A == Active
               B == A \cup {r}
    <3>1. IsFiniteSet(A) /\ Cardinality(A) \in Nat
      BY <1>1
    <3> HIDE DEF A
    <3>2. IsFiniteSet(B) /\ Cardinality(B) = IF r \in A THEN Cardinality(A) ELSE Cardinality(A) + 1
      BY <3>1, FS_AddElement
    <3>3. Cardinality(B) \in Nat /\ Cardinality(B) <= Cardinality(A) + 1
      BY <3>1, <3>2
    <3> QED BY <3>2, <3>3 DEF A
  <2>4. Cardinality(Active') <= Cardinality(Active \cup {r}) /\ Cardinality(Active') \in Nat
    BY <2>1, <2>3, FS_Subset, FS_CardinalityType
  <2> QED BY <1>1, <2>2, <2>3, <2>4, ServiceAssumption
<1>4. ASSUME NEW r \in Requests, Step(r) PROVE Active' \subseteq Active
  BY <1>4, StepFrame DEF Active
<1>5. CASE DisposeNext(Main) \/ Shutdown \/ Clock \/ UNCHANGED vars
  <2>1. Main \in Callers /\ Main \notin Requests /\ toDispose \in [Callers -> SUBSET Engines]
        /\ Requests \subseteq Callers
    BY OneShot DEF Inv, ServiceTypeOK, CacheTypeOK
  <2>2. pc' = pc
    BY <1>5 DEF DisposeNext, Shutdown, Clock, vars, serviceVars
  <2>3. toDispose' = toDispose \/ \E d : toDispose' = [toDispose EXCEPT ![Main] = d]
    BY <1>5 DEF DisposeNext, Shutdown, Clock, vars, Dispose, Clear, Tick
  <2>4. Active' \subseteq Active
    BY <2>1, <2>2, <2>3 DEF Active
  <2> QED BY <1>2, <2>4
<1> QED BY <1>2, <1>3, <1>4, <1>5 DEF Next

\* Rows appear by CreateInsert and CreateInsertFails only.
LEMMA RowsFrame ==
  ASSUME NEW r \in Requests, Step(r)
  PROVE  rows' \subseteq rows \/ (pc[r] = "insert" /\ rows' \subseteq rows \cup {r})
BY DEF Step, CreateCheck, CreateConnect, CreateInsert, CreateInsertFails, CreatePut, Lookup,
      LookupHit, LookupMiss, Rebuild, RebuildPut, Touch, DeleteRow, DeleteRowUnsure, DeleteEvict,
      ControlPlaneError, DisposeNext, Refuse, BuildFails, BuildWorks, serviceVars, At

\* A request gets to insert only through the check and the test.
LEMMA InsertingFrame ==
  ASSUME Inv, NEW r \in Requests, Step(r), r \notin Inserting, r \in Inserting'
  PROVE  CreateCheck(r) /\ Usage(r) = "connect"
<1>1. ~CreateCheck(r) => \/ pc' = pc
                         \/ pc[r] \in {"connect", "insert"}
                         \/ \E x \in (Steps \cup Answers) \ {"connect", "insert"} : Goto(r, x)
  BY DEF Step, CreateConnect, CreateInsert, CreateInsertFails, CreatePut, Lookup,
      LookupHit, LookupMiss, Rebuild, RebuildPut, Touch, DeleteRow, DeleteRowUnsure, DeleteEvict,
      ControlPlaneError, DisposeNext, Refuse, BuildFails, BuildWorks, serviceVars, At, Steps,
      Answers, Refusals
<1>2. pc[r] \notin {"connect", "insert"} /\ pc'[r] \in {"connect", "insert"}
  BY DEF Inserting
<1>3. CreateCheck(r)
  BY <1>1, <1>2 DEF Goto, Inv, ServiceTypeOK
<1>4. pc'[r] = Usage(r)
  BY <1>3 DEF CreateCheck, Goto, Inv, ServiceTypeOK
<1> QED BY <1>2, <1>3, <1>4 DEF Usage

LEMMA ClaimBound ==
  ASSUME Inv, Inv', LimitInv, [Next]_vars, NEW u \in Users
  PROVE  Cardinality(Claim(u)') <= MaxConnectionsPerUser - 1 + PoolSize
<1>1. /\ IsFiniteSet(Claim(u)) /\ Cardinality(Claim(u)) \in Nat
      /\ Cardinality(Claim(u)) <= MaxConnectionsPerUser - 1 + PoolSize
  BY Finite DEF LimitInv
<1>2. CASE Claim(u)' \subseteq Claim(u)
  <2>1. Cardinality(Claim(u)') <= Cardinality(Claim(u)) /\ Cardinality(Claim(u)') \in Nat
    BY <1>1, <1>2, FS_Subset, FS_CardinalityType
  <2> QED BY <1>1, <2>1, ServiceAssumption
<1>3. ASSUME NEW r \in Requests, Begin(r) PROVE Claim(u)' \subseteq Claim(u)
  <2>1. PICK a \in ArgsOf(r) : req' = [req EXCEPT ![r] = a] /\ Goto(r, FirstStep(a.op))
    BY <1>3 DEF Begin
  <2>2. /\ pc[r] = "idle" /\ rows' = rows /\ FirstStep(a.op) \in {"check", "lookup", "delete"}
        /\ r \notin rows
    BY <1>3 DEF Begin, FirstStep, Inv, RequestInv
  <2> QED BY <2>1, <2>2 DEF Claim, RowsOf, Owner, Inserting, Goto, Inv, ServiceTypeOK
<1>4. ASSUME NEW r \in Requests, Step(r), r \in Inserting \/ r \notin Inserting'
      PROVE  Claim(u)' \subseteq Claim(u)
  <2>1. /\ req' = req
        /\ \A q \in Requests \ {r} : pc'[q] = pc[q]
    BY <1>4, StepFrame
  <2>2. rows' \subseteq rows \/ (pc[r] = "insert" /\ rows' \subseteq rows \cup {r})
    BY <1>4, RowsFrame
  <2> QED BY <1>4, <2>1, <2>2 DEF Claim, RowsOf, Owner, Inserting
<1>5. ASSUME NEW r \in Requests, Step(r), r \notin Inserting, r \in Inserting'
      PROVE  Cardinality(Claim(u)') <= MaxConnectionsPerUser - 1 + PoolSize
  <2>1. CreateCheck(r) /\ Usage(r) = "connect"
    BY <1>5, InsertingFrame
  <2>2. /\ rows' = rows /\ req' = req /\ r \in Active
        /\ \A q \in Requests \ {r} : pc'[q] = pc[q]
    BY <1>5, <2>1, StepFrame DEF CreateCheck
  <2>3. CASE req[r].user # u
    <3>1. Claim(u)' \subseteq Claim(u)
      BY <2>2, <2>3 DEF Claim, RowsOf, Owner, Inserting
    <3> QED BY <1>2, <3>1
  <2>4. CASE req[r].user = u
    <3>1. Claim(u)' \subseteq RowsOf(u) \cup Active
      BY <2>2 DEF Claim, RowsOf, Owner, Inserting, Active, Steps
    <3>2. /\ IsFiniteSet(RowsOf(u)) /\ Cardinality(RowsOf(u)) \in Nat
          /\ IsFiniteSet(Active) /\ Cardinality(Active) \in Nat
      BY Finite
    <3>3. Cardinality(RowsOf(u)) <= MaxConnectionsPerUser - 1
      BY <2>1, <2>4, <3>2, ServiceAssumption DEF Usage
    <3>4. /\ IsFiniteSet(RowsOf(u) \cup Active)
          /\ Cardinality(RowsOf(u) \cup Active) =
               Cardinality(RowsOf(u)) + Cardinality(Active) - Cardinality(RowsOf(u) \cap Active)
      BY <3>2, FS_Union
    <3>5. Cardinality(RowsOf(u) \cap Active) \in Nat
      BY <3>2, FS_Subset, FS_CardinalityType
    <3>6. Cardinality(RowsOf(u) \cup Active) \in Nat
      BY <3>4, FS_CardinalityType
    <3>7. /\ Cardinality(Claim(u)') <= Cardinality(RowsOf(u) \cup Active)
          /\ Cardinality(Claim(u)') \in Nat
      BY <3>1, <3>4, FS_Subset, FS_CardinalityType
    <3>8. Cardinality(Active) <= PoolSize
      BY DEF LimitInv
    <3> QED BY <3>2, <3>3, <3>4, <3>5, <3>6, <3>7, <3>8, ServiceAssumption
  <2> QED BY <2>3, <2>4
<1>6. CASE DisposeNext(Main) \/ Shutdown \/ Clock \/ UNCHANGED vars
  <2>1. UNCHANGED <<req, pc, rows>>
    BY <1>6 DEF DisposeNext, Shutdown, Clock, vars, serviceVars
  <2>2. Claim(u)' = Claim(u)
    BY <2>1 DEF Claim, RowsOf, Owner, Inserting
  <2> QED BY <1>2, <2>2
<1> QED BY <1>2, <1>3, <1>4, <1>5, <1>6 DEF Next

LEMMA LimitInit == Init => LimitInv
<1> SUFFICES ASSUME Init PROVE LimitInv
  OBVIOUS
<1>1. Requests \subseteq Callers
  BY OneShot
<1>2. Active = {}
  BY <1>1 DEF Init, CacheInit, Active, Steps
<1>3. \A u : Claim(u) = {}
  BY DEF Init, Claim, RowsOf, Inserting
<1> QED BY <1>2, <1>3, FS_EmptySet, ServiceAssumption DEF LimitInv

\* After the shutdown nothing is at work, and the cache is empty.
Quiet == ~running => Active = {} /\ entries = <<>>

LEMMA QuietKeeps == ASSUME Inv, Quiet, [Next]_vars PROVE Quiet'
<1>1. /\ Main \in Callers /\ Main \notin Requests /\ Requests \subseteq Callers
      /\ toDispose \in [Callers -> SUBSET Engines]
  BY OneShot DEF Inv, ServiceTypeOK, CacheTypeOK
<1>2. ASSUME NEW r \in Requests, Begin(r) \/ Step(r) PROVE Quiet'
  <2>1. running /\ running' = running
    BY <1>2, StepFrame DEF Begin, Quiet, Inv, ServiceTypeOK
  <2> QED BY <2>1 DEF Quiet
<1>3. CASE DisposeNext(Main)
  <2>1. /\ entries' = entries /\ pc' = pc /\ running' = running
        /\ \E d : toDispose' = [toDispose EXCEPT ![Main] = d]
    BY <1>3 DEF DisposeNext, Dispose, serviceVars
  <2> QED BY <1>1, <2>1 DEF Quiet, Active
<1>4. CASE Shutdown
  <2>1. /\ Active = {} /\ entries' = <<>> /\ pc' = pc
        /\ \E d : toDispose' = [toDispose EXCEPT ![Main] = d]
    BY <1>4 DEF Shutdown, Clear
  <2> QED BY <1>1, <2>1 DEF Quiet, Active
<1>5. CASE Clock
  BY <1>5 DEF Clock, serviceVars, Quiet
<1>6. CASE UNCHANGED vars
  BY <1>6 DEF vars, Quiet, Active
<1> QED BY <1>2, <1>3, <1>4, <1>5, <1>6 DEF Next

-----------------------------------------------------------------------------
(* Theorems *)

\* Every variable of the service keeps its type.
THEOREM ServiceTypeCorrect == Spec => []ServiceTypeOK
<1>1. Inv => ServiceTypeOK
  BY InvImplies
<1> QED BY <1>1, InvInit, InvNext, PTL DEF Spec

(***************************************************************************)
(* No engine leaks or is disposed while it can still be handed out: each   *)
(* has exactly one keeper at every moment, whatever requests interleave.   *)
(***************************************************************************)
THEOREM EnginesAreKept == Spec => []EngineHasOneKeeper
<1>1. Inv => EngineHasOneKeeper
  BY InvImplies
<1> QED BY <1>1, InvInit, InvNext, PTL DEF Spec

(***************************************************************************)
(* A user is only ever served engines of connections that user saved.      *)
(***************************************************************************)
THEOREM TenantsAreIsolated == Spec => [](CachedForItsConnection /\ ServedToOwner)
<1>1. Inv => CachedForItsConnection /\ ServedToOwner
  BY InvImplies
<1> QED BY <1>1, InvInit, InvNext, PTL DEF Spec

(***************************************************************************)
(* The limit can be passed, and this is by how much: one less than the     *)
(* number of threads that run requests.                                    *)
(***************************************************************************)
THEOREM LimitHolds == Spec => []LimitBound
<1>1. Inv /\ LimitInv => LimitBound
  <2> SUFFICES ASSUME Inv, LimitInv, NEW u \in Users
               PROVE  Cardinality(RowsOf(u)) <= MaxConnectionsPerUser - 1 + PoolSize
    BY DEF LimitBound
  <2>1. /\ IsFiniteSet(Claim(u)) /\ Cardinality(Claim(u)) \in Nat
        /\ Cardinality(RowsOf(u)) \in Nat
    BY Finite
  <2>2. Cardinality(RowsOf(u)) <= Cardinality(Claim(u))
    BY <2>1, FS_Subset DEF Claim
  <2>3. Cardinality(Claim(u)) <= MaxConnectionsPerUser - 1 + PoolSize
    BY DEF LimitInv
  <2> QED BY <2>1, <2>2, <2>3, ServiceAssumption
<1>2. Inv /\ MainIdle /\ LimitInv /\ [Next]_vars => LimitInv'
  BY InvNext, PoolBound, ClaimBound DEF LimitInv
<1> QED BY <1>1, <1>2, InvInit, InvNext, LimitInit, PTL DEF Spec

(***************************************************************************)
(* When the application has shut down and disposed what it cleared, every  *)
(* engine it ever built is disposed.                                       *)
(***************************************************************************)
THEOREM ShutdownIsClean == Spec => []ShutdownReleasesAll
<1>1. Init => Quiet
  BY DEF Init, Quiet
<1>2. Inv /\ Quiet => ShutdownReleasesAll
  <2> SUFFICES ASSUME Inv, Quiet, ~running, Doomed = {} PROVE disposed = built
    BY DEF ShutdownReleasesAll
  <2>1. InHand = {}
    BY DEF Quiet, Active, InHand, Steps
  <2>2. EnginesOf(entries) = {}
    BY DEF Quiet, EnginesOf
  <2> QED BY <2>1, <2>2 DEF Inv, Kept
<1>3. Inv /\ Quiet /\ [Next]_vars => Quiet'
  BY QuietKeeps
<1> QED BY <1>1, <1>2, <1>3, InvInit, InvNext, PTL DEF Spec

(***************************************************************************)
(* A request that looks up a deleted connection is refused, and a refusal  *)
(* is final, whatever the cache still holds.                               *)
(***************************************************************************)
THEOREM DeletedStaysUnserved == Spec => DeletedIsNotServed
<1> DEFINE Gone(q) == \/ pc[q] = "lookup" /\ req[q].conn \in saved \ rows
                      \/ pc[q] \in {"not_found", "error"}
<1>1. Inv /\ [Next]_vars
      => [\A r \in Requests :
            \/ pc[r] = "lookup" /\ req[r].conn \in saved \ rows
            \/ pc[r] \in {"not_found", "error"}
            => pc'[r] \in {pc[r], "not_found", "error"}]_vars
  <2> SUFFICES ASSUME Inv, [Next]_vars, NEW q \in Requests, Gone(q)
               PROVE  pc'[q] \in {pc[q], "not_found", "error"}
    BY Zenon
  <2>1. pc \in [Requests -> {"idle"} \cup Steps \cup Answers]
    BY DEF Inv, ServiceTypeOK
  <2>2. ASSUME NEW r \in Requests, Begin(r) PROVE pc'[q] \in {pc[q], "not_found", "error"}
    <3>1. q # r
      BY <2>2 DEF Begin
    <3> QED BY <2>1, <2>2, <3>1 DEF Begin, Goto
  <2>3. ASSUME NEW r \in Requests, Step(r) PROVE pc'[q] \in {pc[q], "not_found", "error"}
    <3>1. CASE q # r
      BY <2>3, <3>1, StepFrame
    <3>2. CASE q = r /\ (Lookup(r) \/ ControlPlaneError(r))
      BY <2>1, <3>2 DEF Lookup, ControlPlaneError, RowsOf, Goto, At
    <3>3. CASE q = r /\ ~(Lookup(r) \/ ControlPlaneError(r))
      BY <2>3, <3>3
      DEF Step, CreateCheck, CreateConnect, CreateInsert, CreateInsertFails, CreatePut, LookupHit,
          LookupMiss, Rebuild, RebuildPut, Touch, DeleteRow, DeleteRowUnsure, DeleteEvict,
          DisposeNext, serviceVars, At
    <3> QED BY <3>1, <3>2, <3>3
  <2>4. CASE DisposeNext(Main) \/ Shutdown \/ Clock \/ UNCHANGED vars
    BY <2>4 DEF DisposeNext, Shutdown, Clock, vars, serviceVars
  <2> QED BY <2>2, <2>3, <2>4 DEF Next
<1> QED BY <1>1, InvInit, InvNext, PTL DEF Spec, DeletedIsNotServed

\* An engine that a refused request built is disposed.
RefusedDisposed == \A r \in Requests : pc[r] \in Refusals /\ r \in built => r \in disposed

LEMMA RefusedDisposedKeeps ==
  ASSUME Inv, RefusedDisposed, [Next]_vars
  PROVE  RefusedDisposed'
<1> SUFFICES ASSUME NEW q \in Requests, pc'[q] \in Refusals, q \in built'
             PROVE  q \in disposed'
  BY DEF RefusedDisposed
<1>1. pc \in [Requests -> {"idle"} \cup Steps \cup Answers]
  BY DEF Inv, ServiceTypeOK
<1>2. ASSUME UNCHANGED <<pc, built>>, disposed \subseteq disposed' PROVE q \in disposed'
  BY <1>2 DEF RefusedDisposed
<1>3. ASSUME NEW r \in Requests, Begin(r) PROVE q \in disposed'
  <2>1. built' = built /\ disposed' = disposed /\ q # r
    BY <1>1, <1>3
    DEF Begin, Goto, FirstStep, cacheVars, Refusals, ArgsOf, Args
  <2> QED BY <1>1, <1>3, <2>1 DEF Begin, Goto, RefusedDisposed
<1>4. ASSUME NEW r \in Requests, Step(r) PROVE q \in disposed'
  <2>1. disposed \subseteq disposed' /\ built' \subseteq built \cup {r}
    BY <1>4
    DEF Step, CreateCheck, CreateConnect, CreateInsert, CreateInsertFails, CreatePut, Lookup,
        LookupHit, LookupMiss, Rebuild, RebuildPut, Touch, DeleteRow, DeleteRowUnsure, DeleteEvict,
        ControlPlaneError, DisposeNext, Refuse, BuildFails, BuildWorks, serviceVars, cacheVars,
        Put, GetHit, GetMiss, GetExpired, Evict, Dispose
  <2>2. CASE q # r
    BY <1>4, <2>1, <2>2, StepFrame DEF RefusedDisposed
  <2>3. CASE q = r /\ r \notin built
    BY <1>1, <1>4, <2>3
    DEF Step, CreateCheck, CreateConnect, CreateInsert, CreateInsertFails, CreatePut, Lookup,
        LookupHit, LookupMiss, Rebuild, RebuildPut, Touch, DeleteRow, DeleteRowUnsure, DeleteEvict,
        ControlPlaneError, DisposeNext, Refuse, BuildFails, BuildWorks, serviceVars,
        Goto, Refusals
  <2>4. CASE q = r /\ r \in built
    <3>1. pc[r] \in InHandSteps \cup {"touch"} \cup Answers
      BY <2>4 DEF Inv, RequestInv
    <3> QED
      BY <1>1, <1>4, <2>1, <2>4, <3>1
      DEF Step, CreateCheck, CreateConnect, CreateInsert, CreateInsertFails, CreatePut, Lookup,
          LookupHit, LookupMiss, Rebuild, RebuildPut, Touch, DeleteRow, DeleteRowUnsure, DeleteEvict,
          ControlPlaneError, DisposeNext, serviceVars, At, Goto, Refusals, Answers, InHandSteps,
          RefusedDisposed
  <2> QED BY <2>2, <2>3, <2>4
<1>5. CASE DisposeNext(Main) \/ Shutdown \/ Clock \/ UNCHANGED vars
  BY <1>2, <1>5 DEF DisposeNext, Dispose, Shutdown, Clear, Clock, Tick, vars, serviceVars
<1> QED BY <1>3, <1>4, <1>5 DEF Next

(***************************************************************************)
(* A refusal leaves no row, no cached engine, no open engine and no served *)
(* one, at whatever point of the request it is made.                       *)
(***************************************************************************)
THEOREM RefusalsAreClean == Spec => []RefusalsLeaveNothing
<1>1. Init => RefusedDisposed
  BY DEF Init, RefusedDisposed
<1>2. Inv /\ RefusedDisposed => RefusalsLeaveNothing
  <2> SUFFICES ASSUME Inv, RefusedDisposed, NEW r \in Requests, pc[r] \in Refusals
               PROVE  /\ r \notin rows \cup EnginesOf(entries)
                      /\ r \in built => r \in disposed
                      /\ served[r] = None
    BY DEF RefusalsLeaveNothing
  <2>1. r \in built => r \in disposed
    BY DEF RefusedDisposed
  <2>2. r \notin saved /\ served[r] = None
    BY DEF Inv, RequestInv, Refusals
  <2>3. r \notin EnginesOf(entries)
    BY <2>1 DEF Inv, Kept, CacheSafe, NoUseAfterDispose
  <2> QED BY <2>1, <2>2, <2>3 DEF Inv
<1>3. Inv /\ RefusedDisposed /\ [Next]_vars => RefusedDisposed'
  BY RefusedDisposedKeeps
<1> QED BY <1>1, <1>2, <1>3, InvInit, InvNext, PTL DEF Spec

-----------------------------------------------------------------------------
(* The service is a client the cache was checked with *)

\* Requests that have put the engine they built into the cache, if they built one.
Handed == {r \in Requests : pc[r] \in {"created", "touch", "entry"}}

(***************************************************************************)
(* The cache as the service uses it: of the engines that are disposed, it  *)
(* knows those it was handed.  The others never got there: their builders  *)
(* disposed them.  The instance is of the module with the cache's theorems;*)
(* the history that one of them is stated on is not kept here.             *)
(***************************************************************************)
CacheOf == INSTANCE CacheStoreProofs WITH
  disposed <- disposed \cap Handed,
  NoEngine <- None,
  since <- [c \in Conns |-> {}]

\* The operators on dictionaries do not depend on what is disposed.
LEMMA SameEntries ==
  /\ \A s, c : CacheOf!IsCached(s, c) = IsCached(s, c)
  /\ \A s, c : CacheOf!Position(s, c) = Position(s, c)
  /\ \A s, c : CacheOf!Without(s, c) = Without(s, c)
  /\ \A s, c : CacheOf!Popped(s, c) = Popped(s, c)
  /\ \A s : CacheOf!EnginesOf(s) = EnginesOf(s)
  /\ \A s : CacheOf!Oldest(s) = Oldest(s) /\ CacheOf!Trimmed(s) = Trimmed(s)
  /\ \A s, c, e : CacheOf!Filled(s, c, e) = Filled(s, c, e)
  /\ CacheOf!Doomed = Doomed
BY DEF CacheOf!IsCached, IsCached, CacheOf!Position, Position, CacheOf!Without, Without,
       CacheOf!RemoveAt, RemoveAt, CacheOf!Popped, Popped, CacheOf!EnginesOf, EnginesOf,
       CacheOf!Surplus, Surplus, CacheOf!Oldest, Oldest, CacheOf!Trimmed, Trimmed,
       CacheOf!Filled, Filled, CacheOf!Doomed, Doomed

\* An operation that disposes nothing the cache was handed is that operation there.
LEMMA SameOperations ==
  ASSUME UNCHANGED (disposed \cap Handed), NEW k, NEW c, NEW e
  PROVE  /\ GetHit(c) => CacheOf!GetHit(c)
         /\ GetMiss(c) => CacheOf!GetMiss(c)
         /\ GetExpired(k, c) => CacheOf!GetExpired(k, c)
         /\ Evict(k, c) => CacheOf!Evict(k, c)
         /\ Put(k, c, e) => CacheOf!Put(k, c, e)
         /\ Clear(k) => CacheOf!Clear(k)
         /\ Tick => CacheOf!Tick
<1>1. GetHit(c) => CacheOf!GetHit(c)
  BY SameEntries DEF GetHit, CacheOf!GetHit, Expired, CacheOf!Expired
<1>2. GetMiss(c) => CacheOf!GetMiss(c)
  BY SameEntries DEF GetMiss, CacheOf!GetMiss, cacheVars, CacheOf!cacheVars
<1>3. GetExpired(k, c) => CacheOf!GetExpired(k, c)
  BY SameEntries DEF GetExpired, CacheOf!GetExpired, Expired, CacheOf!Expired
<1>4. Evict(k, c) => CacheOf!Evict(k, c)
  BY SameEntries DEF Evict, CacheOf!Evict
<1>5. Put(k, c, e) => CacheOf!Put(k, c, e)
  BY SameEntries DEF Put, CacheOf!Put
<1>6. Clear(k) => CacheOf!Clear(k)
  BY SameEntries DEF Clear, CacheOf!Clear
<1>7. Tick => CacheOf!Tick
  BY DEF Tick, CacheOf!Tick
<1> QED
  BY <1>1, <1>2, <1>3, <1>4, <1>5, <1>6, <1>7

\* The engines in the cache, or on their way out of it, were handed to it.
HandedOver == EnginesOf(entries) \cup Doomed \subseteq Handed

\* A request past the put has nothing left to do but to touch its row.
LEMMA NotHandled ==
  ASSUME Inv, NEW r \in Requests, pc[r] \in Steps \ {"touch"}
  PROVE  r \notin Kept /\ r \notin Handed
<1>1. r \in built => pc[r] \in InHandSteps
  BY DEF Inv, RequestInv, Steps, Answers, Refusals
<1>2. pc[r] \in InHandSteps => r \in InHand
  BY DEF InHandSteps, InHand
<1> QED
  BY <1>1, <1>2 DEF Inv, Handed, Steps

\* A step of r that is not a touch, and disposes at most an engine that is not handed over.
LEMMA StepHands ==
  ASSUME Inv, NEW r \in Requests, pc[r] \in {"idle"} \cup (Steps \ {"touch"}), NEW x, Goto(r, x),
         \/ disposed' = disposed
         \/ disposed' = disposed \cup {r} /\ x \notin {"created", "touch", "entry"}
  PROVE  /\ Handed \subseteq Handed'
         /\ pc[r] # "idle" => UNCHANGED (disposed \cap Handed)
         /\ x \in {"created", "touch", "entry"} => r \in Handed'
<1>1. /\ pc'[r] = x /\ \A q \in Requests \ {r} : pc'[q] = pc[q]
  BY DEF Inv, ServiceTypeOK, Goto
<1>2. r \notin Handed
  BY DEF Handed, Steps
<1>3. Handed \subseteq Handed' /\ \A q \in Handed' : q = r \/ q \in Handed
  BY <1>1, <1>2 DEF Handed
<1>4. x \in {"created", "touch", "entry"} <=> r \in Handed'
  BY <1>1 DEF Handed
<1>5. ASSUME pc[r] # "idle" PROVE UNCHANGED (disposed \cap Handed)
  <2>1. r \notin disposed
    BY <1>5, NotHandled DEF Kept
  <2> QED
    BY <1>2, <1>3, <1>4, <2>1
<1> QED
  BY <1>3, <1>4, <1>5

\* What a step of the service is to the cache: one of its own, or none.
CacheStepOf == CacheOf!CacheNext \/ UNCHANGED CacheOf!cacheVars

\* Steps that leave the cache alone.
LEMMA AwayFromCache ==
  ASSUME HandedOver, Handed \subseteq Handed', UNCHANGED <<entries, toDispose>>,
         UNCHANGED (disposed \cap Handed)
  PROVE  HandedOver' /\ CacheStepOf
BY DEF HandedOver, Doomed, EnginesOf, CacheStepOf, CacheOf!cacheVars

LEMMA BeginClient ==
  ASSUME Inv, HandedOver, NEW r \in Requests, Begin(r) PROVE HandedOver' /\ CacheStepOf
<1>1. PICK a \in ArgsOf(r) : Goto(r, FirstStep(a.op))
  BY DEF Begin
<1>2. pc[r] = "idle" /\ UNCHANGED cacheVars
  BY DEF Begin
<1>3. FirstStep(a.op) \in {"check", "delete", "lookup"}
  BY DEF FirstStep
<1>4. pc'[r] = FirstStep(a.op) /\ \A q \in Requests \ {r} : pc'[q] = pc[q]
  BY <1>1 DEF Inv, ServiceTypeOK, Goto
<1>5. Handed' = Handed
  BY <1>2, <1>3, <1>4 DEF Handed
<1> QED
  BY <1>2, <1>5, AwayFromCache DEF cacheVars

\* The steps of a request between its accesses to the cache.
LEMMA QuietClient ==
  ASSUME Inv, HandedOver, NEW r \in Requests,
         \/ CreateCheck(r) \/ CreateConnect(r) \/ CreateInsert(r) \/ CreateInsertFails(r)
         \/ Lookup(r) \/ Rebuild(r) \/ DeleteRow(r) \/ DeleteRowUnsure(r) \/ ControlPlaneError(r)
  PROVE  HandedOver' /\ CacheStepOf
<1>1. /\ pc[r] \in Steps \ {"touch"} /\ UNCHANGED <<entries, toDispose>>
      /\ \E x : /\ Goto(r, x)
                /\ \/ disposed' = disposed
                   \/ disposed' = disposed \cup {r} /\ x \notin {"created", "touch", "entry"}
  <2>1. CASE CreateConnect(r) \/ Rebuild(r)
    BY <2>1 DEF CreateConnect, Rebuild, At, Steps, Refuse, BuildFails, BuildWorks, cacheVars
  <2>2. CASE CreateInsertFails(r)
    BY <2>2 DEF CreateInsertFails, At, Steps
  <2>3. CASE CreateCheck(r) \/ CreateInsert(r) \/ Lookup(r)
    BY <2>3 DEF CreateCheck, CreateInsert, Lookup, At, Steps, cacheVars
  <2>4. CASE DeleteRow(r) \/ DeleteRowUnsure(r) \/ ControlPlaneError(r)
    BY <2>4 DEF DeleteRow, DeleteRowUnsure, ControlPlaneError, At, Steps, cacheVars
  <2> QED
    BY <2>1, <2>2, <2>3, <2>4
<1>2. Handed \subseteq Handed' /\ UNCHANGED (disposed \cap Handed)
  BY <1>1, StepHands DEF Steps
<1> QED
  BY <1>1, <1>2, AwayFromCache

LEMMA TouchClient ==
  ASSUME Inv, HandedOver, NEW r \in Requests, Touch(r) PROVE HandedOver' /\ CacheStepOf
<1>1. pc[r] = "touch" /\ Goto(r, "entry") /\ UNCHANGED cacheVars
  BY DEF Touch, At
<1>2. pc'[r] = "entry" /\ \A q \in Requests \ {r} : pc'[q] = pc[q]
  BY <1>1 DEF Inv, ServiceTypeOK, Goto
<1>3. Handed' = Handed
  BY <1>1, <1>2 DEF Handed
<1> QED
  BY <1>1, <1>3, AwayFromCache DEF cacheVars

\* A put of the service is one the cache's own checks allow.
LEMMA PutClient ==
  ASSUME Inv, HandedOver, NEW r \in Requests, CreatePut(r) \/ RebuildPut(r)
  PROVE  HandedOver' /\ CacheStepOf
<1>1. PICK x \in {"created", "touch"} : Goto(r, x)
  BY DEF CreatePut, RebuildPut
<1>2. PICK c \in Requests : Put(r, c, r)
  BY DEF CreatePut, RebuildPut, At, Inv, RequestInv, Looked, ServiceTypeOK, ArgsOf, Args
<1>3. pc[r] \in {"put", "put_rebuilt"} /\ Free(r) /\ disposed' = disposed
  BY <1>2 DEF CreatePut, RebuildPut, At, Put
<1>4. r \in InHand /\ r \notin Kept
  BY <1>3 DEF Inv, InHand
<1>5. r \in Callers /\ c \in Conns /\ r \in Engines /\ Idle(r) /\ CacheSafe
  BY <1>3, OneShot DEF Free, Idle, Inv
<1>6. /\ Handed \subseteq Handed' /\ r \in Handed' /\ UNCHANGED (disposed \cap Handed)
  BY <1>1, <1>3, StepHands DEF Steps
<1>7. MayPut(c, r)
  BY <1>4 DEF MayPut, Kept, EnginesOf
<1>8. EnginesOf(entries') \cup Doomed' = EnginesOf(entries) \cup Doomed \cup {r}
  BY <1>2, <1>5, <1>7, PutSafe
<1>9. HandedOver'
  BY <1>6, <1>8 DEF HandedOver, EnginesOf
<1>10. CacheOf!Operation(r)
  <2>1. CacheOf!Put(r, c, r)
    BY <1>2, <1>6, SameOperations
  <2>2. CacheOf!MayPut(c, r) /\ CacheOf!Idle(r)
    BY <1>5, <1>7, SameEntries DEF MayPut, Idle, CacheOf!MayPut, CacheOf!Idle
  <2> QED
    BY <1>5, <2>1, <2>2 DEF CacheOf!Operation
<1> QED
  BY <1>5, <1>9, <1>10 DEF CacheStepOf, CacheOf!CacheNext

\* A get or an evict of the service.
LEMMA GetClient ==
  ASSUME Inv, HandedOver, NEW r \in Requests, LookupHit(r) \/ LookupMiss(r) \/ DeleteEvict(r)
  PROVE  HandedOver' /\ CacheStepOf
<1> DEFINE c == req[r].conn
<1>1. /\ pc[r] \in {"cache_get", "evict"} /\ Free(r)
      /\ GetHit(c) \/ GetMiss(c) \/ GetExpired(r, c) \/ Evict(r, c)
      /\ \E x : Goto(r, x)
  BY DEF LookupHit, LookupMiss, DeleteEvict, At
<1>2. c \in Conns /\ r \in Callers /\ Idle(r) /\ CacheSafe
  BY <1>1, OneShot DEF Free, Idle, Inv, RequestInv, ArgsOf, Args
<1> HIDE DEF c
<1>3. disposed' = disposed
  BY <1>1 DEF GetHit, GetMiss, GetExpired, Evict, cacheVars
<1>4. Handed \subseteq Handed' /\ UNCHANGED (disposed \cap Handed)
  BY <1>1, <1>3, StepHands DEF Steps
<1>5. EnginesOf(entries') \cup Doomed' = EnginesOf(entries) \cup Doomed
  <2>1. CASE GetMiss(c)
    BY <2>1 DEF GetMiss, cacheVars, EnginesOf, Doomed
  <2>2. CASE GetHit(c)
    BY <1>2, <2>2, GetHitSafe
  <2>3. CASE GetExpired(r, c) \/ Evict(r, c)
    BY <1>2, <2>3, PopSafe
  <2> QED
    BY <1>1, <2>1, <2>2, <2>3
<1>6. HandedOver'
  BY <1>4, <1>5 DEF HandedOver, EnginesOf
<1>7. CacheOf!Operation(r)
  <2>1. CacheOf!GetHit(c) \/ CacheOf!GetMiss(c) \/ CacheOf!GetExpired(r, c) \/ CacheOf!Evict(r, c)
    BY <1>1, <1>4, SameOperations
  <2>2. CacheOf!Idle(r)
    BY <1>2 DEF Idle, CacheOf!Idle
  <2> QED
    BY <1>2, <2>1, <2>2 DEF CacheOf!Operation
<1> QED
  BY <1>2, <1>6, <1>7 DEF CacheStepOf, CacheOf!CacheNext

LEMMA DisposeClient ==
  ASSUME Inv, HandedOver, NEW k \in Callers, DisposeNext(k) PROVE HandedOver' /\ CacheStepOf
<1>1. PICK e \in toDispose[k] :
        /\ toDispose' = [toDispose EXCEPT ![k] = @ \ {e}]
        /\ disposed' = disposed \cup {e}
        /\ UNCHANGED entries /\ UNCHANGED pc
  BY DEF DisposeNext, Dispose, serviceVars
<1>2. toDispose \in [Callers -> SUBSET Engines]
  BY DEF Inv, CacheSafe, CacheTypeOK
<1>3. e \in Handed /\ Handed' = Handed
  BY <1>1 DEF HandedOver, Doomed, Handed
<1>4. (disposed \cap Handed)' = (disposed \cap Handed) \cup {e}
  BY <1>1, <1>3
<1>5. Doomed' \subseteq Doomed
  BY <1>1, <1>2 DEF Doomed
<1>6. HandedOver'
  BY <1>1, <1>3, <1>5 DEF HandedOver, EnginesOf
<1>7. CacheOf!Dispose(k)
  BY <1>1, <1>4 DEF CacheOf!Dispose
<1> QED
  BY <1>6, <1>7 DEF CacheStepOf, CacheOf!CacheNext

LEMMA ShutdownClient ==
  ASSUME Inv, MainIdle, HandedOver, Shutdown \/ Clock PROVE HandedOver' /\ CacheStepOf
<1>1. /\ UNCHANGED <<pc, disposed>>
      /\ Clear(Main) \/ Tick
      /\ Clear(Main) => Idle(Main)
  BY DEF Shutdown, Clock, Clear, Tick, serviceVars, MainIdle, Idle
<1>2. Handed' = Handed /\ UNCHANGED (disposed \cap Handed)
  BY <1>1 DEF Handed
<1>3. Main \in Callers /\ CacheSafe
  BY OneShot DEF Inv
<1>4. CASE Tick
  <2>1. EnginesOf(entries') = EnginesOf(entries) /\ Doomed' = Doomed
    BY <1>3, <1>4, TickSafe
  <2> QED
    BY <1>2, <1>4, <2>1, SameOperations DEF HandedOver, EnginesOf, CacheStepOf, CacheOf!CacheNext
<1>5. CASE Clear(Main)
  <2>1. entries' = <<>> /\ Doomed' = EnginesOf(entries) \cup Doomed
    BY <1>1, <1>3, <1>5, ClearSafe
  <2>2. HandedOver'
    BY <1>2, <2>1 DEF HandedOver, EnginesOf
  <2>3. CacheOf!Clear(Main) /\ CacheOf!Idle(Main)
    BY <1>1, <1>2, <1>5, SameOperations DEF Idle, CacheOf!Idle
  <2> QED
    BY <1>3, <2>2, <2>3 DEF CacheStepOf, CacheOf!CacheNext
<1> QED
  BY <1>1, <1>4, <1>5

LEMMA ClientStep ==
  Inv /\ MainIdle /\ HandedOver /\ [Next]_vars
  => HandedOver' /\ [CacheOf!CacheNext]_(CacheOf!cacheVars)
<1> SUFFICES ASSUME Inv, MainIdle, HandedOver, [Next]_vars PROVE HandedOver' /\ CacheStepOf
  BY DEF CacheStepOf
<1>1. ASSUME NEW r \in Requests, Begin(r) \/ Step(r) PROVE HandedOver' /\ CacheStepOf
  <2>1. r \in Callers
    BY OneShot
  <2> QED
    BY <1>1, <2>1, BeginClient, QuietClient, TouchClient, PutClient, GetClient, DisposeClient DEF Step
<1>2. CASE DisposeNext(Main)
  <2>1. Main \in Callers
    BY OneShot
  <2> QED
    BY <1>2, <2>1, DisposeClient
<1>3. CASE Shutdown \/ Clock
  BY <1>3, ShutdownClient
<1>4. CASE UNCHANGED vars
  <2>1. Handed' = Handed /\ UNCHANGED <<entries, toDispose, disposed>>
    BY <1>4 DEF vars, Handed
  <2> QED
    BY <2>1, AwayFromCache
<1> QED
  BY <1>1, <1>2, <1>3, <1>4 DEF Next

(***************************************************************************)
(* What the cache is checked and proved for on its own, it is used for: no *)
(* request puts an engine twice, under another id, or after it left the    *)
(* cache, none calls the cache while it still has engines to dispose, and  *)
(* nothing else than the cache's operations touches its state.             *)
(***************************************************************************)
THEOREM ServiceIsCacheClient ==
  Spec => CacheOf!CacheInit /\ [][CacheOf!CacheNext]_(CacheOf!cacheVars)
<1>1. Init => HandedOver /\ CacheOf!CacheInit
  BY DEF Init, CacheInit, HandedOver, EnginesOf, Doomed, CacheOf!CacheInit
<1> QED
  BY <1>1, ClientStep, InvInit, InvNext, PTL DEF Spec

(***************************************************************************)
(* So the engines of the service, from the put on, implement EngineStore:  *)
(* whatever requests interleave, each is held for one connection at most,  *)
(* is let go once, disposed once, and never held again.                    *)
(***************************************************************************)
THEOREM ServiceImplementsStore == Spec => CacheOf!StoreOf!Safety
<1>1. None \notin Engines
  BY OneShot, ServiceAssumption
<1>2. CacheOf!CacheInit /\ [][CacheOf!CacheNext]_(CacheOf!cacheVars) => CacheOf!StoreOf!Safety
  BY <1>1, CacheAssumption, CacheOf!CacheIsStore
<1> QED
  BY <1>2, ServiceIsCacheClient
=============================================================================
