------------------------- MODULE ConnectionService -------------------------
(***************************************************************************)
(* src/app/services/connections.py behind its routes: requests that        *)
(* create, delete and use the saved customer databases of the users, over  *)
(* the control-plane table db_connections and the shared engine cache.     *)
(*                                                                         *)
(* Each request runs in a thread of the server's pool and is a sequence    *)
(* of steps, one per access to something shared: a control-plane           *)
(* transaction, or a cache operation.  Steps of different requests         *)
(* interleave.  Engines a request took out of the cache are disposed by    *)
(* its thread before it does anything else (Free).                         *)
(*                                                                         *)
(* Requests are one-shot: a request inserts at most one row and builds at  *)
(* most one engine, so the request itself names both.  That a row id is    *)
(* never used twice (SERIAL) is built in.                               *)
(***************************************************************************)
EXTENDS ConnectionCache

CONSTANTS
  Requests,
  Main,      \* the thread that runs the application's lifespan
  Users,
  Names,     \* connection names, as _clean_name returns them
  Blank,     \* a name _clean_name refuses
  None,
  MaxConnectionsPerUser,
  PoolSize   \* threads of the pool that runs the requests (40, anyio's default)

ASSUME OneShot ==
  /\ Conns = Requests /\ Engines = Requests /\ Callers = Requests \cup {Main}
  /\ Main \notin Requests

ASSUME ServiceAssumption ==
  /\ IsFiniteSet(Requests)
  /\ MaxConnectionsPerUser \in Nat \ {0} /\ PoolSize \in Nat \ {0}
  /\ Blank \notin Names /\ None \notin Requests

VARIABLES
  req,     \* what each request asks for
  pc,      \* the step each request is at, or the answer it ended with
  rows,    \* the rows of db_connections, named by the request that inserted them
  saved,   \* the rows ever inserted (history: only properties read it)
  built,   \* the engines ever built, named by the request that built them
  served,  \* the engine each request was given to use, or None
  running  \* FALSE once the application shut down

serviceVars == <<req, pc, rows, saved, built, served, running>>
vars == <<entries, toDispose, disposed, req, pc, rows, saved, built,
          served, running>>

(***************************************************************************)
(* A create asks for a name, and the row it inserts is its own; the others *)
(* ask for a connection id.  "schema" is GET /connections/{id}/schema,     *)
(* "generate" the connection lookup of POST /generate.                     *)
(***************************************************************************)
Args == [op : {"create", "schema", "generate", "delete"}, user : Users,
         name : Names \cup {Blank}, conn : Requests]

ArgsOf(r) == {a \in Args : IF a.op = "create" THEN a.conn = r
                           ELSE a.conn # r /\ a.name = Blank}

Steps == {"check", "connect", "insert", "put", "lookup", "cache_get", "rebuild",
          "put_rebuilt", "touch", "delete", "evict"}

\* Answers that leave everything as it was, the other answers, and 500.
Refusals == {"invalid_name", "limit_reached", "name_taken", "unsafe", "test_failed",
             "not_found", "unreadable"}
Answers == Refusals \cup {"created", "entry", "deleted", "error"}

Owner(c) == req[c].user

RowsOf(u) == {c \in rows : Owner(c) = u}

\* The pool thread of r is taken from its first step until its last disposal.
Active == {r \in Requests : pc[r] \in Steps \/ toDispose[r] # {}}

Free(r) == toDispose[r] = {}

At(r, step) == pc[r] = step /\ Free(r)

Goto(r, step) == pc' = [pc EXCEPT ![r] = step]

-----------------------------------------------------------------------------
Init ==
  /\ CacheInit
  /\ req = [r \in Requests |-> None]
  /\ pc = [r \in Requests |-> "idle"]
  /\ rows = {}
  /\ saved = {}
  /\ built = {}
  /\ served = [r \in Requests |-> None]
  /\ running = TRUE

FirstStep(op) ==
  CASE op = "create" -> "check"
    [] op = "delete" -> "delete"
    [] OTHER -> "lookup"

\* A pool thread takes the request up.
Begin(r) ==
  /\ running
  /\ pc[r] = "idle"
  /\ Cardinality(Active) < PoolSize
  /\ \E a \in ArgsOf(r) :
       /\ req' = [req EXCEPT ![r] = a]
       /\ Goto(r, FirstStep(a.op))
  /\ UNCHANGED <<cacheVars, rows, saved, built, served, running>>

\* The control plane could not be reached, or the statement failed: 500.
ControlPlaneError(r) ==
  /\ \E step \in {"check", "lookup", "delete"} : At(r, step)
  /\ req[r].op = "create" => req[r].name # Blank
  /\ Goto(r, "error")
  /\ UNCHANGED <<cacheVars, req, rows, saved, built, served, running>>

-----------------------------------------------------------------------------
(* create_connection *)

\* Mutant: the count is compared with > instead of >=.
Mutant_UsageOffByOne(r) ==
  IF req[r].name = Blank THEN "invalid_name"
  ELSE IF Cardinality(RowsOf(req[r].user)) > MaxConnectionsPerUser THEN "limit_reached"
  ELSE IF \E c \in RowsOf(req[r].user) : req[c].name = req[r].name THEN "name_taken"
  ELSE "connect"

\* The name, then one query that counts the user's rows.
Usage(r) ==
  IF req[r].name = Blank THEN "invalid_name"
  ELSE IF Cardinality(RowsOf(req[r].user)) >= MaxConnectionsPerUser THEN "limit_reached"
  ELSE IF \E c \in RowsOf(req[r].user) : req[c].name = req[r].name THEN "name_taken"
  ELSE "connect"

CreateCheck(r) ==
  /\ At(r, "check")
  /\ Goto(r, Usage(r))
  /\ UNCHANGED <<cacheVars, req, rows, saved, built, served, running>>

\* Mutant: an engine that failed its test is not disposed.
Mutant_BuildFailsNoDispose(r) ==
  /\ \E answer \in {"test_failed", "error"} : Goto(r, answer)
  /\ built' = built \cup {r}
  /\ UNCHANGED <<cacheVars, req, rows, saved, served, running>>

\* An engine that is built, found not to work, and disposed by its builder.
BuildFails(r) ==
  /\ \E answer \in {"test_failed", "error"} : Goto(r, answer)
  /\ built' = built \cup {r}
  /\ disposed' = disposed \cup {r}
  /\ UNCHANGED <<entries, toDispose, req, rows, saved, served, running>>

\* An engine that is built and whose schema is read; `step` is next.
BuildWorks(r, step) ==
  /\ Goto(r, step)
  /\ built' = built \cup {r}
  /\ UNCHANGED <<cacheVars, req, rows, saved, served, running>>

\* A refusal before any engine is built.
Refuse(r, answer) ==
  /\ Goto(r, answer)
  /\ UNCHANGED <<cacheVars, req, rows, saved, built, served, running>>

\* validate_connection_string, build_customer_engine, _introspect
CreateConnect(r) ==
  /\ At(r, "connect")
  /\ \/ Refuse(r, "unsafe")
     \/ BuildFails(r)
     \/ BuildWorks(r, "insert")

\* UNIQUE (user_id, name)
Conflict(r) == \E c \in RowsOf(req[r].user) : req[c].name = req[r].name

CreateInsert(r) ==
  /\ At(r, "insert")
  /\ ~Conflict(r)
  /\ rows' = rows \cup {r}
  /\ saved' = saved \cup {r}
  /\ Goto(r, "put")
  /\ UNCHANGED <<cacheVars, req, built, served, running>>

\* Mutant: an engine whose row was not inserted is not disposed.
Mutant_InsertFailsNoDispose(r) ==
  /\ At(r, "insert")
  /\ \/ Conflict(r) /\ Goto(r, "name_taken") /\ UNCHANGED <<rows, saved>>
     \/ Goto(r, "error") /\ UNCHANGED <<rows, saved>>
     \/ ~Conflict(r) /\ Goto(r, "error") /\ rows' = rows \cup {r} /\ saved' = saved \cup {r}
  /\ UNCHANGED <<cacheVars, req, built, served, running>>

\* The insert raises, or encrypt does: the engine is disposed.  When the
\* connection breaks during COMMIT, the row may have been committed.
CreateInsertFails(r) ==
  /\ At(r, "insert")
  /\ \/ Conflict(r) /\ Goto(r, "name_taken") /\ UNCHANGED <<rows, saved>>
     \/ Goto(r, "error") /\ UNCHANGED <<rows, saved>>
     \/ ~Conflict(r) /\ Goto(r, "error") /\ rows' = rows \cup {r} /\ saved' = saved \cup {r}
  /\ disposed' = disposed \cup {r}
  /\ UNCHANGED <<entries, toDispose, req, built, served, running>>

CreatePut(r) ==
  /\ At(r, "put")
  /\ Put(r, r, r)
  /\ Goto(r, "created")
  /\ UNCHANGED <<req, rows, saved, built, served, running>>

-----------------------------------------------------------------------------
(* get_connection_entry *)

\* Mutant: the query does not include the user.
Mutant_LookupAnyUser(r) ==
  /\ At(r, "lookup")
  /\ Goto(r, IF req[r].conn \in rows THEN "cache_get" ELSE "not_found")
  /\ UNCHANGED <<cacheVars, req, rows, saved, built, served, running>>

\* Mutant: an id found in the cache is not looked up in the table.
Mutant_LookupTrustsCache(r) ==
  /\ At(r, "lookup")
  /\ Goto(r, IF \/ IsCached(entries, req[r].conn)
                \/ req[r].conn \in RowsOf(req[r].user) THEN "cache_get" ELSE "not_found")
  /\ UNCHANGED <<cacheVars, req, rows, saved, built, served, running>>

\* The ownership query comes first, before the cache.
Lookup(r) ==
  /\ At(r, "lookup")
  /\ Goto(r, IF req[r].conn \in RowsOf(req[r].user) THEN "cache_get" ELSE "not_found")
  /\ UNCHANGED <<cacheVars, req, rows, saved, built, served, running>>

\* Mutant: a hit hands out the cache's entry instead of its engine.
Mutant_EngineForEntry(c) == entries[Position(entries, c)]

EngineFor(c) == entries[Position(entries, c)].engine

LookupHit(r) ==
  /\ At(r, "cache_get")
  /\ GetHit(req[r].conn)
  /\ served' = [served EXCEPT ![r] = EngineFor(req[r].conn)]
  /\ Goto(r, "entry")
  /\ UNCHANGED <<req, rows, saved, built, running>>

\* Mutant: a miss goes back to the lookup, to wait for another request's put.
Mutant_LookupMissRetries(r) ==
  /\ At(r, "cache_get")
  /\ GetMiss(req[r].conn) \/ GetExpired(r, req[r].conn)
  /\ Goto(r, "lookup")
  /\ UNCHANGED <<req, rows, saved, built, served, running>>

LookupMiss(r) ==
  /\ At(r, "cache_get")
  /\ GetMiss(req[r].conn) \/ GetExpired(r, req[r].conn)
  /\ Goto(r, "rebuild")
  /\ UNCHANGED <<req, rows, saved, built, served, running>>

\* The schema route passes the function get_encryptor where the encryptor is
\* due: decrypt is no attribute of it, and the AttributeError answers 500.
Rebuild(r) ==
  /\ At(r, "rebuild")
  /\ \/ req[r].op = "schema" /\ Refuse(r, "error")
     \/ req[r].op = "generate" /\ \E answer \in {"unreadable", "unsafe"} : Refuse(r, answer)
     \/ req[r].op = "generate" /\ BuildFails(r)
     \/ req[r].op = "generate" /\ BuildWorks(r, "put_rebuilt")

RebuildPut(r) ==
  /\ At(r, "put_rebuilt")
  /\ Put(r, req[r].conn, r)
  /\ served' = [served EXCEPT ![r] = r]
  /\ Goto(r, "touch")
  /\ UNCHANGED <<req, rows, saved, built, running>>

\* _touch updates a timestamp nothing reads back here, in a row that may be
\* gone by now; its errors are logged and swallowed.
Touch(r) ==
  /\ At(r, "touch")
  /\ Goto(r, "entry")
  /\ UNCHANGED <<cacheVars, req, rows, saved, built, served, running>>

-----------------------------------------------------------------------------
(* delete_connection *)

DeleteRow(r) ==
  /\ At(r, "delete")
  /\ IF req[r].conn \in RowsOf(req[r].user)
     THEN rows' = rows \ {req[r].conn} /\ Goto(r, "evict")
     ELSE UNCHANGED rows /\ Goto(r, "not_found")
  /\ UNCHANGED <<cacheVars, req, saved, built, served, running>>

\* The connection breaks during COMMIT and the row is gone: no eviction.
DeleteRowUnsure(r) ==
  /\ At(r, "delete")
  /\ req[r].conn \in RowsOf(req[r].user)
  /\ rows' = rows \ {req[r].conn}
  /\ Goto(r, "error")
  /\ UNCHANGED <<cacheVars, req, saved, built, served, running>>

DeleteEvict(r) ==
  /\ At(r, "evict")
  /\ Evict(r, req[r].conn)
  /\ Goto(r, "deleted")
  /\ UNCHANGED <<req, rows, saved, built, served, running>>

-----------------------------------------------------------------------------
\* Mutant: the cache is cleared while requests are still at work.
Mutant_ShutdownAtOnce ==
  /\ running
  /\ running' = FALSE
  /\ Clear(Main)
  /\ UNCHANGED <<req, pc, rows, saved, built, served>>

\* lifespan after its yield, once the server has drained its requests.
Shutdown ==
  /\ running
  /\ Active = {}
  /\ running' = FALSE
  /\ Clear(Main)
  /\ UNCHANGED <<req, pc, rows, saved, built, served>>

DisposeNext(k) == Dispose(k) /\ UNCHANGED serviceVars

Clock == running /\ Tick /\ UNCHANGED serviceVars

\* What the thread of r does next, once it has taken r up.
Step(r) ==
  \/ CreateCheck(r)
  \/ CreateConnect(r)
  \/ CreateInsert(r)
  \/ CreateInsertFails(r)
  \/ CreatePut(r)
  \/ Lookup(r)
  \/ LookupHit(r)
  \/ LookupMiss(r)
  \/ Rebuild(r)
  \/ RebuildPut(r)
  \/ Touch(r)
  \/ DeleteRow(r)
  \/ DeleteRowUnsure(r)
  \/ DeleteEvict(r)
  \/ ControlPlaneError(r)
  \/ DisposeNext(r)

Next ==
  \/ \E r \in Requests : Begin(r) \/ Step(r)
  \/ DisposeNext(Main)
  \/ Shutdown
  \/ Clock

Spec == Init /\ [][Next]_vars

\* Every step of a request is bounded by a timeout (connect_timeout and
\* statement_timeout of the engines) or by nothing shared: its thread goes on.
FairSpec ==
  /\ Spec
  /\ \A r \in Requests : WF_vars(Step(r))
  /\ WF_vars(DisposeNext(Main))

-----------------------------------------------------------------------------
(* Properties *)

\* Requests that hold an engine they built and did not hand over yet.
InHand == {r \in Requests : pc[r] \in {"insert", "put", "put_rebuilt"}}

\* Every variable has its type, and a request has arguments once it began.
ServiceTypeOK ==
  /\ CacheTypeOK
  /\ req \in [Requests -> Args \cup {None}]
  /\ pc \in [Requests -> {"idle"} \cup Steps \cup Answers]
  /\ rows \in SUBSET Requests
  /\ saved \in SUBSET Requests
  /\ built \in SUBSET Requests
  /\ served \in [Requests -> Requests \cup {None}]
  /\ running \in BOOLEAN

(***************************************************************************)
(* Every engine ever built has exactly one keeper: the request that built  *)
(* it and still works on it, the cache, the one thread that is about to    *)
(* dispose it, or nobody because it was disposed.  So whatever the races   *)
(* of creates, rebuilds, expiries, evictions and deletes of one id: no     *)
(* engine leaks, none is disposed while the cache can still hand it out,   *)
(* and none is disposed twice.                                             *)
(***************************************************************************)
EngineHasOneKeeper ==
  /\ built = InHand \cup EnginesOf(entries) \cup Doomed \cup disposed
  /\ InHand \cap (EnginesOf(entries) \cup Doomed \cup disposed) = {}
  /\ NoUseAfterDispose

(***************************************************************************)
(* The cache is keyed right: the engine under a connection id was built    *)
(* from that connection's own string, and that connection was saved.       *)
(***************************************************************************)
CachedForItsConnection ==
  \A i \in DOMAIN entries :
    /\ entries[i].conn = req[entries[i].engine].conn
    /\ entries[i].conn \in saved

(***************************************************************************)
(* Tenant isolation: a request is only ever given an engine that was built *)
(* for the connection it asked for, and only when its user saved that      *)
(* connection, whether the engine came from the cache or was rebuilt.      *)
(***************************************************************************)
ServedToOwner ==
  \A r \in Requests : served[r] # None =>
    /\ req[served[r]].conn = req[r].conn
    /\ req[r].conn \in saved
    /\ Owner(req[r].conn) = req[r].user

(***************************************************************************)
(* The limit on saved connections is read in one transaction and enforced  *)
(* by none: requests that passed the check together all insert.  What does *)
(* hold is that the pool bounds how many pass it together.                 *)
(***************************************************************************)
LimitBound ==
  \A u \in Users : Cardinality(RowsOf(u)) <= MaxConnectionsPerUser - 1 + PoolSize

\* A refused request leaves nothing behind: no row, no cached engine, and an
\* engine it built to test the connection is disposed before the answer.
RefusalsLeaveNothing ==
  \A r \in Requests : pc[r] \in Refusals =>
    /\ r \notin rows \cup EnginesOf(entries)
    /\ r \in built => r \in disposed
    /\ served[r] = None

\* Once the lifespan has cleared the cache, no engine is left open, although
\* requests built engines for ids that were deleted meanwhile.
ShutdownReleasesAll == ~running /\ Doomed = {} => disposed = built

(***************************************************************************)
(* The cache is never authorization: a request that looks a connection up  *)
(* once it is deleted is not served, however long its engine stays cached: *)
(* it may not get past the lookup, and what it answers there is final.     *)
(***************************************************************************)
DeletedIsNotServed ==
  [][\A r \in Requests :
       \/ pc[r] = "lookup" /\ req[r].conn \in saved \ rows
       \/ pc[r] \in {"not_found", "error"}
       => pc'[r] \in {pc[r], "not_found", "error"}]_vars

\* Every request that a thread took up is answered, with all the engines it
\* took out of the cache disposed.
RequestsFinish ==
  \A r \in Requests : pc[r] \in Steps ~> pc[r] \in Answers /\ Free(r)

(***************************************************************************)
(* What the repository says, and the code does not keep                    *)
(***************************************************************************)
\* test_connection_services.py: a delete removes the row and evicts the cached
\* engine.  So when nobody is at work, no deleted connection is cached.
DeleteEvictsEngine ==
  Active = {} => \A d \in Requests : pc[d] = "deleted" => ~IsCached(entries, req[d].conn)

\* NOTES.md: the cache is only a speedup.  So a request that misses it is not
\* refused for that.
MissOnlySlower ==
  [][\A r \in Requests : pc[r] = "rebuild" /\ req[r].op = "schema" => pc'[r] # "error"]_vars
=============================================================================
