-------------------------- MODULE SavedConnection --------------------------
(***************************************************************************)
(* What becomes of one connection string of a user: it is checked and its  *)
(* host resolved (connection_safety.py), tried out, encrypted with the     *)
(* current key (encryption.py, config.py) and saved; later an engine is    *)
(* built from it again, when none is cached (connections.py).  Meanwhile   *)
(* the host's DNS entry changes, the customer migrates the database, and   *)
(* the application is restarted, perhaps with other keys.                  *)
(*                                                                         *)
(* The races of requests for one connection are ConnectionService's; here  *)
(* one request runs at a time.  A ciphertext is the text and the key it    *)
(* was made with: authenticated encryption opens under no other key.  Its  *)
(* context, the user, is that of every query for the row.                  *)
(***************************************************************************)
EXTENDS Integers, FiniteSets

CONSTANTS
  Hosts,
  Addresses,     \* what a host may resolve to, see Address
  Texts,         \* connection strings users hand in, see Text
  Environments,  \* the settings a restart may bring, see Environment
  Versions,      \* numbers of keys
  Keys,          \* keys of 32 bytes
  ShortKey,      \* any other key
  NoKey, NoHost, NoAddress, NoRow, NoJob, NoEngine,
  Schemas,       \* schemas of the customer's database
  EmptySchema    \* the one without tables

VARIABLES
  env,       \* ENCRYPTION_KEYS and ENCRYPTION_KEY_VERSION
  dns,       \* the addresses each host resolves to, none when it does not resolve
  live,      \* the schema of the customer's database
  row,       \* the row of db_connections
  job,       \* the request that runs
  engine,    \* the cached engine, with the schema read when it was built
  contacted, \* the address the step just taken connected to
  answer     \* what the request that ended in the step just taken answered

vars == <<env, dns, live, row, job, engine, contacted, answer>>

\* An IPv6 address that carries an IPv4 one has the scope of the carried one.  Some multicast
\* addresses are global; place is an address's place among the sorted strings.
Address == [family : {"v4", "v6"}, global : BOOLEAN, multicast : BOOLEAN, place : Nat]

\* "postgres" is the prefix postgres://, sslmode and binding are "absent" or the value given,
\* other says that there are further parameters; a host may also be a socket's path.
Text == [driver : {"postgres", "postgresql", "postgresql+psycopg", "postgresql+psycopg2", "mysql"},
         parses : BOOLEAN, host : Hosts \cup {NoHost}, credentials : BOOLEAN, port : BOOLEAN,
         sslmode : {"absent", "disable", "require", "verify-full"},
         binding : {"absent", "prefer", "unknown"}, other : BOOLEAN, length : Nat]

Environment == [keys : [Versions -> Keys \cup {ShortKey, NoKey}], current : Versions]

Row == [text : Text, key : Keys, version : Versions]
Engine == [url : Text, hostaddr : Addresses, schema : Schemas]
Job == [kind : {"create", "rebuild"}, step : {"connect", "store"},
        url : Text, hostaddr : Addresses, schema : Schemas]

\* A text that names the driver's module is longer than what the canonical driver saves.
ASSUME SavedAssumption ==
  /\ Addresses \subseteq Address /\ NoAddress \notin Addresses
  /\ \A a, b \in Addresses : a.place = b.place => a = b
  /\ Texts \subseteq Text /\ NoHost \notin Hosts
  /\ \A t \in Texts : t.driver \in {"postgresql+psycopg", "postgresql+psycopg2"} => t.length > 18
  /\ Environments \subseteq Environment /\ EmptySchema \in Schemas
  /\ {ShortKey, NoKey} \cap Keys = {}
  /\ NoRow \notin Row /\ NoJob \notin Job /\ NoEngine \notin Engine

-----------------------------------------------------------------------------
(* connection_safety.py *)

MaxLength == 2048  \* MAX_CONNECTION_STRING_LENGTH

\* _is_public_address
IsPublic(a) == a.global /\ ~a.multicast

\* _resolve_public_address refuses a host that does not resolve, or to some address that is not public.
ResolvesPublic(addresses) == addresses # {} /\ \A a \in addresses : IsPublic(a)

\* Mutant: only IPv4 addresses are looked at.
Mutant_Pinned(addresses) ==
  LET v4 == {a \in addresses : a.family = "v4"}
  IN IF v4 = {} THEN NoAddress ELSE CHOOSE a \in v4 : \A b \in v4 : a.place <= b.place

\* IPv4 is preferred, and the first in order is taken.
Pinned(addresses) ==
  LET v4    == {a \in addresses : a.family = "v4"}
      among == IF v4 = {} THEN addresses ELSE v4
  IN CHOOSE a \in among : \A b \in among : a.place <= b.place

\* _parse, _validated_query and what validate_connection_string asks of the URL.
WellFormed(text) ==
  /\ text.length \in 1..MaxLength /\ text.parses
  /\ text.driver # "mysql" /\ text.host # NoHost /\ text.credentials
  /\ ~text.other /\ text.sslmode # "disable" /\ text.binding # "unknown"

\* Mutant: the address that was checked is put in the URL's query.
Mutant_Normal(text) == [text EXCEPT !.driver = "postgresql", !.port = TRUE, !.other = TRUE]

\* The URL of the target, as it is rendered: canonical driver, port and sslmode filled in.
\* Percent-encoding, which may add to the length as well, is left out.
Normal(text) ==
  [text EXCEPT
    !.driver = "postgresql", !.port = TRUE,
    !.sslmode = IF @ = "absent" THEN "require" ELSE @,
    !.length = @ + (CASE text.driver = "postgres" -> 2
                      [] text.driver = "postgresql+psycopg" -> -8
                      [] text.driver = "postgresql+psycopg2" -> -9
                      [] OTHER -> 0)
                 + (IF text.port THEN 0 ELSE 5) + (IF text.sslmode = "absent" THEN 16 ELSE 0)]

Accepted(text) == WellFormed(text) /\ ResolvesPublic(dns[text.host])

-----------------------------------------------------------------------------
(* encryption.py *)

\* LocalAesGcmEncryptor refuses a set of keys without the current one or with a short one.
Configured == /\ env.keys[env.current] # NoKey
              /\ \A v \in Versions : env.keys[v] # ShortKey

Encrypt(url) == [text |-> url, key |-> env.keys[env.current], version |-> env.current]

\* Mutant: the current key is used, whatever the row says.
Mutant_Decrypts(saved) == env.keys[env.current] = saved.key

\* A version without a key, or with another key, is a DecryptionError.
Decrypts(saved) == env.keys[saved.version] = saved.key

-----------------------------------------------------------------------------
(* connections.py *)

Quiet == contacted' = NoAddress /\ answer' = "none"

Reply(what) == job' = NoJob /\ contacted' = NoAddress /\ answer' = what

\* validate_connection_string and build_customer_engine: the address is pinned in the
\* engine's connect_args.
Target(kind, text) ==
  [kind |-> kind, step |-> "connect", url |-> Normal(text),
   hostaddr |-> Pinned(dns[text.host]), schema |-> EmptySchema]

Begin(kind, text) ==
  IF Accepted(text) THEN job' = Target(kind, text) /\ Quiet ELSE Reply("unsafe")

\* The encryptor is made before create_connection is called.
Create(text) ==
  /\ job = NoJob /\ row = NoRow
  /\ IF Configured THEN Begin("create", text) ELSE Reply("error")
  /\ UNCHANGED <<env, dns, live, row, engine>>

\* get_connection_entry, when the engine is not cached.
Rebuild ==
  /\ job = NoJob /\ row # NoRow /\ engine = NoEngine
  /\ IF ~Configured THEN Reply("error")
     ELSE IF ~Decrypts(row) THEN Reply("unreadable")
     ELSE Begin("rebuild", row.text)
  /\ UNCHANGED <<env, dns, live, row, engine>>

\* Mutant: the engine is built without hostaddr, and the driver resolves the host again.
Mutant_AddressOf(entry) ==
  IF dns[entry.url.host] = {} THEN NoAddress ELSE CHOOSE a \in dns[entry.url.host] : TRUE

\* libpq connects to hostaddr and leaves the host to TLS.
AddressOf(entry) == entry.hostaddr

\* _introspect: the first connection of the engine reads the schema.
Introspect ==
  /\ job # NoJob /\ job.step = "connect"
  /\ live # EmptySchema
  /\ job' = [job EXCEPT !.step = "store", !.schema = live]
  /\ contacted' = AddressOf(job) /\ answer' = "none"
  /\ UNCHANGED <<env, dns, live, row, engine>>

\* The connection fails, or there are no tables: the engine is disposed.
IntrospectFails ==
  /\ job # NoJob /\ job.step = "connect"
  /\ job' = NoJob /\ contacted' = AddressOf(job) /\ answer' = "test_failed"
  /\ UNCHANGED <<env, dns, live, row, engine>>

\* A create saves the row; both put the engine in the cache.
Store ==
  /\ job # NoJob /\ job.step = "store"
  /\ row' = IF job.kind = "create" THEN Encrypt(job.url) ELSE row
  /\ engine' = [url |-> job.url, hostaddr |-> job.hostaddr, schema |-> job.schema]
  /\ Reply(job.kind)
  /\ UNCHANGED <<env, dns, live>>

\* The insert fails: the engine is disposed.
StoreFails ==
  /\ job # NoJob /\ job.step = "store" /\ job.kind = "create"
  /\ Reply("error")
  /\ UNCHANGED <<env, dns, live, row, engine>>

Delete ==
  /\ job = NoJob /\ row # NoRow
  /\ row' = NoRow /\ engine' = NoEngine
  /\ Reply("deleted")
  /\ UNCHANGED <<env, dns, live>>

-----------------------------------------------------------------------------
(* What happens around it *)

\* The cache lets the engine go.
Expire ==
  /\ engine # NoEngine
  /\ engine' = NoEngine
  /\ Quiet /\ UNCHANGED <<env, dns, live, row, job>>

\* A pool that needs a connection opens one.
Reconnect ==
  /\ engine # NoEngine
  /\ contacted' = AddressOf(engine) /\ answer' = "none"
  /\ UNCHANGED <<env, dns, live, row, job, engine>>

DnsChanges(host, addresses) ==
  /\ dns' = [dns EXCEPT ![host] = addresses]
  /\ Quiet /\ UNCHANGED <<env, live, row, job, engine>>

Migrate(schema) ==
  /\ live' = schema
  /\ Quiet /\ UNCHANGED <<env, dns, row, job, engine>>

Restart(settings) ==
  /\ env' = settings /\ job' = NoJob /\ engine' = NoEngine
  /\ Quiet /\ UNCHANGED <<dns, live, row>>

Init ==
  /\ env \in Environments /\ dns = [h \in Hosts |-> {}] /\ live \in Schemas
  /\ row = NoRow /\ job = NoJob /\ engine = NoEngine
  /\ contacted = NoAddress /\ answer = "none"

Next ==
  \/ \E text \in Texts : Create(text)
  \/ Rebuild \/ Introspect \/ IntrospectFails \/ Store \/ StoreFails \/ Delete
  \/ Expire \/ Reconnect
  \/ \E host \in Hosts, addresses \in SUBSET Addresses : DnsChanges(host, addresses)
  \/ \E schema \in Schemas : Migrate(schema)
  \/ \E settings \in Environments : Restart(settings)

Spec == Init /\ [][Next]_vars

-----------------------------------------------------------------------------
(* Properties *)

\* Every variable has its type; in particular every engine has an address to connect to.
SavedTypeOK ==
  /\ env \in Environment /\ dns \in [Hosts -> SUBSET Addresses] /\ live \in Schemas
  /\ row = NoRow \/ row \in Row
  /\ job = NoJob \/ job \in Job
  /\ engine = NoEngine \/ engine \in Engine
  /\ contacted \in Addresses \cup {NoAddress}
  /\ answer \in {"none", "unsafe", "error", "unreadable", "test_failed", "create", "rebuild", "deleted"}

(***************************************************************************)
(* Whatever the host's entry says when a connection is opened, the first   *)
(* or one that a pool opens later: the address is a public one, since it   *)
(* is the address that was checked (connection_safety.py:76-81,            *)
(* connection.py:73).                                                      *)
(***************************************************************************)
OnlyCheckedAddresses == contacted # NoAddress => IsPublic(contacted)

\* An engine that is rebuilt connects with the very string the connection was saved with: the
\* saved form is a fixed point of the normalization (connections.py:138, 213).
EngineIsOfRow == engine # NoEngine => row # NoRow /\ engine.url = row.text

(***************************************************************************)
(* Keys are rotated by adding one and raising the version: a row that can  *)
(* be read before such a restart can be read after it, and a row can be    *)
(* read when it is saved (encryption.py:43-56).                            *)
(***************************************************************************)
OnlyAdded == \A v \in Versions : env.keys[v] # NoKey => env'.keys[v] = env.keys[v]

RotationKeepsRows ==
  [][row' # NoRow /\ (row # row' \/ (Decrypts(row) /\ OnlyAdded)) => Decrypts(row)']_vars

(***************************************************************************)
(* A connection that was saved is refused later only for what its host     *)
(* resolves to, or because its normal form is longer than what is accepted *)
(* (connection_safety.py:42, connections.py:213).                          *)
(***************************************************************************)
RefusedForItsHost ==
  [][row # NoRow /\ answer' = "unsafe" =>
       ~ResolvesPublic(dns[row.text.host]) \/ row.text.length > MaxLength]_vars
=============================================================================
