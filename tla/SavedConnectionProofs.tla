----------------------- MODULE SavedConnectionProofs -----------------------
(***************************************************************************)
(* Proofs about SavedConnection, for all hosts, addresses, strings, keys   *)
(* and schemas that SavedAssumption admits, and about SchemaValidation,    *)
(* for all queries and schemas, by itself and as MCSaved composes it.      *)
(***************************************************************************)
EXTENDS MCSaved, WellFoundedInduction, TLAPS

LEMMA LeastNumber ==
  ASSUME NEW T \in SUBSET Nat, T # {} PROVE \E n \in T : \A m \in T : n <= m
<1> DEFINE less == {ss \in Nat \X Nat : ss[1] < ss[2]}
<1>1. IsWellFoundedOn(less, Nat)
  BY NatLessThanWellFounded DEF OpToRel
<1>2. PICK n \in T : \A m \in T : <<m, n>> \notin less
  <2> HIDE DEF less
  <2> QED
    BY <1>1, WFMin
<1>3. ASSUME NEW m \in T PROVE n <= m
  <2>1. m \in Nat /\ n \in Nat /\ <<m, n>> \in Nat \X Nat
    OBVIOUS
  <2>2. m < n => <<m, n>> \in less
    BY <2>1
  <2>3. ~(m < n)
    BY <1>2, <2>2
  <2> QED
    BY <2>1, <2>3
<1> QED
  BY <1>3

LEMMA LeastPlace ==
  ASSUME NEW among \in SUBSET Addresses, among # {}
  PROVE  \E a \in among : \A b \in among : a.place <= b.place
<1> DEFINE places == {a.place : a \in among}
<1>1. places \in SUBSET Nat /\ places # {}
  BY SavedAssumption DEF Address
<1>2. PICK n \in places : \A m \in places : n <= m
  <2> HIDE DEF places
  <2> QED
    BY <1>1, LeastNumber
<1>3. PICK a \in among : n = a.place
  BY <1>2
<1>4. \A b \in among : a.place <= b.place
  BY <1>2, <1>3
<1> QED
  BY <1>4

\* The address that is pinned is one that the host resolved to, and public.
LEMMA PinnedIsPublic ==
  ASSUME NEW addresses \in SUBSET Addresses, ResolvesPublic(addresses)
  PROVE  Pinned(addresses) \in addresses /\ IsPublic(Pinned(addresses))
<1> DEFINE v4    == {a \in addresses : a.family = "v4"}
           among == IF v4 = {} THEN addresses ELSE v4
<1>1. among \in SUBSET Addresses /\ among # {} /\ among \subseteq addresses
  BY DEF ResolvesPublic
<1>2. \E a \in among : \A b \in among : a.place <= b.place
  <2> HIDE DEF among
  <2> QED
    BY <1>1, LeastPlace
<1>3. Pinned(addresses) = CHOOSE a \in among : \A b \in among : a.place <= b.place
  BY DEF Pinned
<1>4. Pinned(addresses) \in among
  <2> HIDE DEF among
  <2> QED
    BY <1>2, <1>3
<1> QED
  BY <1>1, <1>4 DEF ResolvesPublic

\* What the normal form of an accepted string is like, but for its length.
IsNormal(text) ==
  /\ text.parses /\ text.driver = "postgresql" /\ text.host # NoHost /\ text.credentials
  /\ text.port /\ text.sslmode \in {"require", "verify-full"} /\ text.binding # "unknown"
  /\ ~text.other /\ text.length >= 1

LEMMA NormalOfText ==
  ASSUME NEW text \in Texts, WellFormed(text)
  PROVE  Normal(text) \in Text /\ IsNormal(Normal(text))
<1>1. text \in Text
  BY SavedAssumption
<1> DEFINE length == text.length + (CASE text.driver = "postgres" -> 2
                                      [] text.driver = "postgresql+psycopg" -> -8
                                      [] text.driver = "postgresql+psycopg2" -> -9
                                      [] OTHER -> 0)
                     + (IF text.port THEN 0 ELSE 5) + (IF text.sslmode = "absent" THEN 16 ELSE 0)
           sslmode == IF text.sslmode = "absent" THEN "require" ELSE text.sslmode
<1>2. length \in Nat /\ length >= 1
  <2>1. text.length \in Nat /\ text.length >= 1
    BY <1>1 DEF Text, WellFormed
  <2>2. text.driver \in {"postgresql+psycopg", "postgresql+psycopg2"} => text.length > 18
    BY SavedAssumption
  <2>3. text.driver \in {"postgres", "postgresql", "postgresql+psycopg", "postgresql+psycopg2", "mysql"}
    BY <1>1 DEF Text
  <2> QED
    BY <2>1, <2>2, <2>3
<1>3. sslmode \in {"require", "verify-full"}
  BY <1>1 DEF Text, WellFormed
<1>4. Normal(text) = [text EXCEPT !.driver = "postgresql", !.port = TRUE, !.sslmode = sslmode, !.length = length]
  BY DEF Normal
<1> HIDE DEF length, sslmode
<1>5. Normal(text) = [driver |-> "postgresql", parses |-> text.parses, host |-> text.host,
                      credentials |-> text.credentials, port |-> TRUE, sslmode |-> sslmode,
                      binding |-> text.binding, other |-> text.other, length |-> length]
  BY <1>1, <1>4 DEF Text
<1> QED
  BY <1>1, <1>2, <1>3, <1>5 DEF Text, IsNormal, WellFormed

\* Normalizing a normal form leaves it as it is.
LEMMA NormalOfNormal ==
  ASSUME NEW text \in Text, IsNormal(text) PROVE Normal(text) = text
<1>1. text.length + 0 + 0 + 0 = text.length
  BY DEF Text
<1>2. Normal(text) = [text EXCEPT !.driver = "postgresql", !.port = TRUE,
                                  !.sslmode = text.sslmode, !.length = text.length]
  BY <1>1 DEF Normal, IsNormal
<1>3. Normal(text) = [driver |-> text.driver, parses |-> text.parses, host |-> text.host,
                      credentials |-> text.credentials, port |-> text.port, sslmode |-> text.sslmode,
                      binding |-> text.binding, other |-> text.other, length |-> text.length]
  BY <1>2 DEF Text, IsNormal
<1>4. text = [driver |-> text.driver, parses |-> text.parses, host |-> text.host,
              credentials |-> text.credentials, port |-> text.port, sslmode |-> text.sslmode,
              binding |-> text.binding, other |-> text.other, length |-> text.length]
  BY DEF Text
<1> QED
  BY <1>3, <1>4

-----------------------------------------------------------------------------
(***************************************************************************)
(* What a running request may rely on, and what is left behind for later   *)
(* ones: addresses that were checked, strings in their normal form, and a  *)
(* row that was encrypted with a key of its version.                       *)
(***************************************************************************)
SavedInv ==
  /\ SavedTypeOK
  /\ OnlyCheckedAddresses
  /\ EngineIsOfRow
  /\ engine # NoEngine => IsPublic(engine.hostaddr)
  /\ row # NoRow => IsNormal(row.text)
  /\ job # NoJob =>
       /\ IsPublic(job.hostaddr) /\ IsNormal(job.url) /\ engine = NoEngine
       /\ job.kind = "create" => row = NoRow /\ Configured
       /\ job.kind = "rebuild" => row # NoRow /\ job.url = row.text

LEMMA SavedInit == Init => SavedInv
<1> SUFFICES ASSUME Init PROVE SavedInv
  OBVIOUS
<1>1. env \in Environment /\ dns \in [Hosts -> SUBSET Addresses]
  BY SavedAssumption DEF Init
<1> QED
  BY <1>1 DEF Init, SavedInv, SavedTypeOK, OnlyCheckedAddresses, EngineIsOfRow

\* A request that passes validate_connection_string.
LEMMA TargetIsGood ==
  ASSUME SavedInv, NEW kind \in {"create", "rebuild"}, NEW text, Accepted(text), job' = Target(kind, text),
         text \in Texts \/ (text \in Text /\ IsNormal(text))
  PROVE  /\ job' \in Job /\ job' # NoJob /\ job'.kind = kind
         /\ IsPublic(job'.hostaddr) /\ IsNormal(job'.url)
         /\ IsNormal(text) => job'.url = Normal(text)
<1>1. text \in Text /\ WellFormed(text)
  BY SavedAssumption DEF Accepted
<1>2. Normal(text) \in Text /\ IsNormal(Normal(text))
  BY <1>1, NormalOfText, NormalOfNormal
<1>3. text.host \in Hosts /\ ResolvesPublic(dns[text.host]) /\ dns[text.host] \in SUBSET Addresses
  BY <1>1 DEF Accepted, WellFormed, Text, SavedInv, SavedTypeOK
<1>4. Pinned(dns[text.host]) \in Addresses /\ IsPublic(Pinned(dns[text.host]))
  BY <1>3, PinnedIsPublic
<1>5. job' = [kind |-> kind, step |-> "connect", url |-> Normal(text),
              hostaddr |-> Pinned(dns[text.host]), schema |-> EmptySchema]
  BY DEF Target
<1>6. job' \in Job
  BY <1>2, <1>4, <1>5, SavedAssumption DEF Job
<1> QED
  BY <1>2, <1>4, <1>5, <1>6, SavedAssumption

LEMMA CreateKeeps ==
  ASSUME SavedInv, NEW text \in Texts, Create(text) PROVE SavedInv'
<1>1. CASE Configured /\ Accepted(text)
  <2>1. job' = Target("create", text) /\ Quiet
    BY <1>1 DEF Create, Begin
  <2>2. job' \in Job /\ job'.kind = "create" /\ IsPublic(job'.hostaddr) /\ IsNormal(job'.url)
    BY <1>1, <2>1, TargetIsGood
  <2> QED
    BY <1>1, <2>1, <2>2 DEF Create, Quiet, SavedInv, SavedTypeOK, OnlyCheckedAddresses, EngineIsOfRow, Configured
<1>2. CASE ~(Configured /\ Accepted(text))
  BY <1>2 DEF Create, Begin, Reply, SavedInv, SavedTypeOK, OnlyCheckedAddresses, EngineIsOfRow
<1> QED
  BY <1>1, <1>2

LEMMA RebuildKeeps == ASSUME SavedInv, Rebuild PROVE SavedInv'
<1>1. row \in Row /\ row.text \in Text /\ IsNormal(row.text)
  BY DEF Rebuild, SavedInv, SavedTypeOK, Row
<1>2. CASE job' = Target("rebuild", row.text) /\ Quiet /\ Accepted(row.text)
  <2>1. /\ job' \in Job /\ job'.kind = "rebuild" /\ IsPublic(job'.hostaddr) /\ IsNormal(job'.url)
        /\ job'.url = row.text
    BY <1>1, <1>2, TargetIsGood, NormalOfNormal
  <2> QED
    BY <1>1, <1>2, <2>1 DEF Rebuild, Quiet, SavedInv, SavedTypeOK, OnlyCheckedAddresses, EngineIsOfRow
<1>3. CASE \E what \in {"error", "unreadable", "unsafe"} : Reply(what)
  BY <1>3 DEF Rebuild, Reply, SavedInv, SavedTypeOK, OnlyCheckedAddresses, EngineIsOfRow
<1> QED
  BY <1>2, <1>3 DEF Rebuild, Begin

LEMMA StoreKeeps == ASSUME SavedInv, Store PROVE SavedInv'
<1>1. /\ job \in Job /\ job.url \in Text /\ job.hostaddr \in Addresses /\ job.schema \in Schemas
      /\ job.kind \in {"create", "rebuild"} /\ IsPublic(job.hostaddr) /\ IsNormal(job.url)
  BY DEF Store, SavedInv, SavedTypeOK, Job
<1>2. engine' = [url |-> job.url, hostaddr |-> job.hostaddr, schema |-> job.schema]
  BY DEF Store
<1>3. engine' \in Engine
  BY <1>1, <1>2 DEF Engine
<1>4. row' \in Row /\ row' # NoRow /\ row'.text = job.url
  <2>1. CASE job.kind = "create"
    <3>1. Configured /\ env \in Environment
      BY <2>1 DEF Store, SavedInv, SavedTypeOK
    <3>2. env.keys[env.current] \in Keys /\ env.current \in Versions
      BY <3>1 DEF Configured, Environment
    <3>3. row' = [text |-> job.url, key |-> env.keys[env.current], version |-> env.current]
      BY <2>1 DEF Store, Encrypt
    <3>4. row' \in Row
      BY <1>1, <3>2, <3>3 DEF Row
    <3> QED
      BY <3>3, <3>4, SavedAssumption
  <2>2. CASE job.kind = "rebuild"
    BY <1>1, <2>2 DEF Store, SavedInv, SavedTypeOK
  <2> QED
    BY <1>1, <2>1, <2>2
<1>5. /\ job' = NoJob /\ contacted' = NoAddress /\ answer' \in {"create", "rebuild"}
      /\ UNCHANGED <<env, dns, live>>
  BY <1>1 DEF Store, Reply
<1> QED
  BY <1>1, <1>2, <1>3, <1>4, <1>5 DEF SavedInv, SavedTypeOK, OnlyCheckedAddresses, EngineIsOfRow

LEMMA IntrospectKeeps == ASSUME SavedInv, Introspect PROVE SavedInv'
<1>1. job \in Job /\ live \in Schemas
  BY DEF Introspect, SavedInv, SavedTypeOK
<1>2. job' = [kind |-> job.kind, step |-> "store", url |-> job.url, hostaddr |-> job.hostaddr, schema |-> live]
  BY <1>1 DEF Introspect, Job
<1>3. job' \in Job
  BY <1>1, <1>2 DEF Job
<1>4. /\ job'.kind = job.kind /\ job'.url = job.url /\ job'.hostaddr = job.hostaddr
      /\ contacted' = job.hostaddr /\ job.hostaddr \in Addresses /\ answer' = "none"
      /\ UNCHANGED <<env, dns, live, row, engine>>
  BY <1>1, <1>2 DEF Introspect, AddressOf, Job
<1>5. job # NoJob
  BY DEF Introspect
<1> QED
  BY <1>3, <1>4, <1>5 DEF SavedInv, SavedTypeOK, OnlyCheckedAddresses, EngineIsOfRow, Configured

LEMMA SavedStep == SavedInv /\ [Next]_vars => SavedInv'
<1> SUFFICES ASSUME SavedInv, [Next]_vars PROVE SavedInv'
  OBVIOUS
<1> USE DEF SavedTypeOK, OnlyCheckedAddresses, EngineIsOfRow
<1>1. CASE \E text \in Texts : Create(text)
  BY <1>1, CreateKeeps
<1>2. CASE Rebuild
  BY <1>2, RebuildKeeps
<1>3. CASE Introspect
  BY <1>3, IntrospectKeeps
<1>4. CASE IntrospectFails
  BY <1>4 DEF IntrospectFails, AddressOf, SavedInv, Job
<1>5. CASE Store
  BY <1>5, StoreKeeps
<1>6. CASE StoreFails \/ Delete
  BY <1>6 DEF StoreFails, Delete, Reply, SavedInv
<1>7. CASE Expire
  BY <1>7 DEF Expire, Quiet, SavedInv, Configured
<1>8. CASE Reconnect
  BY <1>8 DEF Reconnect, AddressOf, SavedInv, Configured, Engine
<1>9. ASSUME NEW host \in Hosts, NEW addresses \in SUBSET Addresses, DnsChanges(host, addresses)
      PROVE  SavedInv'
  BY <1>9 DEF DnsChanges, Quiet, SavedInv, Configured
<1>10. ASSUME NEW schema \in Schemas, Migrate(schema) PROVE SavedInv'
  BY <1>10 DEF Migrate, Quiet, SavedInv, Configured
<1>11. ASSUME NEW settings \in Environments, Restart(settings) PROVE SavedInv'
  BY <1>11, SavedAssumption DEF Restart, Quiet, SavedInv
<1>12. CASE UNCHANGED vars
  BY <1>12 DEF vars, SavedInv, Configured
<1> QED
  BY <1>1, <1>2, <1>3, <1>4, <1>5, <1>6, <1>7, <1>8, <1>9, <1>10, <1>11, <1>12 DEF Next

\* SavedInv is inductive: row, request and engine agree at every step.
THEOREM SavedInvariant == Spec => []SavedInv
<1>1. Init => SavedInv
  BY SavedInit
<1>2. SavedInv /\ [Next]_vars => SavedInv'
  BY SavedStep
<1> QED
  BY <1>1, <1>2, PTL DEF Spec

\* SavedTypeOK: in particular every engine has an address to connect to.
THEOREM SavedTypeCorrect == Spec => []SavedTypeOK
<1>1. SavedInv => SavedTypeOK
  BY DEF SavedInv
<1> QED
  BY <1>1, SavedInvariant, PTL

\* OnlyCheckedAddresses: whatever the host's entry becomes, only public addresses are contacted.
THEOREM OnlyCheckedAddressesHolds == Spec => []OnlyCheckedAddresses
<1>1. SavedInv => OnlyCheckedAddresses
  BY DEF SavedInv
<1> QED
  BY <1>1, SavedInvariant, PTL

\* EngineIsOfRow: an engine connects with the string that the row holds.
THEOREM EngineIsOfRowHolds == Spec => []EngineIsOfRow
<1>1. SavedInv => EngineIsOfRow
  BY DEF SavedInv
<1> QED
  BY <1>1, SavedInvariant, PTL

\* RefusedForItsHost: a saved connection is refused only for its host, or the length of its normal form.
THEOREM RefusedForItsHostHolds == Spec => RefusedForItsHost
<1>1. SavedInv /\ [Next]_vars
      => [row # NoRow /\ answer' = "unsafe" =>
            ~ResolvesPublic(dns[row.text.host]) \/ row.text.length > MaxLength]_vars
  <2> SUFFICES ASSUME SavedInv, Next, row # NoRow, answer' = "unsafe"
               PROVE  ~ResolvesPublic(dns[row.text.host]) \/ row.text.length > MaxLength
    OBVIOUS
  <2>1. Rebuild
    BY DEF Next, Create, Introspect, IntrospectFails, Store, StoreFails, Delete, Expire, Reconnect,
           DnsChanges, Migrate, Restart, Quiet, Reply, SavedInv, SavedTypeOK, Job
  <2>2. ~Accepted(row.text)
    BY <2>1 DEF Rebuild, Begin, Quiet, Reply
  <2>3. IsNormal(row.text) /\ row.text.length \in Nat
    BY DEF SavedInv, SavedTypeOK, Row, Text
  <2>4. WellFormed(row.text) \/ row.text.length > MaxLength
    <3>1. row.text.length \in 1..MaxLength \/ row.text.length > MaxLength
      <4>1. row.text.length >= 1
        BY <2>3, Zenon DEF IsNormal
      <4>2. row.text.length \in Nat
        BY <2>3
      <4>3. MaxLength \in Nat
        BY DEF MaxLength
      <4> QED
        BY <4>1, <4>2, <4>3
    <3>2. /\ row.text.parses /\ row.text.driver = "postgresql" /\ row.text.host # NoHost
          /\ row.text.credentials /\ ~row.text.other /\ row.text.binding # "unknown"
          /\ row.text.sslmode = "require" \/ row.text.sslmode = "verify-full"
      BY <2>3, Zenon DEF IsNormal
    <3>3. row.text.driver # "mysql" /\ row.text.sslmode # "disable"
      BY <3>2
    <3> QED
      BY <3>1, <3>2, <3>3, Zenon DEF WellFormed
  <2> QED
    BY <2>2, <2>4 DEF Accepted
<1> QED
  BY <1>1, SavedInvariant, PTL DEF Spec, RefusedForItsHost

\* RotationKeepsRows: a row that can be read stays readable while keys are only added.
THEOREM RotationKeepsRowsHolds == Spec => RotationKeepsRows
<1>1. SavedInv /\ [Next]_vars
      => [row' # NoRow /\ (row # row' \/ (Decrypts(row) /\ OnlyAdded)) => Decrypts(row)']_vars
  <2> SUFFICES ASSUME SavedInv, Next, row' # NoRow, row # row' \/ (Decrypts(row) /\ OnlyAdded)
               PROVE  Decrypts(row)'
    OBVIOUS
  <2>1. CASE row' # row
    <3>1. Store /\ row' = Encrypt(job.url)
      BY <2>1 DEF Next, Create, Rebuild, Introspect, IntrospectFails, Store, StoreFails, Delete, Expire,
                  Reconnect, DnsChanges, Migrate, Restart
    <3>2. env' = env /\ row'.key = env.keys[env.current] /\ row'.version = env.current
      BY <3>1 DEF Store, Encrypt
    <3> QED
      BY <3>2 DEF Decrypts
  <2>2. CASE row' = row
    <3>1. row.key # NoKey /\ row.version \in Versions
      BY <2>2, SavedAssumption DEF SavedInv, SavedTypeOK, Row
    <3> QED
      BY <2>2, <3>1 DEF Decrypts, OnlyAdded
  <2> QED
    BY <2>1, <2>2
<1> QED
  BY <1>1, SavedInvariant, PTL DEF Spec, RotationKeepsRows
-----------------------------------------------------------------------------
(* The validation of queries *)

\* Among scopes there is an innermost one.
LEMMA InnermostOf ==
  ASSUME NEW i \in Nat, NEW scopes \in SUBSET (1..i), scopes # {}
  PROVE  Innermost(scopes) \in scopes
<1> DEFINE outwards == {i - j : j \in scopes}
<1>1. outwards \in SUBSET Nat /\ outwards # {}
  <2>1. \A j \in scopes : j \in Nat /\ i - j \in Nat
    OBVIOUS
  <2>2. PICK j \in scopes : TRUE
    OBVIOUS
  <2>3. i - j \in outwards
    BY <2>2
  <2> QED
    BY <2>1, <2>3
<1>2. PICK m \in outwards : \A k \in outwards : m <= k
  <2> HIDE DEF outwards
  <2> QED
    BY <1>1, LeastNumber
<1>3. PICK j \in scopes : m = i - j
  BY <1>2
<1>4. ASSUME NEW h \in scopes PROVE j >= h
  <2>1. i - h \in outwards
    OBVIOUS
  <2>2. i - j <= i - h
    BY <1>2, <1>3, <2>1
  <2>3. h \in Nat /\ j \in Nat
    OBVIOUS
  <2> QED
    BY <2>2, <2>3
<1> QED
  BY <1>4 DEF Innermost

(***************************************************************************)
(* For a query that refers to no name of its own, the reference comes down *)
(* to the schema's tables, under the names that the scopes give them.      *)
(***************************************************************************)
TablesVisible(query, i) == UNION {query[j].tables : j \in 1..i}

TablesMeant(query, i, c) ==
  LET declaring == {j \in 1..i : \E k \in KeysOf(query[j]) : Lower(k) = Lower(c.qualifier)}
  IN IF declaring = {} THEN {}
     ELSE {t \in query[Innermost(declaring)].tables : Lower(Key(t)) = Lower(c.qualifier)}

Has(t, column, schema) == Lower(t.table) \in DOMAIN schema /\ column \in schema[Lower(t.table)]

ResolvesInSchema(query, schema) ==
  \A i \in DOMAIN query :
    /\ \A t \in query[i].tables : Lower(t.table) \in DOMAIN schema
    /\ \A c \in query[i].columns :
         \E t \in IF c.qualifier = NoIdentifier THEN TablesVisible(query, i) ELSE TablesMeant(query, i, c) :
           Has(t, c.column, schema)

LEMMA OnlyTheSchemas ==
  ASSUME NEW query, NEW n \in Nat, DOMAIN query = 1..n, NEW schema, ~NamesItsOwn(query)
  PROVE  Resolves(query, schema) <=> ResolvesInSchema(query, schema)
<1>1. ASSUME NEW i \in DOMAIN query PROVE i \in Nat /\ 1..i \subseteq DOMAIN query
  OBVIOUS
<1>2. ASSUME NEW i \in DOMAIN query, NEW t \in query[i].tables
      PROVE  /\ Defining(query, i, t) = {}
             /\ \A column : column \in ColumnsOf(query, i, t, schema) <=> Has(t, column, schema)
  <2>1. Defining(query, i, t) = {}
    BY DEF NamesItsOwn
  <2> QED
    BY <2>1 DEF ColumnsOf, Has
<1> DEFINE Of(r, j, t) == r.name = Lower(Key(t)) /\ r.columns = ColumnsOf(query, j, t, schema)
<1>3. ASSUME NEW j \in DOMAIN query
      PROVE  /\ \A t \in query[j].tables : \E r \in Relations(query, j, schema) : Of(r, j, t)
             /\ \A r \in Relations(query, j, schema) :
                  r \in query[j].derived \/ \E t \in query[j].tables : Of(r, j, t)
             /\ query[j].derived \subseteq Relations(query, j, schema)
  <2> DEFINE It(t) == [name |-> Lower(Key(t)), columns |-> ColumnsOf(query, j, t, schema)]
  <2>1. Relations(query, j, schema) = {It(t) : t \in query[j].tables} \cup query[j].derived
    BY DEF Relations
  <2>2. \A t : Of(It(t), j, t)
    OBVIOUS
  <2> HIDE DEF It, Of
  <2> QED
    BY <2>1, <2>2
<1>4. ASSUME NEW i \in DOMAIN query, NEW c \in query[i].columns, c.qualifier = NoIdentifier
      PROVE  (\E r \in Visible(query, i, schema) : c.column \in r.columns)
             <=> \E t \in TablesVisible(query, i) : Has(t, c.column, schema)
  <2>1. \A j \in 1..i : \A r \in query[j].derived : c.column \notin r.columns
    BY <1>4 DEF NamesItsOwn
  <2>2. \A j \in 1..i : (\E r \in Relations(query, j, schema) : c.column \in r.columns)
                        <=> \E t \in query[j].tables : Has(t, c.column, schema)
    BY <1>1, <1>2, <1>3, <2>1
  <2> QED
    BY <2>2 DEF Visible, TablesVisible
<1>5. ASSUME NEW i \in DOMAIN query, NEW c \in query[i].columns, c.qualifier # NoIdentifier
      PROVE  (\E r \in Means(query, i, c, schema) : c.column \in r.columns)
             <=> \E t \in TablesMeant(query, i, c) : Has(t, c.column, schema)
  <2> DEFINE name  == Lower(c.qualifier)
             rels  == {j \in 1..i : \E r \in Relations(query, j, schema) : r.name = name}
             decls == {j \in 1..i : \E k \in KeysOf(query[j]) : Lower(k) = name}
  <2>1. \A j \in 1..i : \A r \in query[j].derived : r.name # name
    BY <1>5 DEF NamesItsOwn
  <2>2. \A j \in 1..i : (\E r \in Relations(query, j, schema) : r.name = name)
                        <=> \E k \in KeysOf(query[j]) : Lower(k) = name
    BY <1>3, <2>1 DEF KeysOf
  <2>3. rels = decls
    BY <2>2
  <2>4. ASSUME NEW j \in 1..i
        PROVE  (\E r \in {r \in Relations(query, j, schema) : r.name = name} : c.column \in r.columns)
               <=> \E t \in {t \in query[j].tables : Lower(Key(t)) = name} : Has(t, c.column, schema)
    BY <1>1, <1>2, <1>3, <2>1
  <2>5. decls # {} => Innermost(decls) \in 1..i
    BY <1>1, InnermostOf
  <2> QED
    BY <2>3, <2>4, <2>5 DEF Means, TablesMeant
<1>6. ASSUME NEW i \in DOMAIN query, NEW c \in query[i].columns PROVE ~NamesOutput(query[i], c)
  BY DEF NamesItsOwn
<1> QED
  BY <1>2, <1>4, <1>5, <1>6 DEF Resolves, ResolvesInSchema

\* A name that one scope declares, once, stands for the table that it was given to there.
LEMMA AliasStandsFor ==
  ASSUME NEW query, NEW n \in Nat, DOMAIN query = 1..n,
         NEW i \in 1..n, NEW t \in query[i].tables, Distinct(query[i]),
         \A j \in 1..n : Key(t) \in KeysOf(query[j]) => j = i
  PROVE  /\ Key(t) \in DOMAIN AliasMap(query)
         /\ AliasMap(query)[Key(t)] = t.table
<1> DEFINE k == Key(t)
           declaring == {j \in DOMAIN query : k \in KeysOf(query[j])}
<1>1. k \in KeysOf(query[i])
  BY DEF KeysOf
<1>2. declaring = {i}
  BY <1>1
<1>3. (CHOOSE j \in declaring : \A h \in declaring : j >= h) = i
  BY <1>2
<1>4. (CHOOSE u \in query[i].tables : Key(u) = k) = t
  <2>1. \A u \in query[i].tables : Key(u) = k => u = t
    BY DEF Distinct
  <2> QED
    BY <2>1
<1>5. k \in UNION {KeysOf(query[j]) : j \in DOMAIN query}
  BY <1>1
<1> QED
  BY <1>3, <1>4, <1>5 DEF AliasMap

\* Every name in the map is the key of a table of some scope.
LEMMA AliasIsDeclared ==
  ASSUME NEW query, NEW k \in DOMAIN AliasMap(query)
  PROVE  \E i \in DOMAIN query : \E t \in query[i].tables : k = Key(t)
BY DEF AliasMap, KeysOf

(***************************************************************************)
(* A query of one scope that uses its names as it declares them, and       *)
(* refers to none that it defines itself, is valid exactly when a database *)
(* with the schema's tables resolves all of them, however many tables and  *)
(* columns it names (schema_validation.py:93-120).                         *)
(***************************************************************************)
THEOREM OneScopeIsExact ==
  ASSUME NEW scope, NEW schema, Distinct(scope), AsDeclared(<<scope>>), ~NamesItsOwn(<<scope>>)
  PROVE  IsValid(<<scope>>, schema) <=> Resolves(<<scope>>, schema)
<1> DEFINE query == <<scope>>
           map   == AliasMap(query)
<1>1. DOMAIN query = 1..1 /\ query[1] = scope /\ 1..1 = {1}
  OBVIOUS
<1> HIDE DEF query
<1>2. \A t \in scope.tables : Key(t) \in DOMAIN map /\ map[Key(t)] = t.table
  BY <1>1, AliasStandsFor
<1>3. \A k \in DOMAIN map : \E t \in scope.tables : k = Key(t)
  BY <1>1, AliasIsDeclared
<1> HIDE DEF map
<1>4. ASSUME NEW c \in scope.columns, \A t \in scope.tables : Lower(t.table) \in DOMAIN schema
      PROVE  KnownColumn(c, map, schema)
             <=> \E t \in IF c.qualifier = NoIdentifier THEN TablesVisible(query, 1) ELSE TablesMeant(query, 1, c) :
                   Has(t, c.column, schema)
  <2>1. CASE c.qualifier = NoIdentifier
    <3>1. TablesVisible(query, 1) = scope.tables
      BY <1>1 DEF TablesVisible
    <3>2. KnownAnywhere(c.column, map, schema) <=> \E t \in scope.tables : Has(t, c.column, schema)
      BY <1>2, <1>3 DEF KnownAnywhere, Has
    <3> QED
      BY <2>1, <3>1, <3>2 DEF KnownColumn
  <2>2. CASE c.qualifier # NoIdentifier
    <3>1. PICK t \in scope.tables : c.qualifier = Key(t)
      BY <1>1, <2>2 DEF AsDeclared, KeysOf, query
    <3>2. TablesMeant(query, 1, c) = {t}
      <4> DEFINE declaring == {j \in 1..1 : \E k \in KeysOf(query[j]) : Lower(k) = Lower(c.qualifier)}
      <4>1. declaring = {1}
        BY <1>1, <3>1 DEF KeysOf
      <4>2. Innermost(declaring) = 1
        BY <4>1 DEF Innermost
      <4>3. {u \in scope.tables : Lower(Key(u)) = Lower(c.qualifier)} = {t}
        BY <3>1 DEF Distinct
      <4> QED
        BY <1>1, <4>1, <4>2, <4>3 DEF TablesMeant
    <3>3. KnownOfTable(c, map, schema) <=> Has(t, c.column, schema)
      BY <1>2, <1>4, <3>1 DEF KnownOfTable, Has
    <3> QED
      BY <2>2, <3>2, <3>3 DEF KnownColumn
  <2> QED
    BY <2>1, <2>2
<1>5. IsValid(query, schema) <=> /\ \A t \in scope.tables : Lower(t.table) \in DOMAIN schema
                                 /\ \A c \in scope.columns : KnownColumn(c, map, schema)
  BY <1>1 DEF IsValid, KnownTable, map
<1>6. ResolvesInSchema(query, schema) <=>
        /\ \A t \in scope.tables : Lower(t.table) \in DOMAIN schema
        /\ \A c \in scope.columns :
             \E t \in IF c.qualifier = NoIdentifier THEN TablesVisible(query, 1) ELSE TablesMeant(query, 1, c) :
               Has(t, c.column, schema)
  BY <1>1 DEF ResolvesInSchema
<1>7. Resolves(query, schema) <=> ResolvesInSchema(query, schema)
  <2>1. ~NamesItsOwn(query)
    BY DEF query
  <2> QED
    BY <1>1, <2>1, OnlyTheSchemas
<1>8. IsValid(query, schema) <=> Resolves(query, schema)
  BY <1>4, <1>5, <1>6, <1>7
<1> QED
  BY <1>8 DEF query

(***************************************************************************)
(* A query that refers to no name of its own, and that a database with the *)
(* schema's tables resolves, is not refused, however its scopes are        *)
(* nested, as long as no name is declared twice or hides a table's         *)
(* (schema_validation.py:95, 114).                                         *)
(***************************************************************************)
THEOREM ResolvableIsAccepted ==
  ASSUME NEW query, DOMAIN query = 1..Len(query), Len(query) \in Nat, NEW schema, DOMAIN schema \subseteq TableNames,
         \A i \in DOMAIN query : Distinct(query[i]),
         NamesApart(query), ~NamesItsOwn(query), Resolves(query, schema)
  PROVE  IsValid(query, schema)
<1> DEFINE map == AliasMap(query)
<1>1. DOMAIN query = 1..Len(query) /\ Len(query) \in Nat
  OBVIOUS
<1>0. ResolvesInSchema(query, schema)
  BY OnlyTheSchemas
<1>2. ASSUME NEW i \in DOMAIN query, NEW t \in query[i].tables,
             NEW j \in DOMAIN query, NEW u \in query[j].tables, Lower(Key(t)) = Lower(Key(u))
      PROVE  i = j /\ t = u
  <2>1. i = j
    BY <1>2 DEF NamesApart
  <2> QED
    BY <1>2, <2>1 DEF Distinct
<1>3. ASSUME NEW i \in DOMAIN query, NEW t \in query[i].tables
      PROVE  Key(t) \in DOMAIN map /\ map[Key(t)] = t.table
  <2>1. \A j \in DOMAIN query : Key(t) \in KeysOf(query[j]) => j = i
    BY <1>2 DEF KeysOf
  <2> QED
    BY <1>1, <2>1, AliasStandsFor
<1>4. \A k \in DOMAIN map : \E i \in DOMAIN query : \E t \in query[i].tables : k = Key(t)
  BY AliasIsDeclared
<1> HIDE DEF map
<1>5. ASSUME NEW i \in DOMAIN query, NEW c \in query[i].columns, c.qualifier = NoIdentifier
      PROVE  KnownColumn(c, map, schema)
  <2>1. PICK t \in TablesVisible(query, i) : Has(t, c.column, schema)
    BY <1>0, <1>5 DEF ResolvesInSchema
  <2>2. PICK j \in 1..i : t \in query[j].tables
    BY <2>1 DEF TablesVisible
  <2>3. j \in DOMAIN query
    BY <1>1, <2>2
  <2>4. Key(t) \in DOMAIN map /\ map[Key(t)] = t.table
    BY <1>3, <2>2, <2>3
  <2> QED
    BY <1>5, <2>1, <2>4 DEF KnownColumn, KnownAnywhere, Has
<1>6. ASSUME NEW i \in DOMAIN query, NEW c \in query[i].columns, c.qualifier # NoIdentifier
      PROVE  KnownColumn(c, map, schema)
  <2>1. PICK t \in TablesMeant(query, i, c) : Has(t, c.column, schema)
    BY <1>0, <1>6 DEF ResolvesInSchema
  <2> DEFINE declaring == {j \in 1..i : \E k \in KeysOf(query[j]) : Lower(k) = Lower(c.qualifier)}
  <2>2. \A j \in declaring : j \in DOMAIN query
    BY <1>1
  <2>3. \A j, h \in declaring : j = h
    BY <1>2, <2>2 DEF KeysOf
  <2>4. PICK j \in declaring : t \in query[j].tables /\ Lower(Key(t)) = Lower(c.qualifier)
    <3> DEFINE j == Innermost(declaring)
    <3>1. declaring # {} /\ t \in {u \in query[j].tables : Lower(Key(u)) = Lower(c.qualifier)}
      BY <2>1 DEF TablesMeant
    <3>2. j \in declaring
      <4>1. PICK g \in declaring : TRUE
        BY <3>1
      <4>2. \A h \in declaring : g >= h
        BY <1>1, <2>2, <2>3, <4>1
      <4> HIDE DEF declaring
      <4> QED
        BY <4>1, <4>2 DEF Innermost
    <3> QED
      BY <3>1, <3>2
  <2>5. j \in DOMAIN query /\ Key(t) \in DOMAIN map /\ map[Key(t)] = t.table
    BY <1>3, <2>2, <2>4
  <2>6. CASE c.qualifier \in DOMAIN map
    <3>1. PICK h \in DOMAIN query : \E u \in query[h].tables : c.qualifier = Key(u)
      BY <1>4, <2>6
    <3>2. PICK u \in query[h].tables : c.qualifier = Key(u)
      BY <3>1
    <3>3. t = u
      BY <1>2, <2>4, <2>5, <3>2
    <3> QED
      BY <1>6, <2>1, <2>5, <3>2, <3>3 DEF KnownColumn, KnownOfTable, Has
  <2>7. CASE c.qualifier \notin DOMAIN map
    <3>1. Lower(c.qualifier) \in DOMAIN schema => t.alias = NoIdentifier
      BY <2>4, <2>5 DEF NamesApart
    <3>2. Lower(c.qualifier) \in DOMAIN schema => Lower(c.qualifier) = Lower(t.table)
      BY <2>4, <3>1 DEF Key
    <3> QED
      BY <1>6, <2>1, <2>7, <3>2 DEF KnownColumn, KnownOfTable, Has
  <2> QED
    BY <2>6, <2>7
<1>7. \A i \in DOMAIN query : \A t \in query[i].tables : KnownTable(t, schema)
  BY <1>0 DEF ResolvesInSchema, KnownTable
<1> QED
  BY <1>5, <1>6, <1>7 DEF IsValid, map

(***************************************************************************)
(* With every column qualified by a table's name in its own scope, names   *)
(* that are apart and none that the query defines itself, the verdict is   *)
(* exact also for nested scopes: what is accepted can be resolved by a     *)
(* database with the schema's tables (schema_validation.py:93-120).        *)
(***************************************************************************)
THEOREM QualifiedIsExact ==
  ASSUME NEW query, DOMAIN query = 1..Len(query), Len(query) \in Nat, NEW schema, DOMAIN schema \subseteq TableNames,
         \A i \in DOMAIN query : Distinct(query[i]),
         NamesApart(query), AsDeclared(query), ~NamesItsOwn(query),
         \A i \in DOMAIN query : \A c \in query[i].columns : c.qualifier # NoIdentifier
  PROVE  IsValid(query, schema) <=> Resolves(query, schema)
<1>1. DOMAIN query = 1..Len(query) /\ Len(query) \in Nat
  OBVIOUS
<1>2. ASSUME IsValid(query, schema), NEW i \in DOMAIN query, NEW c \in query[i].columns
      PROVE  \E t \in TablesMeant(query, i, c) : Has(t, c.column, schema)
  <2>1. PICK t \in query[i].tables : c.qualifier = Key(t)
    BY DEF AsDeclared, KeysOf
  <2>2. \A j \in DOMAIN query : \A u \in query[j].tables : Lower(Key(u)) = Lower(Key(t)) => j = i
    BY DEF NamesApart
  <2>3. Key(t) \in DOMAIN AliasMap(query) /\ AliasMap(query)[Key(t)] = t.table
    <3>1. \A j \in DOMAIN query : Key(t) \in KeysOf(query[j]) => j = i
      BY <2>2 DEF KeysOf
    <3> QED
      BY <1>1, <3>1, AliasStandsFor
  <2>4. t \in TablesMeant(query, i, c)
    <3> DEFINE declaring == {j \in 1..i : \E k \in KeysOf(query[j]) : Lower(k) = Lower(c.qualifier)}
    <3>1. declaring = {i}
      <4>1. i \in declaring
        BY <1>1, <2>1 DEF KeysOf
      <4>2. ASSUME NEW j \in declaring PROVE j = i
        BY <1>1, <2>1, <2>2 DEF KeysOf
      <4> QED
        BY <4>1, <4>2
    <3>2. Innermost(declaring) = i
      BY <1>1, <3>1 DEF Innermost
    <3> QED
      BY <2>1, <3>1, <3>2 DEF TablesMeant
  <2>5. Has(t, c.column, schema)
    <3>1. KnownTable(t, schema) /\ KnownOfTable(c, AliasMap(query), schema)
      BY <1>2 DEF IsValid, KnownColumn
    <3> QED
      BY <2>1, <2>3, <3>1 DEF KnownTable, KnownOfTable, Has
  <2> QED
    BY <2>4, <2>5
<1>3. IsValid(query, schema) => ResolvesInSchema(query, schema)
  BY <1>2 DEF IsValid, ResolvesInSchema, KnownTable
<1>4. Resolves(query, schema) <=> ResolvesInSchema(query, schema)
  BY OnlyTheSchemas
<1> QED
  BY <1>3, <1>4, ResolvableIsAccepted

(***************************************************************************)
(* What is validated is what a generation asks for: one of the queries,    *)
(* against the schema of the engine, which was read from tables.           *)
(***************************************************************************)
AskedInv ==
  /\ live \in Schemas
  /\ job # NoJob /\ job.step = "store" => job.schema \in Schemas \ {EmptySchema}
  /\ engine # NoEngine => engine.schema \in Schemas \ {EmptySchema}
  /\ asked # None => /\ asked.query \in Queries
                     /\ DOMAIN asked.schema \subseteq TableNames
                     /\ asked.valid = IsValid(asked.query, asked.schema)

LEMMA AskedStep == AskedInv /\ [MCNext]_mcVars => AskedInv'
<1> SUFFICES ASSUME AskedInv, [MCNext]_mcVars PROVE AskedInv'
  OBVIOUS
<1> USE DEF Quiet, Reply
<1>1. CASE asked = None /\ Next /\ UNCHANGED asked
  <2>1. ASSUME NEW text \in Texts, Create(text) PROVE AskedInv'
    BY <1>1, <2>1 DEF AskedInv, Create, Begin, Target
  <2>2. CASE Rebuild
    BY <1>1, <2>2 DEF AskedInv, Rebuild, Begin, Target
  <2>3. CASE Introspect
    BY <1>1, <2>3 DEF AskedInv, Introspect
  <2>4. CASE Store
    BY <1>1, <2>4 DEF AskedInv, Store
  <2>5. CASE IntrospectFails \/ StoreFails \/ Delete
    BY <1>1, <2>5 DEF AskedInv, IntrospectFails, StoreFails, Delete
  <2>6. CASE Expire \/ Reconnect
    BY <1>1, <2>6 DEF AskedInv, Expire, Reconnect
  <2>7. ASSUME NEW host \in Hosts, NEW addresses \in SUBSET Addresses, DnsChanges(host, addresses)
        PROVE AskedInv'
    BY <1>1, <2>7 DEF AskedInv, DnsChanges
  <2>8. ASSUME NEW schema \in Schemas, Migrate(schema) PROVE AskedInv'
    BY <1>1, <2>8 DEF AskedInv, Migrate
  <2>9. ASSUME NEW settings \in Environments, Restart(settings) PROVE AskedInv'
    BY <1>1, <2>9 DEF AskedInv, Restart
  <2> QED
    BY <1>1, <2>1, <2>2, <2>3, <2>4, <2>5, <2>6, <2>7, <2>8, <2>9 DEF Next
<1>2. ASSUME NEW query \in Queries, Ask(query) PROVE AskedInv'
  <2>1. asked' = [query |-> query, schema |-> engine.schema, valid |-> IsValid(query, engine.schema)]
    BY <1>2 DEF Ask
  <2>2. DOMAIN engine.schema \subseteq TableNames
    BY <1>2, ValidationAssumption DEF Ask, AskedInv
  <2> QED
    BY <1>2, <2>1, <2>2 DEF Ask, AskedInv
<1>3. CASE Asked
  BY <1>3 DEF Asked, AskedInv, vars
<1>4. CASE UNCHANGED mcVars
  BY <1>4 DEF mcVars, AskedInv
<1> QED
  BY <1>1, <1>2, <1>3, <1>4 DEF MCNext

\* What asked records is a query, judged against the schema it was asked for.
THEOREM AskedInvariant == MCSpec => []AskedInv
<1>1. MCInit => AskedInv
  BY DEF MCInit, Init, AskedInv
<1> QED
  BY <1>1, AskedStep, PTL DEF MCSpec

\* The queries are sequences of scopes, in which no two tables have one name.
LEMMA QueriesAreScoped ==
  ASSUME NEW query \in Queries
  PROVE  /\ DOMAIN query = 1..Len(query) /\ Len(query) \in {1, 2}
         /\ Len(query) = 1 => query = <<query[1]>>
         /\ \A i \in DOMAIN query : Distinct(query[i])
<1>1. CASE query \in OneScope
  <2>1. PICK scope : Distinct(scope) /\ query = <<scope>>
    BY <1>1 DEF OneScope
  <2> QED
    BY <2>1
<1>2. CASE query \in TwoScopes
  <2> DEFINE one == Plain({{t} : t \in Refs}, {{}} \cup {{c} : c \in Cols})
  <2>1. query \in one \X one
    BY <1>2 DEF TwoScopes
  <2>2. \A scope \in one : Distinct(scope)
    BY DEF Plain, Distinct
  <2> HIDE DEF one
  <2>3. PICK outer \in one, inner \in one : query = <<outer, inner>>
    BY <2>1
  <2> QED
    BY <2>2, <2>3
<1>3. CASE query \in OwnScopes
  <2>1. PICK s \in OwnScope :
          \/ query = <<s>>
          \/ query = <<[s EXCEPT !.tables = {}, !.columns = {}],
                       [s EXCEPT !.derived = {}, !.ctes = {}, !.outputs = {}]>>
    BY <1>3 DEF OwnScopes
  <2>2. \A r \in s.derived : r = [name |-> "s", columns |-> {"y"}]
    BY DEF OwnScope
  <2>3. \A t \in s.tables : Lower(Key(t)) \in {"a", "b", "c"}
    BY DEF OwnScope, Lower, Key, Id
  <2>4. \A t, u \in s.tables : t = u
    BY DEF OwnScope
  <2>5. /\ Distinct(s)
        /\ Distinct([s EXCEPT !.tables = {}, !.columns = {}])
        /\ Distinct([s EXCEPT !.derived = {}, !.ctes = {}, !.outputs = {}])
    BY <2>2, <2>3, <2>4 DEF Distinct, OwnScope
  <2> QED
    BY <2>1, <2>5
<1> QED
  BY <1>1, <1>2, <1>3 DEF Queries

\* OneScopeExact: a query of one scope without names of its own is valid exactly when it resolves.
THEOREM OneScopeExactHolds == MCSpec => []OneScopeExact
<1>1. AskedInv => OneScopeExact
  <2> SUFFICES ASSUME AskedInv, asked # None, Len(asked.query) = 1, AsDeclared(asked.query),
                      ~NamesItsOwn(asked.query)
               PROVE  asked.valid <=> Resolves(asked.query, asked.schema)
    BY DEF OneScopeExact
  <2>1. asked.query = <<asked.query[1]>> /\ Distinct(asked.query[1])
    BY QueriesAreScoped DEF AskedInv
  <2>2. IsValid(asked.query, asked.schema) <=> Resolves(asked.query, asked.schema)
    <3> DEFINE scope == asked.query[1]
    <3>1. asked.query = <<scope>> /\ Distinct(scope)
      BY <2>1
    <3> HIDE DEF scope
    <3>2. AsDeclared(<<scope>>) /\ ~NamesItsOwn(<<scope>>)
      BY <3>1
    <3> QED
      BY <3>1, <3>2, OneScopeIsExact
  <2> QED
    BY <2>2 DEF AskedInv
<1> QED
  BY <1>1, AskedInvariant, PTL

\* ResolvableAccepted: a query that names only the schema's tables and columns, and resolves, is not refused.
THEOREM ResolvableAcceptedHolds == MCSpec => []ResolvableAccepted
<1>1. AskedInv => ResolvableAccepted
  <2> SUFFICES ASSUME AskedInv, asked # None, NamesApart(asked.query), ~NamesItsOwn(asked.query),
                      Resolves(asked.query, asked.schema)
               PROVE  asked.valid
    BY DEF ResolvableAccepted
  <2>1. asked.query \in Queries /\ DOMAIN asked.schema \subseteq TableNames
    BY DEF AskedInv
  <2>2. DOMAIN asked.query = 1..Len(asked.query) /\ Len(asked.query) \in Nat
        /\ \A i \in DOMAIN asked.query : Distinct(asked.query[i])
    BY <2>1, QueriesAreScoped
  <2>3. IsValid(asked.query, asked.schema)
    BY <2>1, <2>2, ResolvableIsAccepted
  <2> QED
    BY <2>3 DEF AskedInv
<1> QED
  BY <1>1, AskedInvariant, PTL

=============================================================================
