------------------------------ MODULE MCSaved ------------------------------
(***************************************************************************)
(* SavedConnection for TLC, composed with SchemaValidation: the candidates *)
(* of a generation are validated against the schema that was read when the *)
(* engine they will run on was built.                                      *)
(*                                                                         *)
(* Bounds: a base string and the ways to differ from it that matter, one   *)
(* at a time; queries of one scope with at most two tables or of two with  *)
(* one each, and one column, since every column is judged by itself; then  *)
(* a few that define names themselves, in use or not.  They are asked for  *)
(* while the settings and the host's entry are the first.                  *)
(***************************************************************************)
EXTENDS SavedConnection, SchemaValidation

CONSTANTS theHost, k1, k2, None

ASSUME ValidationAssumption == \A s \in Schemas \ {EmptySchema} : DOMAIN s \subseteq TableNames

VARIABLE asked  \* the query just validated, with the schema and the outcome, or None

mcVars == <<env, dns, live, row, job, engine, contacted, answer, asked>>

-----------------------------------------------------------------------------
Scoped(family, global, multicast, place) ==
  [family |-> family, global |-> global, multicast |-> multicast, place |-> place]

FirstAddress == Scoped("v4", TRUE, FALSE, 3)

MCAddresses == {FirstAddress, Scoped("v4", FALSE, FALSE, 1), Scoped("v6", TRUE, FALSE, 2),
                Scoped("v4", TRUE, TRUE, 4)}

Base == [driver |-> "postgresql", parses |-> TRUE, host |-> theHost, credentials |-> TRUE, port |-> TRUE,
         sslmode |-> "require", binding |-> "absent", other |-> FALSE, length |-> 60]

MCTexts ==
  {Base, [Base EXCEPT !.driver = "postgres", !.port = FALSE, !.sslmode = "absent"],
   [Base EXCEPT !.sslmode = "verify-full", !.binding = "prefer", !.length = MaxLength],
   [Base EXCEPT !.driver = "postgresql+psycopg2", !.sslmode = "absent", !.length = MaxLength],
   [Base EXCEPT !.driver = "mysql"], [Base EXCEPT !.parses = FALSE],
   [Base EXCEPT !.host = NoHost], [Base EXCEPT !.credentials = FALSE],
   [Base EXCEPT !.sslmode = "disable"], [Base EXCEPT !.binding = "unknown"],
   [Base EXCEPT !.other = TRUE], [Base EXCEPT !.length = 0],
   [Base EXCEPT !.length = MaxLength + 1]}

Settings(first, second, current) == [keys |-> <<first, second>>, current |-> current]

\* Rotated and back, another key under the old number, the old key lost, and two that are refused.
MCEnvironments ==
  {Settings(k1, NoKey, 1), Settings(k1, k2, 2), Settings(k2, NoKey, 1), Settings(NoKey, k2, 2),
   Settings(k1, NoKey, 2), Settings(k1, ShortKey, 1)}

FirstSchema == [a |-> {"x"}, b |-> {"y"}]

MCSchemas == {EmptySchema, FirstSchema}

-----------------------------------------------------------------------------
Id(name, spelling) == [name |-> name, spelling |-> spelling]

Refs == [table : {Id("a", "lower"), Id("a", "upper"), Id("b", "lower"), Id("c", "lower")},
         alias : {NoIdentifier, Id("s", "lower"), Id("s", "upper"), Id("b", "lower")}]

Cols == [qualifier : {NoIdentifier} \cup {Id(n, s) : n \in {"a", "s"}, s \in {"lower", "upper"}}
                                    \cup {Id("b", "lower")},
         column : ColumnNames, ordering : {FALSE}]

Plain(tables, columns) ==
  [tables : tables, columns : columns, derived : {{}}, ctes : {{}}, outputs : {{}}]

Joins == Plain({{t, u} : t, u \in Refs}, {{c} : c \in Cols})

OneScope == {<<scope>> : scope \in {join \in Joins : Distinct(join)}}

\* The column is the outer query's or the subquery's.
TwoScopes == LET one == Plain({{t} : t \in Refs}, {{}} \cup {{c} : c \in Cols})
             IN {query \in one \X one : query[1].columns = {} <=> query[2].columns # {}}

\* A subquery AS s, a WITH for c, which the schema lacks, or for b, which it has, and an output y.
OwnScope ==
  [tables : {{[table |-> Id(n, "lower"), alias |-> NoIdentifier]} : n \in {"a", "b", "c"}},
   columns : {{c} : c \in [qualifier : {NoIdentifier} \cup {Id(n, "lower") : n \in {"a", "c", "s"}},
                          column : ColumnNames, ordering : BOOLEAN]},
   derived : {{}, {[name |-> "s", columns |-> {"y"}]}},
   ctes    : {{}, {[name |-> "c", columns |-> {"y"}]}, {[name |-> "b", columns |-> {"x"}]}},
   outputs : {{}, {"y"}}]

\* The references are those of the scope that defines the names, or of a subquery in it.
OwnScopes ==
  {<<s>> : s \in OwnScope}
    \cup {<<[s EXCEPT !.tables = {}, !.columns = {}],
            [s EXCEPT !.derived = {}, !.ctes = {}, !.outputs = {}]>> : s \in OwnScope}

Queries == OneScope \cup TwoScopes \cup OwnScopes

MCInit == Init /\ asked = None

\* validate_sql of a candidate, with the schema of the entry that the generation was given.
Ask(query) ==
  /\ asked = None /\ engine # NoEngine /\ job = NoJob
  /\ env = Settings(k1, NoKey, 1) /\ dns = [host \in Hosts |-> {FirstAddress}]
  /\ engine.url = Base
  /\ asked' = [query |-> query, schema |-> engine.schema, valid |-> IsValid(query, engine.schema)]
  /\ Quiet /\ UNCHANGED <<env, dns, live, row, job, engine>>

Asked == asked # None /\ asked' = None /\ UNCHANGED vars

MCNext ==
  \/ asked = None /\ Next /\ UNCHANGED asked
  \/ \E query \in Queries : Ask(query)
  \/ Asked

MCSpec == MCInit /\ [][MCNext]_mcVars

-----------------------------------------------------------------------------
(***************************************************************************)
(* A query of one scope that uses its names as it declares them, and       *)
(* refers to none that it defines with WITH, in FROM or in its select      *)
(* list, is valid exactly when a database with the schema's tables         *)
(* resolves all of them (schema_validation.py:93-120).                     *)
(***************************************************************************)
OneScopeExact ==
  asked # None /\ Len(asked.query) = 1 /\ AsDeclared(asked.query) /\ ~NamesItsOwn(asked.query) =>
    (asked.valid <=> Resolves(asked.query, asked.schema))

(***************************************************************************)
(* A query that refers to tables and columns of the schema only, not to    *)
(* names that it defines itself, and that a database with the schema's     *)
(* tables resolves, is not refused, also with a subquery that refers to    *)
(* the tables around it, as long as no name is declared twice or hides a   *)
(* table's: the one alias_map of the query cannot tell those apart         *)
(* (schema_validation.py:95, 114).  Of queries that do refer to names of   *)
(* their own it says nothing; validate_sql refuses many that the database  *)
(* answers (94-97, 101-111).                                               *)
(***************************************************************************)
ResolvableAccepted ==
  /\ asked # None
  /\ NamesApart(asked.query) /\ ~NamesItsOwn(asked.query)
  /\ Resolves(asked.query, asked.schema)
  => asked.valid
=============================================================================
