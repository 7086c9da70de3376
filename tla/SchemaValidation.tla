-------------------------- MODULE SchemaValidation --------------------------
(***************************************************************************)
(* validate_sql of src/app/services/schema_validation.py with a live       *)
(* schema: does a query only name tables and columns that exist?           *)
(*                                                                         *)
(* A query is what sqlglot's tree shows validate_sql: the table references *)
(* and the column references of its scopes, the outer query first and the  *)
(* subquery in it, if there is one, second.  find_all goes through the     *)
(* tree level by level, so that a subquery's tables come after the outer   *)
(* query's.  An identifier has a name, folded to lower case, and a         *)
(* spelling.  A schema is the function that extract_column_names returns.  *)
(*                                                                         *)
(* Queries also name things themselves: a WITH the tables it defines, FROM *)
(* a subquery's result, the select list its columns.  validate_sql does    *)
(* not look at these definitions, only at the references; what they hold   *)
(* is part of a scope so that the reference below can look at it.          *)
(***************************************************************************)
EXTENDS Naturals, Sequences

CONSTANTS TableNames, AliasNames, ColumnNames, NoIdentifier

Identifier == [name : TableNames \cup AliasNames, spelling : {"lower", "upper"}]

TableRef == [table : Identifier, alias : Identifier \cup {NoIdentifier}]

\* Columns are only compared in lower case.  One that is ordering stands alone in ORDER BY
\* or GROUP BY.
ColumnRef == [qualifier : Identifier \cup {NoIdentifier}, column : ColumnNames, ordering : BOOLEAN]

\* A table or a subquery's result as others see it, in lower case.
Relation == [name : TableNames \cup AliasNames, columns : SUBSET ColumnNames]

\* derived are the named subqueries in FROM, ctes the tables a WITH defines, outputs the names
\* that AS gives in the select list.  The bodies of the first two are left out.
Scope == [tables : SUBSET TableRef, columns : SUBSET ColumnRef,
          derived : SUBSET Relation, ctes : SUBSET Relation, outputs : SUBSET ColumnNames]

Lower(identifier) == identifier.name

\* t.alias or t.name
Key(t) == IF t.alias = NoIdentifier THEN t.table ELSE t.alias

KeysOf(scope) == {Key(t) : t \in scope.tables}

\* alias_map: one for the whole query, and what comes later replaces what was there.
AliasMap(query) ==
  [k \in UNION {KeysOf(query[i]) : i \in DOMAIN query} |->
     LET declaring == {i \in DOMAIN query : k \in KeysOf(query[i])}
         last      == CHOOSE i \in declaring : \A j \in declaring : i >= j
     IN (CHOOSE t \in query[last].tables : Key(t) = k).table]

\* Mutant: the table's name is compared as it is spelled.
Mutant_KnownTable(t, schema) == Lower(t.table) \in DOMAIN schema /\ t.table.spelling = "lower"

KnownTable(t, schema) == Lower(t.table) \in DOMAIN schema

\* Mutant: a column without a qualifier is skipped.
Mutant_KnownAnywhere(column, map, schema) == TRUE

\* A column without a qualifier may be one of any table of the query.
KnownAnywhere(column, map, schema) ==
  \E k \in DOMAIN map : Lower(map[k]) \in DOMAIN schema /\ column \in schema[Lower(map[k])]

\* alias_map.get(alias, alias): a qualifier is looked up as it is spelled.  A table that the
\* schema lacks has been reported already, or is none, and the column is not looked at.
KnownOfTable(c, map, schema) ==
  LET table == Lower(IF c.qualifier \in DOMAIN map THEN map[c.qualifier] ELSE c.qualifier)
  IN table \in DOMAIN schema => c.column \in schema[table]

KnownColumn(c, map, schema) ==
  IF c.qualifier = NoIdentifier THEN KnownAnywhere(c.column, map, schema)
                                ELSE KnownOfTable(c, map, schema)

\* is_valid: no problem was found.
IsValid(query, schema) ==
  \A i \in DOMAIN query :
    /\ \A t \in query[i].tables : KnownTable(t, schema)
    /\ \A c \in query[i].columns : KnownColumn(c, AliasMap(query), schema)

-----------------------------------------------------------------------------
(***************************************************************************)
(* The reference: how a database whose tables are those of the schema      *)
(* resolves the names.  An ambiguous column counts as resolved, and there  *)
(* are references it does not know: system columns, whole rows, a          *)
(* qualified star, functions in FROM, and views and further schemas, which *)
(* get_live_schema does not read (connection.py:27-31).                    *)
(***************************************************************************)

\* A database refuses two relations under one name in a scope.
Distinct(scope) ==
  /\ \A t, u \in scope.tables : Lower(Key(t)) = Lower(Key(u)) => t = u
  /\ \A r, s \in scope.derived : r.name = s.name => r = s
  /\ \A t \in scope.tables, r \in scope.derived : Lower(Key(t)) # r.name

Innermost(scopes) == CHOOSE j \in scopes : \A h \in scopes : j >= h

\* The scopes around a table's reference whose WITH defines its name.
Defining(query, i, t) == {j \in 1..i : \E w \in query[j].ctes : w.name = Lower(t.table)}

\* The name that a WITH defines hides the schema's table.
ColumnsOf(query, i, t, schema) ==
  LET defining == Defining(query, i, t)
  IN IF defining # {}
     THEN UNION {w.columns : w \in {w \in query[Innermost(defining)].ctes : w.name = Lower(t.table)}}
     ELSE IF Lower(t.table) \in DOMAIN schema THEN schema[Lower(t.table)] ELSE {}

\* What the FROM of scope i brings in.
Relations(query, i, schema) ==
  {[name |-> Lower(Key(t)), columns |-> ColumnsOf(query, i, t, schema)] : t \in query[i].tables}
    \cup query[i].derived

\* The relations column references of scope i may mean: a subquery sees the outer query's, too.
Visible(query, i, schema) == UNION {Relations(query, j, schema) : j \in 1..i}

\* The innermost scope that declares a qualifier decides.
Means(query, i, c, schema) ==
  LET declaring == {j \in 1..i : \E r \in Relations(query, j, schema) : r.name = Lower(c.qualifier)}
  IN IF declaring = {} THEN {}
     ELSE {r \in Relations(query, Innermost(declaring), schema) : r.name = Lower(c.qualifier)}

\* ORDER BY and GROUP BY know the names that the select list gives.
NamesOutput(scope, c) == c.ordering /\ c.qualifier = NoIdentifier /\ c.column \in scope.outputs

Resolves(query, schema) ==
  \A i \in DOMAIN query :
    /\ \A t \in query[i].tables : Defining(query, i, t) # {} \/ Lower(t.table) \in DOMAIN schema
    /\ \A c \in query[i].columns :
         \/ NamesOutput(query[i], c)
         \/ \E r \in IF c.qualifier = NoIdentifier THEN Visible(query, i, schema)
                                                   ELSE Means(query, i, c, schema) :
              c.column \in r.columns

\* Some reference is, or might be, to a name that the query defines itself.
NamesItsOwn(query) ==
  \E i \in DOMAIN query :
    \/ \E t \in query[i].tables : Defining(query, i, t) # {}
    \/ \E c \in query[i].columns :
         \/ NamesOutput(query[i], c)
         \/ \E j \in 1..i : \E r \in query[j].derived :
              IF c.qualifier = NoIdentifier THEN c.column \in r.columns ELSE r.name = Lower(c.qualifier)

\* Every name is declared by one scope only, and no alias is the name of a table.
NamesApart(query) ==
  /\ \A i, j \in DOMAIN query : \A t \in query[i].tables, u \in query[j].tables :
       Lower(Key(t)) = Lower(Key(u)) => i = j
  /\ \A i \in DOMAIN query : \A t \in query[i].tables : Lower(Key(t)) \in TableNames => t.alias = NoIdentifier

\* Qualifiers are declared, and used as they are spelled where they are declared.
AsDeclared(query) ==
  \A i \in DOMAIN query : \A c \in query[i].columns :
    c.qualifier = NoIdentifier \/ c.qualifier \in KeysOf(query[i])
=============================================================================
