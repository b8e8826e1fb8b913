--------------------------------- MODULE MCRules ---------------------------------
(***************************************************************************)
(* The inputs RulesProperties is asked about.                              *)
(***************************************************************************)
EXTENDS RulesProperties, TLC

-----------------------------------------------------------------------------
(***************************************************************************)
(* Result sets: users(id uuid, name) and orders(id, total) discovered, or  *)
(* no schema at all; a selection of two columns, a count, "*", a join; a   *)
(* payload of one or two rows, with a UUID, a number or nothing as id.     *)
(***************************************************************************)
MCWidth == "int2" :> 2 @@ "int4" :> 3 @@ "int8" :> 5

MCNames == <<"?column?", "?text?", "*", "count", "created_at", "email", "id", "name", "total", "updated_at">>
MCLike == [n \in {MCNames[i] : i \in DOMAIN MCNames} |->
    CASE n = "id" -> {"id"} [] n \in {"count", "total"} -> {"count"}
      [] n \in {"created_at", "updated_at"} -> {"at", "_at"} [] OTHER -> {}]
MCTables == <<"orders", "users">>

Column(qual, name, alias) == [form |-> "column", qual |-> qual, name |-> name, alias |-> alias, cast |-> FALSE]
CountAs(alias) == [form |-> "call", qual |-> "", name |-> "count", alias |-> alias, cast |-> FALSE]
Star == [form |-> "star", qual |-> "", name |-> "*", alias |-> "", cast |-> FALSE]
One == [form |-> "expression", qual |-> "", name |-> "?column?", alias |-> "", cast |-> FALSE]

Ref(word, table) == [word |-> word, schema |-> "", table |-> table, alias |-> ""]
Lists ==
    {<<Column("", "id", ""), Column("", "name", "")>>, <<CountAs("")>>, <<CountAs("name")>>, <<Star>>, <<One>>,
     <<Column("", "id", "total")>>, <<Column("users", "id", ""), Column("orders", "total", "")>>,
     <<Column("orders", "total", "name")>>, <<[Column("", "id", "") EXCEPT !.cast = TRUE]>>}

Select(list, refs) ==
    [verb |-> "SELECT", select |-> list, returning |-> None, refs |-> refs,
     words |-> {refs[i].table : i \in DOMAIN refs}]
Insert(list) ==
    [verb |-> "INSERT", select |-> None, returning |-> list, refs |-> <<Ref("into", "users")>>, words |-> {"users"}]

PgQueries ==
    {Select(l, r) : l \in Lists, r \in {<<Ref("from", "users")>>, <<Ref("from", "users"), Ref("join", "orders")>>}}
        \cup {Insert(l) : l \in {<<Column("", "id", ""), Column("", "name", "")>>, <<Star>>}}

Discovered ==
    "users" :> <<[field |-> "id", type |-> "uuid"], [field |-> "name", type |-> "varchar"]>>
        @@ "orders" :> <<[field |-> "id", type |-> "int8"], [field |-> "total", type |-> "numeric"]>>
Caches == {Discovered, [t \in {} |-> << >>]}

Val(kind, n) == [kind |-> kind, n |-> n, whole |-> kind \in {"int", "digits"}]
Ids == {Val("uuid", 0), Val("int", 1), Val("int", 9), Val("digits", 2), Pg!NullValue}
Others == {Val("text", 0), Val("int", 3)}
PgRows ==
    {"id" :> i @@ "name" :> v : i \in Ids, v \in Others} \cup {"count" :> v : v \in Ids}
        \cup {"id" :> i @@ "total" :> v : i \in Ids, v \in {Val("digits", 3)}}

File(rows) == [readable |-> TRUE, rows |-> rows, affected |-> None]
Files == {None, [readable |-> FALSE, rows |-> << >>, affected |-> None], File(<< >>)}
            \cup {File(<<r>>) : r \in PgRows}
            \cup {File(<<r, "id" :> Val("uuid", 0)>>) : r \in {"id" :> i : i \in Ids}}

PgMock(channel, file, empty) ==
    [channel |-> channel, table |-> "", tables |-> <<"users">>, error |-> FALSE, empty |-> empty,
     file |-> file, sql |-> None]
PgMocks == {PgMock(ch, f, FALSE) : ch \in {"read", "write"}, f \in Files} \cup {PgMock("read", None, TRUE)}

Backwards == [i \in DOMAIN MCNames |-> MCNames[Len(MCNames) + 1 - i]]

PgRowCases ==
    {c \in [query: PgQueries, mock: PgMocks, cache: Caches, codes: {<< >>, <<0>>, <<1>>, <<1, 0>>},
            describe: {"none", "statement", "portal", "simple"}, other: BOOLEAN, order: {MCNames, Backwards}] :
        /\ c.describe = "simple" => c.codes = << >>
        /\ (c.mock.channel = "write") = (c.query.verb = "INSERT")
        /\ c.mock.channel = "read" => c.order = MCNames
        /\ c.other => c.describe = "statement"}

\* Describe looks the mock up without the values of the Bind, and may find another or none.
PgRowInputs ==
    {[query |-> c.query, mock |-> c.mock, cache |-> c.cache, codes |-> c.codes, describe |-> c.describe,
      peeked |-> IF c.other THEN None ELSE c.mock, order |-> c.order] : c \in PgRowCases}

DigitSeqs(max) == UNION {[1..k -> {0, 1, 9}] : k \in 0..max}
PgNumbers == {n \in [neg : BOOLEAN, int : DigitSeqs(4), frac : DigitSeqs(4)] : n.int # << >> \/ n.frac # << >>}

-----------------------------------------------------------------------------
(***************************************************************************)
(* Spec files: up to three clauses of one statement, or a statement with   *)
(* two clauses and one with one, triggered by HTTP or an event; the        *)
(* clauses at the margin or indented, a SQL text on one line or more; a    *)
(* statement or a clause that comes after RESPOND.                         *)
(***************************************************************************)
Line(kind, text) ==
    [kind |-> kind, text |-> text, value |-> "", key |-> "", pair |-> FALSE, indented |-> FALSE, valid |-> TRUE,
     channel |-> "", name |-> "", call |-> 0, verb |-> ""]
Entry(key, text) == [Line("entry", text) EXCEPT !.pair = TRUE, !.key = key, !.indented = TRUE]
Expecting(kind, channel, name, call) == [Line(kind, "") EXCEPT !.channel = channel, !.name = name, !.call = call]

ClauseLines ==
    {<<Line("HEADERS", ""), Entry("a", "1"), Entry("b", "2")>>, <<Line("WITH", "body")>>,
     <<[Line("RETURNS", "File") EXCEPT !.value = "rows"]>>, <<[Line("RETURNS", "ErrorCode") EXCEPT !.value = "40001"]>>,
     <<Line("VERIFY", "query CONTAINS")>>, <<Line("VERIFY", "query MATCHES")>>, <<Line("ACCESSING_TABLES", "users")>>,
     <<Line("VERIFY_WHERE", ""), Entry("id", "v")>>, <<Line("USING_SQL", ""), Line("entry", "SELECT"), Line("quotes", "")>>,
     <<Line("USING_SQL", "SELECT")>>, <<Line("VERIFY_OPERATION", "DELETE")>>, <<Line("NO_TRANSACTION", "")>>}

Indent(clause) == [i \in DOMAIN clause |-> [clause[i] EXCEPT !.indented = TRUE]]
SpecClauses == ClauseLines \cup {Indent(c) : c \in ClauseLines}
\* Three clauses only of the kinds that are neither refused nor alike.
Typical == {c \in ClauseLines : c[1].kind \notin {"NO_TRANSACTION", "ACCESSING_TABLES", "RETURNS", "WITH"} /\ c[1].text # "SELECT"}
ClauseSeqs(max) == UNION {[1..n -> IF n = 3 THEN Typical ELSE ClauseLines] : n \in 0..max} \cup [1..2 -> SpecClauses]

SpecLines ==
    {Expecting("EXPECT", "WRITE:MYSQL", "users", 1), Expecting("EXPECT_NOT", "READ:ORACLE", "", 0),
     Expecting("EXPECT", "HTTP", "v", 0), Expecting("EXPECT", "HTTP", "", 0)}

Says(line, clauses) == [line |-> line, clauses |-> clauses]
StatementSeqs ==
    {<<Says(l, cs)>> : l \in SpecLines, cs \in ClauseSeqs(3)}
        \cup {<<Says(l, cs), Says(m, ds)>> : l \in SpecLines, m \in SpecLines,
                    cs \in [1..1 -> ClauseLines], ds \in [1..1 -> ClauseLines]}

Respond == Line("RESPOND", "200")
SpecHeads == {<<Line("TEST", "name"), Line("RECEIVE", t)>> : t \in {"HTTP", "EVENT"}}
SpecTails ==
    {<<Respond>>, << >>, <<Respond, Line("WITH", "body")>>, <<Respond, Line("RETURNS", "Empty")>>,
     <<Respond, Expecting("EXPECT", "EVENT", "done", 0)>>}

SpecCases ==
    [head : SpecHeads, statements : StatementSeqs, tail : {<<Respond>>}]
        \cup [head : SpecHeads, statements : {<<Says(l, cs)>> : l \in SpecLines, cs \in ClauseSeqs(1)}, tail : SpecTails]

-----------------------------------------------------------------------------
(***************************************************************************)
(* MySQL: payloads of every shape with one or two rows; a row of six, and  *)
(* of seven columns, whose null bitmap ends in and after its first byte;   *)
(* counts at the borders of the length encoding; up to nine attributes.    *)
(***************************************************************************)
MySqlVal(kind, text, n) == [kind |-> kind, text |-> text, n |-> n, digits |-> kind = "int"]
MySqlVals == {MySql!NullValue, MySql!Text("a"), MySqlVal("int", "1", 1), MySqlVal("float", "1e+06", 1000000)}
MyRow(fields) == [kind |-> "row", fields |-> fields]
MySmall == UNION {[names -> MySqlVals] : names \in {{}, {"id"}, {"id", "zip"}, {"name", "zip"}}}
MyWide == UNION {[names -> {MySql!NullValue, MySql!Text("a")}] :
                    names \in {{"id", "name", "email", "password", "token", "zip"},
                               {"id", "name", "email", "password", "token", "created_at", "zip"}}}
MyPayload(kind, items, fields) == [kind |-> kind, items |-> items, fields |-> fields]
NoFields == [f \in {} |-> None]
MyPayloads ==
    {MyPayload(k, << >>, NoFields) : k \in {"none", "unreadable", "scalar", "list", "rows"}}
        \cup {MyPayload("object", << >>, f) : f \in MySmall \cup MyWide}
        \cup {MyPayload(k, <<[kind |-> "other"], MyRow(f), MyRow(g)>>, NoFields) : k \in {"list", "rows"}, f \in MySmall, g \in MySmall}

MyMock(channel, payload, empty) == [channel |-> channel, table |-> "users", payload |-> payload, empty |-> empty]
MySqlCase(mock, caps, order, binary) == [mock |-> mock, caps |-> caps, order |-> order, binary |-> binary]
MySqlRowCases ==
    {MySqlCase(MyMock("read", p, e), caps, order, b) :
        p \in MyPayloads, e \in BOOLEAN, caps \in SUBSET {"deprecateEOF", "optionalMeta"},
        order \in {<<"id", "name", "zip">>, <<"zip", "name", "id">>}, b \in BOOLEAN}

Borders == {0, 1, 250, 251, 255, 256, 65535, 65536, 16777215, 16777216, 2147483647}
MySqlWriteCases ==
    {MySqlCase(MyMock("write", MyPayload("object", << >>,
        "affected_rows" :> MySqlVal("int", "", m) @@ "last_insert_id" :> MySqlVal("int", "", n)), FALSE), {}, << >>, FALSE) :
            m \in Borders, n \in Borders}

MySqlQueryCases ==
    {[count |-> k, nulls |-> nulls, typed |-> typed] : k \in 0..9, nulls \in SUBSET {0, 1, 6, 7, 8}, typed \in BOOLEAN}
MySqlQueries == {c \in MySqlQueryCases : \A i \in c.nulls : i < c.count}

MySchemaColumn == [f \in {MySql!SchemaColumns[i] : i \in DOMAIN MySql!SchemaColumns} |-> "x"]
MySqlSchemas ==
    {<<[MySchemaColumn EXCEPT !["Collation"] = a, !["Default"] = b, !["Privileges"] = p], MySchemaColumn>> :
        a \in {"", "utf8"}, b \in {"", "0"}, p \in {"", "select"}}

MCCases ==
    "pg rows" :> PgRowInputs @@ "pg number" :> PgNumbers @@ "spec" :> SpecCases
        @@ "mysql rows" :> MySqlRowCases @@ "mysql write" :> MySqlWriteCases
        @@ "mysql query" :> MySqlQueries @@ "mysql schema" :> MySqlSchemas

MCVariables == {"v"}
=============================================================================
