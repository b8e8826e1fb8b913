-------------------------------- MODULE PgResults --------------------------------
(***************************************************************************)
(* The result sets the PostgreSQL proxy makes up: which columns a mocked   *)
(* query has, what Describe says of them and what Execute sends.           *)
(*                                                                         *)
(* A query is a record                                                     *)
(*   [verb      |-> the word it starts with,                               *)
(*    select    |-> the items of its top-level SELECT list, or None,       *)
(*    returning |-> the items of its RETURNING list, or None,              *)
(*    refs      |-> the tables after FROM, INTO, UPDATE and JOIN, each     *)
(*                  [word, schema, table, alias],                          *)
(*    words     |-> every word in it]                                      *)
(* and an item of a list                                                   *)
(*   [form  |-> "column" | "call" | "expression" | "star",                 *)
(*    qual  |-> a table or alias, or "", name |-> of the column or the     *)
(*    function, alias |-> a name or "", cast |-> BOOLEAN].                 *)
(* schemaCache maps the name of a discovered table to its columns, each    *)
(* [field, type].                                                          *)
(***************************************************************************)
EXTENDS PgValues, FiniteSets, SequencesExt

CONSTANTS
    Like,           \* what oidForColumn and the encoders find in each name
    NameOrder,      \* the names in alphabetical order
    KnownTables,    \* registry.GetTables, a sequence
    None

Items(query) == IF query.select # None THEN query.select ELSE query.returning

CachedColumns(cache, key) == IF key \in DOMAIN cache THEN cache[key] ELSE << >>

FindFirst(s, Test(_)) == Head(Append(SelectSeq(s, Test), None))

-----------------------------------------------------------------------------
(***************************************************************************)
(* Tables.                                                                 *)
(***************************************************************************)
Qualified(ref) == ref.schema \o "." \o ref.table

Tables(refs) == [i \in DOMAIN refs |-> refs[i].table]

\* The bare name: a registered table the query mentions anywhere, else the first it names.
BareTable(query, known) ==
    Head(SelectSeq(known, LAMBDA t : t \in query.words)
         \o Tables(SelectSeq(query.refs, LAMBDA r : r.word # "join"))
         \o <<"unknown">>)

\* The first schema a bare name is read from and was discovered in.
InSchema(bare, query, cache) ==
    LET qualified == SelectSeq(query.refs,
            LAMBDA r : r.schema # "" /\ r.table = bare /\ CachedColumns(cache, Qualified(r)) # << >>)
    IN  IF qualified = << >> THEN bare ELSE Qualified(qualified[1])

resolveTable(query, known, cache) == InSchema(BareTable(query, known), query, cache)

mockTableName(mock) ==
    IF mock.table # "" THEN mock.table ELSE IF mock.tables # << >> THEN mock.tables[1] ELSE ""

\* The mock's table, unless the query names one in a schema that was discovered.
schemaTable(table, query, cache) ==
    LET key == resolveTable(query, KnownTables, cache)
    IN  IF \E r \in Range(query.refs) : r.schema # "" /\ key = Qualified(r) THEN key ELSE table

inferColumnsForTable(table, cache) ==
    IF CachedColumns(cache, table) # << >>
    THEN [i \in DOMAIN cache[table] |-> cache[table][i].field]
    ELSE <<"id", "created_at", "updated_at">>

selectTableRefs(named, cache) ==
    [i \in DOMAIN named |->
        LET r == named[i]
        IN  [alias |-> IF r.alias = "" THEN r.table ELSE r.alias,
             table |-> r.table,
             key   |-> IF r.schema # "" /\ CachedColumns(cache, Qualified(r)) # << >>
                       THEN Qualified(r) ELSE r.table]]

-----------------------------------------------------------------------------
(***************************************************************************)
(* selectColumns: the columns of the result, each with the label it has in *)
(* a RowDescription, the discovered type ("" for none) and the key its     *)
(* value has in a row of the mock, which is its name without the alias.    *)
(* << >> when they cannot be told.                                         *)
(***************************************************************************)
DiscoveredType(refs, primary, qual, name, cache) ==
    LET of == FindFirst(refs, LAMBDA r : qual # "" /\ (r.alias = qual \/ r.table = qual))
        keys == IF of # None THEN <<of.key>>
                ELSE IF qual # "" THEN <<primary>>
                ELSE <<primary>> \o [i \in DOMAIN refs |-> refs[i].key]
        column == FindFirst(FlattenSeq([i \in DOMAIN keys |-> CachedColumns(cache, keys[i])]),
                            LAMBDA c : c.field = name)
    IN  IF column = None THEN "" ELSE column.type

ExpandStar(refs, item, cache) ==
    LET of == IF item.qual = "" THEN refs
              ELSE SelectSeq(refs, LAMBDA r : r.alias = item.qual \/ r.table = item.qual)
        tables == IF item.qual = "" \/ of = << >> THEN of ELSE <<of[1]>>
    IN  IF tables = << >> \/ \E r \in Range(tables) : CachedColumns(cache, r.key) = << >> THEN None
        ELSE FlattenSeq([i \in DOMAIN tables |->
                [j \in DOMAIN cache[tables[i].key] |->
                    LET c == cache[tables[i].key][j]
                    IN  [name |-> c.field, type |-> c.type, key |-> c.field]]])

SelectedColumn(refs, primary, item, cache) ==
    LET key == IF item.form = "expression" THEN "?column?" ELSE item.name
    IN  [name |-> IF item.alias = "" THEN key ELSE item.alias,
         type |-> IF item.form = "column" /\ ~item.cast
                  THEN DiscoveredType(refs, primary, item.qual, item.name, cache) ELSE "",
         key  |-> key]

ItemColumns(refs, primary, item, cache) ==
    IF item.form = "star" THEN ExpandStar(refs, item, cache) ELSE <<SelectedColumn(refs, primary, item, cache)>>

Together(columns) == IF None \in Range(columns) THEN << >> ELSE FlattenSeq(columns)

\* The tables the items are read from; without any, the one the query is about.
SelectTables(primary, query, cache) ==
    LET read == SelectSeq(query.refs, LAMBDA r : r.word \in {"from", "join"})
    IN  IF query.select = None \/ read = << >> THEN <<[alias |-> primary, table |-> primary, key |-> primary]>>
        ELSE selectTableRefs(read, cache)

ColumnsFrom(refs, primary, items, cache) ==
    IF items = None THEN << >>
    ELSE Together([i \in DOMAIN items |-> ItemColumns(refs, primary, items[i], cache)])

selectColumns(query, cache) ==
    LET primary == resolveTable(query, << >>, cache)
    IN  ColumnsFrom(SelectTables(primary, query, cache), primary, Items(query), cache)

Keys(columns) == [i \in DOMAIN columns |-> columns[i].key]
selectColumnKeys(query, cache) == Keys(selectColumns(query, cache))

\* The keys of a row in alphabetical order.
sortedRowKeys(row) == SelectSeq(NameOrder, LAMBDA n : n \in DOMAIN row)

NullValue == [kind |-> "null", n |-> 0, whole |-> FALSE]
NoRow == [n \in {} |-> NullValue]
ValueOf(row, name) == IF name \in DOMAIN row THEN row[name] ELSE NullValue

(***************************************************************************)
(* columnOID: the discovered type, else a UUID in the sample row, else the *)
(* name.                                                                   *)
(***************************************************************************)
columnOID(table, name, cache, val) ==
    LET column == IF table = "" THEN None
                  ELSE FindFirst(CachedColumns(cache, table), LAMBDA c : c.field = name)
    IN  IF column # None /\ column.type # "" THEN column.type
        ELSE IF val.kind = "uuid" THEN "uuid"
        ELSE oidForColumn(Like[name])

columnOIDs(table, columns, sample, cache) ==
    [i \in DOMAIN columns |-> columnOID(table, columns[i], cache, ValueOf(sample, columns[i]))]

(***************************************************************************)
(* describeInputs: labels for keys, in the sample row and in the schema.   *)
(***************************************************************************)
describeInputs(columns, table, sample, cache) ==
    LET renamed == {i \in DOMAIN columns : columns[i].name # columns[i].key}
        typed == SelectSeq(columns, LAMBDA c : c.name # c.key /\ c.type # "")
        extra == [i \in DOMAIN typed |-> [field |-> typed[i].name, type |-> typed[i].type]]
        hinted == {i \in renamed : columns[i].key \in DOMAIN sample}
        last(n) == CHOOSE i \in hinted : columns[i].name = n /\ \A j \in hinted : columns[j].name = n => j <= i
    IN  [names |-> [i \in DOMAIN columns |-> columns[i].name],
         hints |-> [n \in DOMAIN sample \cup {columns[i].name : i \in hinted} |->
                        IF \E i \in hinted : columns[i].name = n THEN sample[columns[last(n)].key]
                        ELSE sample[n]],
         cache |-> IF table = "" \/ extra = << >> THEN cache
                   ELSE [k \in DOMAIN cache \cup {table} |->
                            IF k = table THEN CachedColumns(cache, table) \o extra ELSE cache[k]]]

RowDescription(table, columns, sample, cache, codes) ==
    LET oids == columnOIDs(table, columns, sample, cache)
        formats == resultFormats(codes, Len(columns))
    IN  [kind |-> "RowDescription", fields |-> [i \in DOMAIN columns |->
            [name |-> columns[i], oid |-> oids[i],
             format |-> IF formats[i] = "binary" THEN "binary" ELSE "text"]]]

encodeDataRow(columns, row, oids, codes) ==
    LET formats == resultFormats(codes, Len(columns))
    IN  [i \in DOMAIN columns |->
            encodeField(Like[columns[i]], ValueOf(row, columns[i]),
                        IF i \in DOMAIN oids THEN oids[i] ELSE "none", formats[i])]

-----------------------------------------------------------------------------
(***************************************************************************)
(* A mock's payload: None when there is no file, or                        *)
(*   [readable |-> BOOLEAN, rows |-> a sequence of rows,                   *)
(*    affected |-> a number or None].                                      *)
(***************************************************************************)
Loads(mock) == mock.file # None /\ mock.file.readable
Unreadable(mock) == mock.file # None /\ ~mock.file.readable
Without(rows) == [kind |-> rows]
Rows(mock) == IF Loads(mock) THEN mock.file.rows ELSE << >>
Sample(rows) == IF rows = << >> THEN NoRow ELSE rows[1]

queryReturnsRows(query) == query.verb = "SELECT" \/ query.returning # None

\* Describe of a statement, for the mock a lookup without values finds (None for none).
FirstOf(columns, keys, default) == IF columns # << >> THEN columns ELSE IF keys # << >> THEN keys ELSE default

\* The columns of the query, else those of the sample, else these.
Described(in, table, sample, default, codes) ==
    RowDescription(table, FirstOf(in.names, sortedRowKeys(sample), default), in.hints, in.cache, codes)

DescribeStatement(query, peeked, cache) ==
    LET table == IF peeked = None THEN "" ELSE schemaTable(mockTableName(peeked), query, cache)
        sample == IF peeked = None THEN NoRow ELSE Sample(Rows(peeked))
    IN  IF ~queryReturnsRows(query) THEN Without("NoData")
        ELSE Described(describeInputs(selectColumns(query, cache), table, sample, cache),
                       table, sample, <<"id">>, << >>)

DescribePortal(query, mock, cache, codes) ==
    LET table == schemaTable(mockTableName(mock), query, cache)
        sample == Sample(Rows(mock))
    IN  IF mock.channel = "write" THEN Without("NoData")
        ELSE Described(describeInputs(selectColumns(query, cache), table, sample, cache),
                       table, sample, inferColumnsForTable(table, cache), codes)

\* The one row made up for a RETURNING clause without a payload.
generateSyntheticReturnRow(columns) ==
    [n \in Range(columns) |->
        CASE n = "id" -> [kind |-> "int", n |-> 1, whole |-> TRUE]
          [] n \in {"created_at", "updated_at"} -> [kind |-> "timestamp", n |-> 0, whole |-> TRUE]
          [] OTHER -> [kind |-> "text", n |-> 0, whole |-> FALSE]]

\* The pieces of the RETURNING text between commas; what is no plain name stays as it is written.
extractReturningColumns(query) ==
    IF query = None \/ query.returning = None THEN << >>
    ELSE [i \in DOMAIN query.returning |->
            LET item == query.returning[i]
            IN  CASE item.form = "star" -> "*"
                  [] item.form = "column" /\ item.alias = "" -> item.name
                  [] OTHER -> "?text?"]

\* A mock's table, and the columns of a reply that neither query nor rows tell.
ReplyTable(query, mock, cache) ==
    IF mockTableName(mock) = "" THEN "" ELSE schemaTable(mockTableName(mock), query, cache)
DefaultColumns(table, cache) ==
    IF table = "" THEN <<"id", "name", "email">> ELSE inferColumnsForTable(table, cache)

\* The columns of a reply; order is how Go walks the map of the first row of a write.
ReplyColumns(query, mock, table, cache, order) ==
    LET rows == Rows(mock)
        default == DefaultColumns(table, cache)
    IN  IF mock.channel = "write"
        THEN IF mock.file = None THEN extractReturningColumns(mock.sql)
             ELSE IF rows = << >> THEN default
             ELSE SelectSeq(order, LAMBDA n : n \in DOMAIN rows[1])
        ELSE IF mock.empty \/ Loads(mock)
             THEN FirstOf(selectColumnKeys(query, cache), << >>,
                          IF rows = << >> THEN default ELSE sortedRowKeys(rows[1]))
        ELSE default

(***************************************************************************)
(* Execute of a mocked portal: an error, no rows at all, or a              *)
(* RowDescription (unless the driver has one) and rows.                    *)
(***************************************************************************)
EncodedRows(columns, rows, oids, codes) == [i \in DOMAIN rows |-> encodeDataRow(columns, rows[i], oids, codes)]

RowsReply(table, columns, rows, cache, codes, described) ==
    [kind |-> "Rows",
     description |-> IF described THEN None ELSE RowDescription(table, columns, Sample(rows), cache, codes),
     rows |-> EncodedRows(columns, rows, columnOIDs(table, columns, Sample(rows), cache), codes)]

\* The reply in these columns, made up when a write has no payload.
ReplyIn(table, columns, mock, cache, codes, described) ==
    LET synthetic == mock.channel = "write" /\ mock.file = None
    IN  IF mock.channel = "read" /\ mock.error THEN Without("Error")
        ELSE IF Unreadable(mock) \/ (synthetic /\ columns = << >>) THEN Without("NoData")
        ELSE RowsReply(table, columns, IF synthetic THEN <<generateSyntheticReturnRow(columns)>> ELSE Rows(mock),
                       cache, codes, described)

sendMockResultSetForExtended(query, mock, cache, codes, described, order) ==
    LET table == ReplyTable(query, mock, cache)
    IN  ReplyIn(table, ReplyColumns(query, mock, table, cache, order), mock, cache, codes, described)

ExecutePortal(query, mock, cache, codes, described, order) ==
    IF mock.channel = "write" /\ extractReturningColumns(query) = << >> THEN Without("NoRows")
    ELSE sendMockResultSetForExtended(query, mock, cache, codes, described, order)

\* The rows of the simple protocol: described without a sample, encoded by name.
SimpleReply(table, columns, rows, cache) ==
    [kind |-> "Rows",
     description |-> RowDescription(table, columns, NoRow, cache, << >>),
     rows |-> EncodedRows(columns, rows, << >>, << >>)]

sendMockResultSimple(query, mock, cache, order) ==
    LET table == ReplyTable(query, mock, cache)
    IN  IF mock.channel = "write" THEN Without("NoRows")
        ELSE IF mock.error THEN Without("Error")
        ELSE SimpleReply(table,
                IF Loads(mock) /\ ~mock.empty THEN ReplyColumns(query, mock, table, cache, order)
                ELSE DefaultColumns(table, cache),
                IF mock.empty THEN << >> ELSE Rows(mock), cache)

-----------------------------------------------------------------------------
\* The count in a CommandComplete, and the whole tag.
resolveRowCount(mock, default) ==
    CASE mock.channel = "read" /\ Loads(mock) -> Len(Rows(mock))
      [] mock.channel = "read" /\ mock.file = None /\ mock.empty -> 0
      [] mock.channel = "read" /\ ~Loads(mock) /\ ~(mock.file = None /\ mock.empty) -> 1
      [] mock.channel = "write" -> IF Loads(mock) /\ mock.file.affected # None
                                   THEN mock.file.affected ELSE default

createCommandCompleteTag(query, count) ==
    [verb |-> IF query.verb \in {"INSERT", "UPDATE", "DELETE"} THEN query.verb ELSE "SELECT",
     count |-> count]

(***************************************************************************)
(* ParameterDescription: the types the driver gave, else those of $n::type *)
(* casts (text for an uncast one before the last cast), else none known.   *)
(* casts maps a parameter to the type it is cast to.                       *)
(***************************************************************************)
extractParameterTypes(casts) ==
    IF casts = << >> THEN << >>
    ELSE [i \in 1..(CHOOSE n \in DOMAIN casts : \A k \in DOMAIN casts : k <= n) |->
            IF i \in DOMAIN casts /\ casts[i] # "unknown" THEN casts[i] ELSE "text"]

ParameterDescription(given, casts, params) ==
    IF given # << >> THEN given
    ELSE IF extractParameterTypes(casts) # << >> THEN extractParameterTypes(casts)
    ELSE [i \in 1..params |-> "unknown"]
=============================================================================
