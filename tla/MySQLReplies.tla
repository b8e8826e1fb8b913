------------------------------ MODULE MySQLReplies ------------------------------
(***************************************************************************)
(* The packets the MySQL proxy makes of a mock, and the framing it takes   *)
(* off a query.                                                            *)
(*                                                                         *)
(* A value is [kind |-> "int" | "float" | "text" | "bool" | "null", text,  *)
(* n |-> the number it is, digits |-> whether its text is an integer]; a   *)
(* row is a function from column names to values, order the order in which *)
(* Go happens to iterate over a row, caps what the driver announced:       *)
(* "deprecateEOF", "optionalMeta".  A packet is a record without a number. *)
(***************************************************************************)
EXTENDS Integers, Sequences, SequencesExt

CONSTANT None

NullValue == [kind |-> "null", text |-> "", n |-> 0, digits |-> FALSE]
Text(text) == [NullValue EXCEPT !.kind = "text", !.text = text]

-----------------------------------------------------------------------------
(* Length-encoded integers and OK packets, in bytes.                       *)

Bytes(n, k) ==
    LET rest[i \in 0..k] == IF i = 0 THEN n ELSE rest[i - 1] \div 256
    IN  [i \in 1..k |-> rest[i - 1] % 256]

encodeLengthInt(n) ==
    CASE n < 251 -> Bytes(n, 1)
      [] 251 <= n /\ n < 65536 -> <<252>> \o Bytes(n, 2)
      [] 65536 <= n /\ n < 16777216 -> <<253>> \o Bytes(n, 3)
      [] 16777216 <= n -> <<254>> \o Bytes(n, 8)

sendMockOKWithResult(affected, last) ==
    <<[t |-> "ok", bytes |-> <<0>> \o encodeLengthInt(affected) \o encodeLengthInt(last) \o <<2, 0, 0, 0>>]>>
sendMockOK == sendMockOKWithResult(0, 0)

\* A field that is missing, or is no number, counts as 0.
loadWriteResult(payload) ==
    LET number(f) == IF f \in DOMAIN payload.fields /\ payload.fields[f].kind \in {"int", "float"}
                     THEN payload.fields[f].n ELSE 0
    IN  [affected |-> number("affected_rows"), last |-> number("last_insert_id")]

-----------------------------------------------------------------------------
(***************************************************************************)
(* Result sets.  A payload is "none", "unreadable", a "list" of items, an  *)
(* object with such a list under "rows", any other "object", which is a    *)
(* row itself, or a "scalar"; an item is a "row", or something else.       *)
(***************************************************************************)
extractRows(payload) ==
    CASE payload.kind \in {"list", "rows"} -> SelectSeq(payload.items, LAMBDA item : item.kind = "row")
      [] payload.kind = "object" -> <<[kind |-> "row", fields |-> payload.fields]>>
      [] payload.kind = "scalar" -> << >>

CommonColumns == <<"id", "name", "email", "password", "token", "created_at", "updated_at">>
columns(first, order) ==
    SelectSeq(CommonColumns \o SelectSeq(order, LAMBDA n : n \notin ToSet(CommonColumns)),
              LAMBDA n : n \in DOMAIN first)
ValueOf(row, col) == IF col \in DOMAIN row THEN row[col] ELSE NullValue

columnType(val) == IF val.kind \in {"int", "float"} THEN "longlong" ELSE "var_string"
makeColumnDef(table, col, type, flags) == [t |-> "column", table |-> table, name |-> col, type |-> type, flags |-> flags]
EOF == [t |-> "eof"]
CountPacket(n, meta) == [t |-> "count", n |-> n % 256, meta |-> meta]

columnDef(table, first, col) ==
    makeColumnDef(table, col, columnType(first[col]), IF col = "id" /\ columnType(first[col]) = "longlong" THEN 3 ELSE 0)
Header(cols, first, table, caps) ==
    <<CountPacket(Len(cols), "optionalMeta" \in caps)>>
        \o [i \in DOMAIN cols |-> columnDef(table, first, cols[i])]
        \o (IF "deprecateEOF" \in caps THEN << >> ELSE <<EOF>>)
\* An OK packet takes the place of the last EOF: seven bytes that start with 0.
Terminator(caps) == IF "deprecateEOF" \in caps THEN [t |-> "ok", bytes |-> <<0, 0, 0, 2, 0, 0, 0>>] ELSE EOF

LengthEncoded(val) == [as |-> "string", v |-> val]
textRow(row, cols) ==
    [t |-> "row",
     fields |-> [i \in DOMAIN cols |-> LET val == ValueOf(row, cols[i])
                                       IN  IF val = NullValue THEN [as |-> "null"] ELSE LengthEncoded(val)]]

\* The bit of column i, counted from one, is i + 1 (an offset of two).
bitmapUnshifted(nulls, n) ==   \* mutant: no offset
    [b \in 0..((n + 7) \div 8 - 1) |-> {(i - 1) % 8 : i \in {i \in nulls : (i - 1) \div 8 = b}}]
nullBitmap(nulls, n) ==
    [b \in 0..((n + 9) \div 8 - 1) |-> {(i + 1) % 8 : i \in {i \in nulls : (i + 1) \div 8 = b}}]

binaryRow(row, cols) ==
    LET nulls == {i \in DOMAIN cols : ValueOf(row, cols[i]) = NullValue}
        given == SelectSeq(cols, LAMBDA col : ValueOf(row, col) # NullValue)
    IN  [t |-> "row", bitmap |-> nullBitmap(nulls, Len(cols)),
         fields |-> [i \in DOMAIN given |-> LengthEncoded(row[given[i]])]]

sendEmptyResultSet(table, caps) ==
    <<CountPacket(1, FALSE), makeColumnDef(table, "id", "longlong", 3)>>
        \o (IF "deprecateEOF" \in caps THEN << >> ELSE <<EOF>>) \o <<Terminator(caps)>>

sendPayloadResultSet(payload, table, caps, order, binary) ==
    LET rows == extractRows(payload) IN
    IF rows = << >> THEN sendEmptyResultSet(table, caps)
    ELSE LET first == rows[1].fields
             cols == columns(first, order)
         IN  Header(cols, first, table, caps)
             \o [r \in DOMAIN rows |-> IF binary THEN binaryRow(rows[r].fields, cols) ELSE textRow(rows[r].fields, cols)]
             \o <<Terminator(caps)>>

\* The answer to a query, or (binary) to the execution of a statement.
sendMockResponse(mock, caps, order, binary) ==
    CASE mock.channel = "write" ->
            IF mock.payload.kind \in {"object", "rows"}
            THEN LET r == loadWriteResult(mock.payload) IN sendMockOKWithResult(r.affected, r.last)
            ELSE sendMockOK
      [] mock.channel = "read" ->
            IF mock.empty \/ mock.payload.kind \in {"none", "unreadable"} THEN sendEmptyResultSet(mock.table, caps)
            ELSE sendPayloadResultSet(mock.payload, mock.table, caps, order, binary)

\* SHOW FIELDS from the schema cache: nine columns, empty texts as NULL or as
\* the usual privileges.
SchemaColumns == <<"Field", "Type", "Collation", "Null", "Key", "Default", "Extra", "Privileges", "Comment">>
Nullable == {"Collation", "Default"}
UsualPrivileges == "select,insert,update,references"
schemaField(f, text) ==
    CASE f \in Nullable /\ text = "" -> [as |-> "null"]
      [] f = "Privileges" /\ text = "" -> LengthEncoded(Text(UsualPrivileges))
      [] text # "" \/ f \notin Nullable \cup {"Privileges"} -> LengthEncoded(Text(text))
schemaRow(col) ==
    [t |-> "row", fields |-> [i \in DOMAIN SchemaColumns |-> schemaField(SchemaColumns[i], col[SchemaColumns[i]])]]

sendSchemaResponse(cols) ==
    <<CountPacket(Len(SchemaColumns), FALSE)>>
        \o [i \in DOMAIN SchemaColumns |-> makeColumnDef("", SchemaColumns[i], "var_string", 0)] \o <<EOF>>
        \o [c \in DOMAIN cols |-> schemaRow(cols[c])] \o <<EOF>>

-----------------------------------------------------------------------------
(***************************************************************************)
(* The attributes in front of a query, field by field: two counts, a null  *)
(* bitmap in bytes, a flag, a type and a name of each, the values that are *)
(* not NULL.  What is left is the query; None when a field is missing.     *)
(***************************************************************************)
BitmapBytes(n) == (n + 7) \div 8
nullAttributes(frame, n) == {i \in 0..n - 1 : i % 8 \in frame[3 + i \div 8].bits}

stripQueryAttributes(frame) ==
    LET n == frame[1].n
        flag == 3 + BitmapBytes(n)
        values == flag + 1 + (IF frame[flag].n = 1 THEN 2 * n ELSE 0)
        query == values + n - Cardinality(nullAttributes(frame, n))
        cut(i) == SubSeq(frame, i, Len(frame))
    IN  CASE Len(frame) < 2 -> None
          [] Len(frame) >= 2 /\ n = 0 -> cut(3)
          [] Len(frame) >= 2 /\ n > 0 -> IF flag > Len(frame) THEN None
                ELSE IF query > Len(frame) + 1 THEN None ELSE cut(query)
=============================================================================
