---------------------------- MODULE RulesProperties ----------------------------
(***************************************************************************)
(* What the parts of LineSpec that compute without keeping state promise   *)
(* of every input.  A behaviour takes one input of one part and stops.     *)
(***************************************************************************)
EXTENDS Naturals, Sequences, FiniteSets, SequencesExt

CONSTANTS
    Cases,      \* from the name of a part to the inputs it is asked about
    None,
    \* PgValues and PgResults
    Width, Base, Like, NameOrder, KnownTables,
    \* SpecParser
    Variables

ASSUME WidthAssumption ==
    /\ Width \in [{"int2", "int4", "int8"} -> Nat \ {0}]
    /\ Width["int2"] < Width["int4"] /\ Width["int4"] < Width["int8"]

VARIABLE input
vars == <<input>>

Pg == INSTANCE PgResults
Dsl == INSTANCE SpecParser
MySql == INSTANCE MySQLReplies

Init == input = [part |-> "none"]

Take(part) ==
    /\ input.part = "none"
    /\ \E case \in Cases[part] : input' = [part |-> part, case |-> case]

TakePgRows == Take("pg rows")
TakePgNumber == Take("pg number")
TakeSpec == Take("spec")

TakeMySqlRows == Take("mysql rows")
TakeMySqlWrite == Take("mysql write")
TakeMySqlQuery == Take("mysql query")
TakeMySqlSchema == Take("mysql schema")

Next ==
    \/ TakePgRows \/ TakePgNumber \/ TakeSpec
    \/ TakeMySqlRows \/ TakeMySqlWrite \/ TakeMySqlQuery \/ TakeMySqlSchema
Spec == Init /\ [][Next]_vars

-----------------------------------------------------------------------------
\* The description a driver has when it reads the rows, and the rows; what
\* "none" and "simple" tell comes with the rows.
PgReply(c) ==
    IF c.describe = "simple" THEN Pg!sendMockResultSimple(c.query, c.mock, c.cache, c.order)
    ELSE Pg!ExecutePortal(c.query, c.mock, c.cache, c.codes, c.describe # "none", c.order)

PgDescribed(c) ==
    CASE c.describe = "statement" -> Pg!DescribeStatement(c.query, c.peeked, c.cache)
      [] c.describe = "portal" -> Pg!DescribePortal(c.query, c.mock, c.cache, c.codes)
      [] c.describe \in {"none", "simple"} -> PgReply(c).description

\* A driver can read a field it expects to have this type, in this format.
PgReadable(oid, format, field) ==
    \/ field.as \in {"null", IF format = "binary" THEN oid ELSE "text"}
    \/ field.as = "text" /\ ~Pg!Encodes(oid, field.v)

\* Without format codes the name of a column may turn its value binary.
PgTurnsBinary(name) == "id" \in Like[name] \/ Pg!isTimestamp(Like[name])

PgRowsAgree(c) ==
    LET reply == PgReply(c)
        description == PgDescribed(c)
    IN  reply.kind = "Rows" /\ reply.rows # << >> =>
            /\ description.kind = "RowDescription"
            /\ \A r \in DOMAIN reply.rows :
                LET row == reply.rows[r]
                    formats == Pg!resultFormats(c.codes, Len(row))
                IN  /\ Len(row) = Len(description.fields)
                    /\ \A i \in DOMAIN row :
                        LET field == description.fields[i]
                        IN  /\ (field.format = "binary") = (formats[i] = "binary") \/ c.describe = "statement"
                            /\ \/ field.oid \in Pg!Typed => PgReadable(field.oid, formats[i], row[i])
                               \/ formats[i] = "legacy" /\ PgTurnsBinary(field.name)

(***************************************************************************)
(* The rows of a mocked read have the columns the driver was told of, and  *)
(* each value the type and format it was told, whichever of Describe, the  *)
(* portal's Describe, Execute and the simple protocol told it, when no     *)
(* column is renamed and Describe found the mock that Execute serves.      *)
(* (Describe of a statement comes before the formats are chosen.)  Left    *)
(* out, as prov-2026-258574ee decides: ids and times in a reply without    *)
(* format codes, which only the simple protocol or a Bind that cannot be   *)
(* parsed brings; they are announced as text and sent in binary.           *)
(***************************************************************************)
PgRowsAsDescribed ==
    input.part = "pg rows" =>
        LET c == input.case
            renamed(item) == item.form # "star" /\ item.alias \notin {"", item.name}
        IN  /\ c.mock.channel = "read"
            /\ c.describe = "statement" => c.peeked = c.mock
            /\ \A i \in DOMAIN Pg!Items(c.query) : ~renamed(Pg!Items(c.query)[i])
            => PgRowsAgree(c)

(***************************************************************************)
(* A decimal keeps its value and its digits after the point on the wire.   *)
(***************************************************************************)
PgDecimalsSurvive ==
    input.part = "pg number" =>
        LET num == input.case
            read == Pg!decodeNumeric(Pg!encodeNumericBinary(num))
            int == SubSeq(num.int, Pg!Leading(num.int) + 1, Len(num.int))
        IN  /\ read.int = IF int = << >> THEN <<0>> ELSE int
            /\ read.frac = num.frac
            /\ read.neg = (num.neg /\ \E i \in DOMAIN (num.int \o num.frac) : (num.int \o num.frac)[i] # 0)

-----------------------------------------------------------------------------
(* A MySQL driver that announced neither deprecateEOF nor, when no row is   *)
(* sent, optionalMeta reads a reply.                                        *)

ReadRow(cols, row, binary) ==
    LET isNull(i) == IF binary THEN (i + 1) % 8 \in row.bitmap[(i + 1) \div 8] ELSE row.fields[i].as = "null"
        place(i) == IF binary THEN Cardinality({j \in 1..i : ~isNull(j)}) ELSE i
        readable(i) == cols[i].type = "longlong" => ~binary /\ row.fields[place(i)].v.digits
    IN  [i \in DOMAIN cols |-> CASE isNull(i) -> MySql!NullValue
                                 [] ~isNull(i) /\ place(i) \in DOMAIN row.fields /\ readable(i) -> row.fields[place(i)].v
                                 [] OTHER -> None]

\* The rows it reads, by column name, or None.
ReadRows(reply, caps, binary) ==
    LET n == reply[1].n
        cols == SubSeq(reply, 2, n + 1)
        rows == SubSeq(reply, n + 3, Len(reply) - 1)
    IN  IF /\ reply[1].meta = ("optionalMeta" \in caps) /\ n > 0 /\ Len(reply) > n + 2
           /\ \A i \in DOMAIN cols : cols[i].t = "column"
           /\ reply[n + 2] = MySql!EOF /\ reply[Len(reply)] = MySql!EOF
           /\ \A r \in DOMAIN rows : rows[r].t = "row"
        THEN [r \in DOMAIN rows |->
                LET read == ReadRow(cols, rows[r], binary)
                IN  [name \in {cols[i].name : i \in DOMAIN cols} |-> read[CHOOSE i \in DOMAIN cols : cols[i].name = name]]]
        ELSE None

Reply(c) == MySql!sendMockResponse(c.mock, c.caps, c.order, c.binary)
Given(c) == MySql!extractRows(c.mock.payload)
Sends(c) == ~c.mock.empty /\ c.mock.payload.kind \in {"list", "rows", "object"} /\ Given(c) # << >>

ReadBack(c) ==
    LET given == Given(c)
        shown == DOMAIN given[1].fields
    IN  IF ~Sends(c) THEN ReadRows(Reply(c), c.caps, c.binary) = << >>
        ELSE ReadRows(Reply(c), c.caps, c.binary) =
                [r \in DOMAIN given |-> [name \in shown |-> MySql!ValueOf(given[r].fields, name)]]

\* Columns that the first row makes numbers.
Numeric(c) == {name \in DOMAIN Given(c)[1].fields : Given(c)[1].fields[name].kind \in {"int", "float"}}
Understood(c) == "deprecateEOF" \notin c.caps /\ (Sends(c) => DOMAIN Given(c)[1].fields # {}) /\ (~Sends(c) => c.caps = {})

(***************************************************************************)
(* The rows of a mocked read arrive as the payload gives them, in the      *)
(* columns of the first, NULL where one is missing, over text and binary   *)
(* protocol and across the bytes of a null bitmap; a column that the first *)
(* row makes a number holds integers, and in the binary protocol there is  *)
(* none.                                                                   *)
(***************************************************************************)
MySqlRowsReadBack ==
    input.part = "mysql rows" =>
        LET c == input.case IN
        Understood(c) /\ (Sends(c) =>
            \A name \in Numeric(c) : ~c.binary /\ \A r \in DOMAIN Given(c) :
                LET val == MySql!ValueOf(Given(c)[r].fields, name) IN val = MySql!NullValue \/ val.digits)
        => ReadBack(c)

\* A length-encoded integer at a byte of an OK packet, and the byte after it.
ReadLength(bytes, at) ==
    LET size == CASE bytes[at] < 251 -> 0 [] bytes[at] = 252 -> 2 [] bytes[at] = 253 -> 3 [] bytes[at] \in {251, 254, 255} -> 8
        value[k \in 0..size] == IF k = 0 THEN 0 ELSE 256 * value[k - 1] + bytes[at + size - k + 1]
    IN  [n |-> IF size = 0 THEN bytes[at] ELSE value[size], next |-> at + size + 1]

\* The two counts of a mocked write arrive as the payload gives them.
MySqlCountsSurvive ==
    input.part = "mysql write" =>
        LET c == input.case
            bytes == Reply(c)[1].bytes
            affected == ReadLength(bytes, 2)
            last == ReadLength(bytes, affected.next)
        IN  /\ affected.n = c.mock.payload.fields["affected_rows"].n
            /\ last.n = c.mock.payload.fields["last_insert_id"].n
            /\ last.next + 3 = Len(bytes)

\* A query is found behind its attributes, however many there are and NULL.
AttributeFrame(c) ==
    LET strings(t, k) == [i \in 1..k |-> [t |-> t]]
    IN  <<[t |-> "length", n |-> c.count], [t |-> "length", n |-> 1]>>
        \o (IF c.count = 0 THEN << >>
            ELSE [b \in 1..(c.count + 7) \div 8 |->
                    [t |-> "byte", bits |-> {i % 8 : i \in {i \in c.nulls : i \div 8 = b - 1}}]]
                 \o <<[t |-> "flag", n |-> IF c.typed THEN 1 ELSE 0]>>
                 \o (IF c.typed THEN strings("name or type", 2 * c.count) ELSE << >>)
                 \o strings("value", c.count - Cardinality(c.nulls)))

MySqlQueryFound ==
    input.part = "mysql query" =>
        LET sql == <<[t |-> "sql"]>>
        IN  MySql!stripQueryAttributes(AttributeFrame(input.case) \o sql) = sql

\* A cached schema is read as it was discovered, empty privileges aside.
MySqlSchemaReadBack ==
    input.part = "mysql schema" =>
        LET cols == input.case
            read == ReadRows(MySql!sendSchemaResponse(cols), {}, FALSE)
            shown(f, text) ==
                CASE f \in MySql!Nullable /\ text = "" -> MySql!NullValue
                  [] f = "Privileges" /\ text = "" -> MySql!Text(MySql!UsualPrivileges)
                  [] text # "" \/ f \notin MySql!Nullable \cup {"Privileges"} -> MySql!Text(text)
        IN  read = [i \in DOMAIN cols |-> [f \in DOMAIN cols[i] |-> shown(f, cols[i][f])]]

(***************************************************************************)
(* What a driver decodes is what the payload of a mock says, with columns  *)
(* and types it was told of: in PostgreSQL's extended and simple protocol  *)
(* and MySQL's text and binary one, but for the cases each part leaves out.*)
(***************************************************************************)
RowsReadBack ==
    /\ PgRowsAsDescribed /\ PgDecimalsSurvive
    /\ MySqlRowsReadBack /\ MySqlCountsSurvive /\ MySqlQueryFound /\ MySqlSchemaReadBack

-----------------------------------------------------------------------------
(* Spec files: a head, statements of a line and its clauses, what follows. *)

Flat(parts) == FoldLeft(LAMBDA all, part : all \o part, << >>, parts)
Written(statement) == <<statement.line>> \o Flat(statement.clauses)
SpecFile(c) == c.head \o Flat([i \in DOMAIN c.statements |-> Written(c.statements[i])]) \o c.tail

\* A spec of one statement with one clause, or none.
Alone(c, line, clause) == Dsl!Parse(c.head \o <<line>> \o clause \o c.tail)

Parsed(spec, negative) == IF negative THEN spec.expectsNot ELSE spec.expects

\* What is written in a statement: what its clauses say, each read alone.
SaysItsClauses(c, statement, read) ==
    LET alone(i) == Parsed(Alone(c, statement.line, statement.clauses[i])[1], read.negative)[1]
        clauses == DOMAIN statement.clauses
    IN  \A i \in clauses :
            /\ Alone(c, statement.line, statement.clauses[i]) # << >>
            /\ \A f \in DOMAIN alone(i).clauses :
                    /\ f \in DOMAIN read.clauses /\ read.clauses[f] = alone(i).clauses[f]
                    /\ \A j \in clauses \ {i} : f \notin DOMAIN alone(j).clauses
            /\ \A k \in DOMAIN alone(i).verify :
                    \E n \in DOMAIN read.verify : read.verify[n] = alone(i).verify[k]

Negates(statement) == statement.line.kind = "EXPECT_NOT"
Of(c, negative) == SelectSeq(c.statements, LAMBDA s : Negates(s) = negative)

SpecIsKept(c) ==
    LET read == Dsl!Parse(SpecFile(c)) IN
    read # << >> =>
        /\ Cardinality(DOMAIN read[1].fields) = Len(SelectSeq(c.head \o c.tail, LAMBDA l : ~l.indented))
        /\ \A negative \in BOOLEAN :
            /\ Len(Parsed(read[1], negative)) = Len(Of(c, negative))
            /\ \A i \in DOMAIN Of(c, negative) : SaysItsClauses(c, Of(c, negative)[i], Parsed(read[1], negative)[i])

\* As the documents write a spec: clauses at the margin, none twice, a SQL text
\* on lines of its own.
AtTheMargin(c) ==
    \A i \in DOMAIN c.statements :
        LET clauses == c.statements[i].clauses IN
        \A k \in DOMAIN clauses :
            /\ ~clauses[k][1].indented
            /\ clauses[k][1].kind \in Dsl!SqlTexts => Len(clauses[k]) > 1
            /\ \A j \in DOMAIN clauses \ {k} : clauses[j][1].kind = clauses[k][1].kind => clauses[k][1].kind = "VERIFY"

\* Each clause of each statement is accepted alone, and a file is accepted
\* unless it deletes WITH a payload.
AcceptedAlone(c) ==
    LET deletes(s) == /\ \E k \in DOMAIN s.clauses : s.clauses[k][1].kind = "WITH"
                      /\ \E k \in DOMAIN s.clauses : s.clauses[k][Len(s.clauses[k])].text = "DELETE"
    IN  \A i \in DOMAIN c.statements :
            /\ Alone(c, c.statements[i].line, << >>) # << >>
            /\ \A k \in DOMAIN c.statements[i].clauses :
                    Alone(c, c.statements[i].line, c.statements[i].clauses[k]) # << >>
            /\ ~deletes(c.statements[i])

(***************************************************************************)
(* A spec that is accepted has every statement of its file, each with      *)
(* every clause that follows it, wherever a clause stands: none is dropped *)
(* or moves to another statement; and it is accepted, whatever the order   *)
(* of its clauses, when each of them is (LexFile, Parser.Parse).           *)
(***************************************************************************)
SpecKeepsClauses ==
    input.part = "spec" /\ AtTheMargin(input.case) =>
        /\ SpecIsKept(input.case)
        /\ AcceptedAlone(input.case) => Dsl!Parse(SpecFile(input.case)) # << >>
=============================================================================
