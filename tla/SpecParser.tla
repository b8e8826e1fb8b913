------------------------------ MODULE SpecParser ------------------------------
(***************************************************************************)
(* How a .linespec file is read (pkg/dsl).  LexFile turns its lines into   *)
(* tokens, gathering SQL texts and indented blocks; Parser.Parse turns the *)
(* tokens into a spec or an error.                                         *)
(*                                                                         *)
(* A line is a record with the kind of the statement it starts ("entry"    *)
(* for any other), its text, whether it is indented, whether it reads as   *)
(* "key: value", and whether the statement's own format is right.  A line  *)
(* of an EXPECT or EXPECT_NOT also has the parts of its channel.           *)
(***************************************************************************)
EXTENDS Naturals, Sequences, SequencesExt, TLC

CONSTANT
    Variables       \* the texts in which a ${VARIABLE} stands

-----------------------------------------------------------------------------
(* The lexer. *)

Blocks == {"HEADERS", "RESPONSE_HEADERS", "NOISE", "VARS", "VERIFY_WHERE", "VERIFY_WRITTEN_VALUES"}
SqlTexts == {"USING_SQL", "USING_SQL_CONTAINS"}
Statements ==
    {"TEST", "RECEIVE", "EXPECT", "EXPECT_NOT", "RESPOND", "WITH", "RETURNS", "VERIFY", "TIMEOUT",
     "NO_TRANSACTION", "ACCESSING_TABLES", "DATABASE", "VERIFY_OPERATION", "VERIFY_WHERE_COLUMNS"}

Token(kind, line, body) == [kind |-> kind, line |-> line, body |-> body]

NewLexer == [tokens |-> << >>, sql |-> << >>, inSql |-> FALSE, block |-> << >>, body |-> << >>, ok |-> TRUE]

EndBlock(s) ==
    IF s.block = << >> THEN s
    ELSE [s EXCEPT !.tokens = Append(@, Token(s.block[1].kind, s.block[1], s.body)), !.block = << >>, !.body = << >>]

LexStatement(s, line) ==
    CASE line.kind \in Blocks -> [s EXCEPT !.block = <<line>>]
      [] line.kind \in Statements -> [s EXCEPT !.tokens = Append(@, Token(line.kind, line, << >>))]
      [] OTHER -> [s EXCEPT !.ok = FALSE]

Quoted == {"quotes"} \cup SqlTexts

\* A SQL text starts on the line after USING_SQL and takes every line up to the
\* next quotes; a block takes every indented line, whatever it says.
LexLine(s, line) ==
    CASE ~s.ok \/ line.kind = "blank" -> s
      [] s.ok /\ s.inSql /\ line.kind \in Quoted ->
            [s EXCEPT !.tokens = Append(@, Token("SQL_BLOCK", line, s.sql)), !.inSql = FALSE, !.sql = << >>]
      [] s.ok /\ s.inSql /\ line.kind \notin Quoted \cup {"blank"} -> [s EXCEPT !.sql = Append(@, line)]
      [] s.ok /\ ~s.inSql /\ line.kind \in SqlTexts ->
            [s EXCEPT !.tokens = Append(@, Token(line.kind, line, << >>)), !.inSql = TRUE]
      [] s.ok /\ ~s.inSql /\ line.kind \notin SqlTexts \cup {"blank"} ->
            IF s.block # << >> /\ line.indented
            THEN [s EXCEPT !.body = Append(@, line)]
            ELSE LexStatement(EndBlock(s), line)

LexFile(file) == EndBlock(FoldLeft(LexLine, NewLexer, file))

-----------------------------------------------------------------------------
(* The parser. *)

Resolve(text) == [text |-> text, resolved |-> text \in Variables]
Verbatim(text) == [text |-> text, resolved |-> FALSE]

\* Only what reads as "key: value" is kept, and of a key the last value.
KeyValues(body) ==
    LET pairs == SelectSeq(body, LAMBDA l : l.pair)
        last(k) == CHOOSE i \in DOMAIN pairs :
                        pairs[i].key = k /\ \A j \in DOMAIN pairs : pairs[j].key = k => j <= i
    IN  [k \in {pairs[i].key : i \in DOMAIN pairs} |-> Resolve(pairs[last(k)].text)]

Texts(body) == [i \in DOMAIN body |-> body[i].text]

Relational == {"READ:MYSQL", "WRITE:MYSQL", "READ:POSTGRESQL", "WRITE:POSTGRESQL"}
Oracle == {"READ:ORACLE", "WRITE:ORACLE"}
Databases == Relational \cup Oracle \cup {"READ:MONGODB", "WRITE:MONGODB"}
Channels == Databases \cup {"HTTP", "EVENT", "GRPC", "READ:REDIS", "WRITE:REDIS"}

parseExpectChannel(line) ==
    [ok |-> line.channel \in Channels /\ (line.name = "" => line.channel \in Databases),
     channel |-> line.channel, verb |-> line.verb]

\* Where the two kinds of statement differ: CALL n is a tiebreaker of an EXPECT
\* and part of the name of an EXPECT_NOT, which keeps an HTTP URL as it is written.
ResolvedName == {"READ:REDIS", "WRITE:REDIS", "GRPC"}
Statement(line, negative) ==
    [negative |-> negative, channel |-> line.channel, verb |-> line.verb,
     call |-> IF negative THEN 0 ELSE line.call, suffix |-> IF negative THEN line.call ELSE 0,
     name |-> IF line.channel \in ResolvedName \/ (line.channel = "HTTP" /\ ~negative)
              THEN Resolve(line.name) ELSE Verbatim(line.name),
     verify |-> << >>, clauses |-> << >>]

ExpectClauses ==
    {"HEADERS", "ACCESSING_TABLES", "DATABASE", "VERIFY_OPERATION", "VERIFY_WHERE_COLUMNS", "VERIFY_WHERE",
     "VERIFY_WRITTEN_VALUES", "NO_TRANSACTION", "WITH", "RETURNS", "RESPONSE_HEADERS", "VERIFY"} \cup SqlTexts

\* The order of a file; RECEIVE is required, and RESPOND for what follows it.
Slots == <<"TEST", "VARS", "RECEIVE", "WITH", "HEADERS", "TIMEOUT", "EXPECT", "RESPOND", "WITH", "NOISE", "HEADERS">>
ReceiveSlot == 3
ExpectSlot == 7
RespondSlot == 8

NewParser == [ok |-> TRUE, slot |-> 0, awaits |-> "", now |-> << >>,
              fields |-> << >>, expects |-> << >>, expectsNot |-> << >>]

Failed(p) == [p EXCEPT !.ok = FALSE]

\* The slots at which a token may stand after the last one.
Fitting(p, kind) ==
    {s \in DOMAIN Slots :
        /\ Slots[s] = IF kind = "EXPECT_NOT" THEN "EXPECT" ELSE kind
        /\ s > p.slot \/ (s = ExpectSlot /\ p.slot = ExpectSlot)
        /\ s > ReceiveSlot => p.slot >= ReceiveSlot
        /\ s > RespondSlot => p.slot >= RespondSlot}

isWriteDelete(statement) ==
    /\ statement.channel \in {"WRITE:MYSQL", "WRITE:POSTGRESQL"}
    /\ \/ statement.channel = "WRITE:MYSQL" /\ statement.verb = "DELETE"
       \/ \E c \in DOMAIN statement.clauses \cap SqlTexts : Head(statement.clauses[c].text) = "DELETE"
       \/ "VERIFY_OPERATION" \in DOMAIN statement.clauses /\ statement.clauses["VERIFY_OPERATION"].text = "DELETE"

\* A finished statement joins its list; a payload of a DELETE is refused in an EXPECT.
EndStatement(p) ==
    IF p.now = << >> THEN p
    ELSE LET statement == p.now[1] IN
         IF statement.negative THEN [p EXCEPT !.expectsNot = Append(@, statement), !.now = << >>]
         ELSE IF "WITH" \in DOMAIN statement.clauses /\ isWriteDelete(statement) THEN Failed(p)
         ELSE [p EXCEPT !.expects = Append(@, statement), !.now = << >>]

ReturnsFields(text) == IF text = "ErrorCode" THEN {"Error", "ErrorCode"} ELSE {text}

Set(p, clause, value) == [p EXCEPT !.now[1].clauses = (clause :> value) @@ @]

parseExpectClauses(p, token) ==
    CASE token.kind = "NO_TRANSACTION" -> Failed(p)
      [] token.kind \in SqlTexts -> [p EXCEPT !.awaits = token.kind]
      [] token.kind = "VERIFY" ->
            IF token.line.valid THEN [p EXCEPT !.now[1].verify = Append(@, token.line.text)] ELSE Failed(p)
      [] token.kind = "RETURNS" ->
            IF p.now[1].channel \in Oracle THEN Failed(p)
            ELSE FoldSet(LAMBDA f, q : Set(q, f, Verbatim(IF f = "Error" THEN "" ELSE token.line.value)),
                         p, ReturnsFields(token.line.text))
      [] token.kind \in Blocks -> Set(p, token.kind, KeyValues(token.body))
      [] token.kind \in ExpectClauses \ (Blocks \cup SqlTexts \cup {"VERIFY", "RETURNS", "NO_TRANSACTION"}) ->
            Set(p, token.kind, Verbatim(token.line.text))

Content(token) ==
    CASE token.kind = "HEADERS" -> KeyValues(token.body)
      [] token.kind \in {"VARS", "NOISE"} -> Texts(token.body)
      [] token.kind \notin Blocks -> Verbatim(token.line.text)

parseVars(token) == \A i \in DOMAIN token.body : token.body[i].pair

Enter(p, slot, token) ==
    CASE slot = ExpectSlot ->
            IF parseExpectChannel(token.line).ok
            THEN [p EXCEPT !.slot = slot, !.now = <<Statement(token.line, token.kind = "EXPECT_NOT")>>]
            ELSE Failed(p)
      [] slot # ExpectSlot ->
            IF token.line.valid /\ (token.kind = "VARS" => parseVars(token))
            THEN [p EXCEPT !.slot = slot, !.fields = (slot :> Content(token)) @@ @] ELSE Failed(p)

\* The SQL text that must follow a USING_SQL.
TakeSql(p, token) ==
    IF token.kind # "SQL_BLOCK" THEN Failed(p)
    ELSE [Set(p, p.awaits, [text |-> Texts(token.body), resolved |-> \E i \in DOMAIN token.body : token.body[i].text \in Variables]) EXCEPT !.awaits = ""]

\* The clauses of a statement come in any order.
IsClause(p, token) == p.now # << >> /\ token.kind \in ExpectClauses

\* mutant: what no statement consumes is ignored
Ignore(p, token) == p

Leftover(p, token) == Failed(p)

Step(p, token) ==
    IF ~p.ok THEN p
    ELSE IF p.awaits # "" THEN TakeSql(p, token)
    ELSE IF IsClause(p, token) THEN parseExpectClauses(p, token)
    ELSE LET fitting == Fitting(p, token.kind)
         IN  IF fitting = {} THEN Leftover(p, token)
             ELSE Enter(EndStatement(p), CHOOSE s \in fitting : \A t \in fitting : s <= t, token)

\* RESPOND is required of a spec an HTTP request triggers.
Finish(p) ==
    LET q == EndStatement(p)
        http == ReceiveSlot \in DOMAIN q.fields /\ q.fields[ReceiveSlot].text = "HTTP"
    IN  IF q.awaits # "" \/ q.slot < ReceiveSlot \/ (http /\ q.slot < RespondSlot) THEN Failed(q) ELSE q

Parse(file) ==
    LET lexed == LexFile(file)
        p == IF lexed.ok THEN Finish(FoldLeft(Step, NewParser, lexed.tokens)) ELSE Failed(NewParser)
    IN  IF p.ok THEN <<[fields |-> p.fields, expects |-> p.expects, expectsNot |-> p.expectsNot]>> ELSE << >>
=============================================================================
