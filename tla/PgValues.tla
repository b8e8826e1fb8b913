-------------------------------- MODULE PgValues --------------------------------
(***************************************************************************)
(* How the PostgreSQL proxy writes the values of a mock's rows and reads   *)
(* the parameters of a Bind message.                                       *)
(*                                                                         *)
(* A value of a row, as the payload loader leaves it, is                   *)
(*                                                                         *)
(*   [kind |-> "int" | "float" | "bool" (or its name as a text) |          *)
(*             "digits" (the text of an integer) | "uuid" | "timestamp" |  *)
(*             "date" | "text" | "json",                                   *)
(*    n |-> a number, whole |-> BOOLEAN]                                   *)
(*                                                                         *)
(* where n is the number itself or, of any other text, the number it       *)
(* starts with; whole is FALSE of a float with a fraction and of a text    *)
(* that starts with no number.  NULL is the kind "null".                   *)
(***************************************************************************)
EXTENDS Integers, Sequences

CONSTANTS
    Width,      \* the bits of int2, int4 and int8
    Base        \* what one digit of a binary numeric counts up to (10000)

IntTypes == {"int2", "int4", "int8"}

Fits(n, t) == -(2 ^ (Width[t] - 1)) <= n /\ n < 2 ^ (Width[t] - 1)
Unsigned(n, t) == n % (2 ^ Width[t])
Signed(b, t) == IF b < 2 ^ (Width[t] - 1) THEN b ELSE b - 2 ^ Width[t]

Strings == {"digits", "uuid", "timestamp", "date", "text"}

\* A field of a DataRow or of a Bind: the type whose binary form it has, or text.
Field(type, v) == [as |-> type, v |-> v]
dataRowText(val) == Field("text", val)

(***************************************************************************)
(* strictInt: an integer, an integral float or the text of an integer, if  *)
(* it fits.  toInt32 and toInt64 take the number a text starts with, cut   *)
(* off fractions and let the number wrap.                                  *)
(***************************************************************************)
strictInt(val, t) ==
    /\ val.kind \in {"int", "digits"} \/ (val.kind = "float" /\ val.whole)
    /\ Fits(val.n, t)

toInt(val) == val.kind \in {"int", "float"} \/ (val.kind \in Strings /\ val.whole)

-----------------------------------------------------------------------------
(***************************************************************************)
(* oidForColumn: what a column's name says of its type.  A name is a       *)
(* record whose "like" field has what the code looks for in the lower-     *)
(* cased name: "uuid" (is or ends in _uuid), "flag" (enabled, active...),  *)
(* "count" (count, total, num_..., ..._count), "id", "at" (ends in _at),   *)
(* "_at" (contains it), "time" (contains it), "date" (ends in _date).      *)
(***************************************************************************)
oidForColumn(like) ==
    CASE "uuid" \in like -> "uuid"
      [] "uuid" \notin like /\ "flag" \in like -> "bool"
      [] {"uuid", "flag"} \cap like = {} /\ "count" \in like -> "int8"
      [] {"uuid", "flag", "count"} \cap like = {} /\ "id" \in like -> "int4"
      [] {"uuid", "flag", "count", "id"} \cap like = {} /\ {"at", "time", "date"} \cap like # {}
            -> "timestamptz"
      [] OTHER -> "text"

isTimestamp(like) == {"_at", "at", "time"} \cap like # {}

Typed == IntTypes \cup {"bool", "float4", "float8", "numeric", "date", "timestamp", "timestamptz", "uuid"}

\* The values a typed encoder accepts; for the others it falls back to text.
Encodes(oid, val) ==
    CASE oid \in IntTypes -> strictInt(val, oid)
      [] oid = "bool" -> val.kind = "bool" \/ (val.kind = "digits" /\ val.n \in {0, 1})
      [] oid \in {"float4", "float8", "numeric"} ->
            val.kind \in {"float", "digits"} \/ strictInt(val, "int8")
      [] oid = "date" -> val.kind \in {"date", "timestamp"}
      [] oid \in {"timestamp", "timestamptz"} -> val.kind = "timestamp"
      [] oid = "uuid" -> val.kind = "uuid"

encodeBinaryForOID(oid, val) ==
    IF ~Encodes(oid, val) THEN dataRowText(val)
    ELSE Field(oid, IF oid \in IntTypes THEN Unsigned(val.n, oid) ELSE val)

(***************************************************************************)
(* appendLegacyBinary: the encoder for types without one of their own.     *)
(***************************************************************************)
appendLegacyBinary(like, val) ==
    CASE val.kind = "uuid" -> Field("uuid", val)
      [] val.kind = "timestamp" /\ isTimestamp(like) -> Field("timestamptz", val)
      [] val.kind \in Strings /\ val.kind # "uuid" /\ ~(val.kind = "timestamp" /\ isTimestamp(like))
            -> dataRowText(val)
      [] val.kind \notin Strings /\ toInt(val) ->
            LET t == IF oidForColumn(like) \in {"int8", "timestamptz"} THEN "int8" ELSE "int4"
            IN  Field(t, Unsigned(val.n, t))
      [] OTHER -> dataRowText(val)

\* One field of encodeDataRow, for the format "binary", "text" or "legacy".
encodeField(like, val, oid, format) ==
    CASE val.kind = "null" -> Field("null", val)
      [] val.kind # "null" /\ format = "binary" ->
            IF oid \in Typed THEN encodeBinaryForOID(oid, val) ELSE appendLegacyBinary(like, val)
      [] val.kind # "null" /\ format = "text" -> dataRowText(val)
      [] val.kind # "null" /\ format = "legacy" ->
            IF "id" \in like
            THEN IF toInt(val) THEN Field("int4", Unsigned(val.n, "int4")) ELSE dataRowText(val)
            ELSE IF isTimestamp(like) /\ val.kind = "timestamp" THEN Field("timestamptz", val)
            ELSE dataRowText(val)

-----------------------------------------------------------------------------
(***************************************************************************)
(* A decimal number: its sign, and its digits before and after the point.  *)
(* encodeNumericBinary packs the digits, from the point outwards, in       *)
(* groups counting up to Base; decodeNumeric unpacks them.                 *)
(***************************************************************************)
Group == CHOOSE g \in 1..9 : 10 ^ g = Base

\* The number that g digits of s make from position i on, zeros where s has none.
ReadFrom(s, i, g) ==
    LET read[k \in 0..g] ==
            IF k = 0 THEN 0
            ELSE 10 * read[k - 1] + (IF i + k - 1 \in DOMAIN s THEN s[i + k - 1] ELSE 0)
    IN  read[g]

Groups(s, first, n) == [k \in 1..n |-> ReadFrom(s, first + (k - 1) * Group, Group)]
Up(n) == (n + Group - 1) \div Group

\* The zeros a sequence starts with, and ends with.
Leading(s) ==
    CHOOSE n \in 0..Len(s) : (\A i \in 1..n : s[i] = 0) /\ (n < Len(s) => s[n + 1] # 0)
Trailing(s) ==
    CHOOSE n \in 0..Len(s) :
        (\A i \in 1..n : s[Len(s) + 1 - i] = 0) /\ (n < Len(s) => s[Len(s) - n] # 0)

encodeNumericBinary(num) ==
    LET int == SubSeq(num.int, Leading(num.int) + 1, Len(num.int))
        pad == Up(Len(int)) * Group - Len(int)
        all == Groups(int, 1 - pad, Up(Len(int))) \o Groups(num.frac, 1, Up(Len(num.frac)))
        lead == Leading(all)
        digits == SubSeq(all, lead + 1, Len(all) - (IF lead = Len(all) THEN 0 ELSE Trailing(all)))
    IN  [digits |-> digits,
         weight |-> IF digits = << >> THEN 0 ELSE Up(Len(int)) - 1 - lead,
         neg    |-> digits # << >> /\ num.neg,
         dscale |-> Len(num.frac)]

\* The Group digits of d, and those of a sequence of groups.
Written(d) == [k \in 1..Group |-> (d \div (10 ^ (Group - k))) % 10]

decodeNumeric(b) ==
    LET digit(i) == IF i + 1 \in DOMAIN b.digits THEN b.digits[i + 1] ELSE 0
        first == Written(digit(0))
        cut == IF digit(0) = 0 THEN Group - 1 ELSE Leading(first)
    IN  [neg  |-> b.neg,
         int  |-> IF b.weight < 0 THEN <<0>>
                  ELSE SubSeq([i \in 1..(b.weight + 1) * Group |->
                                 Written(digit((i - 1) \div Group))[((i - 1) % Group) + 1]],
                              cut + 1, (b.weight + 1) * Group),
         frac |-> [k \in 1..b.dscale |->
                    Written(digit(b.weight + 1 + (k - 1) \div Group))[((k - 1) % Group) + 1]]]

-----------------------------------------------------------------------------
(***************************************************************************)
(* The Bind message.  Formats: none means text for all, one is for all,    *)
(* otherwise one per parameter.                                            *)
(***************************************************************************)
Size(t) ==
    CASE t = "bool" -> 1 [] t = "int2" -> 2 [] t \in {"int4", "float4", "date"} -> 4
      [] t \in {"int8", "float8", "timestamp", "timestamptz"} -> 8 [] t = "uuid" -> 16
      [] OTHER -> 0

\* What the matcher compares: the number or value written out, or the bytes as they are.
Shown(v) == [text |-> v]
Raw(field) == IF field.as = "text" THEN Shown(field.v) ELSE [bytes |-> field]

decodeBindParam(oid, format, field) ==
    IF format # 1 \/ oid \notin Typed \/ Size(oid) # Size(field.as) \/ (Size(oid) = 0 /\ oid # field.as)
    THEN Raw(field)
    ELSE IF oid # field.as THEN [misread |-> field, as |-> oid]
    ELSE Shown(IF oid \in IntTypes THEN Signed(field.v, oid) ELSE field.v)

extractBindParams(bind, paramOIDs) ==
    [i \in 1..Len(bind.params) |->
        LET format == CASE Len(bind.formats) = 1 -> bind.formats[1]
                        [] Len(bind.formats) # 1 /\ i \in DOMAIN bind.formats -> bind.formats[i]
                        [] OTHER -> 0
            oid == IF i \in DOMAIN paramOIDs THEN paramOIDs[i] ELSE "unknown"
        IN  IF bind.params[i].as = "null" THEN [text |-> ""]
            ELSE decodeBindParam(oid, format, bind.params[i])]

extractBindResultFormats(bind) == IF bind.results = << >> THEN <<0>> ELSE bind.results

resultFormats(codes, n) ==
    [i \in 1..n |->
        IF codes = << >> THEN "legacy"
        ELSE LET code == IF Len(codes) = 1 THEN codes[1]
                         ELSE IF i \in DOMAIN codes THEN codes[i] ELSE 0
             IN  IF code = 1 THEN "binary" ELSE "text"]
=============================================================================
