------------------------------ MODULE KafkaProofs ------------------------------
(***************************************************************************)
(* Theorems about the broker the Kafka interceptor pretends to be, for any *)
(* number of consumers and producers, any seeds, mocks, batches, restarts  *)
(* and interleavings.                                                      *)
(***************************************************************************)
EXTENDS KafkaProperties, FiniteSetTheorems, SequenceTheorems, WellFoundedInduction, TLAPS

-----------------------------------------------------------------------------
(***************************************************************************)
(* Where the fields of a request start.                                    *)
(***************************************************************************)
LEMMA LeastNat ==
  ASSUME NEW T \in SUBSET Nat, T # {}
  PROVE  \E n \in T : \A m \in T : n <= m
<1>1. PICK n \in T : \A m \in T : ~ (<<m, n>> \in OpToRel(<, Nat))
  BY NatLessThanWellFounded, WFMin
<1>2. \A m \in T : ~(m < n)
  BY <1>1 DEF OpToRel
<1> QED BY <1>2

IsFields(fields, n) == DOMAIN fields = 1..n /\ \A i \in 1..n : fields[i].size \in Nat \ {0}

Follow(f, fields, n) == f = [i \in 1..n |-> IF i = 1 THEN 0 ELSE f[i - 1] + fields[i - 1].size]

LEMMA StartsExist ==
  ASSUME NEW fields, NEW L \in Nat
  PROVE  \E f : Follow(f, fields, L)
<1> DEFINE Bad == {n \in Nat : ~ \E f : Follow(f, fields, n)}
<1> SUFFICES ASSUME Bad # {} PROVE FALSE
  OBVIOUS
<1>1. PICK n \in Bad : \A m \in Bad : n <= m
  BY LeastNat
<1>2. CASE n = 0
  <2>1. Follow([i \in 1..0 |-> 0], fields, 0)
    BY DEF Follow
  <2> QED BY <2>1, <1>1, <1>2
<1>3. CASE n # 0
  <2>1. n \in Nat /\ n - 1 \in Nat /\ n - 1 \notin Bad
    BY <1>1, <1>3
  <2>2. PICK f : Follow(f, fields, n - 1)
    BY <2>1
  <2> DEFINE v == IF n = 1 THEN 0 ELSE f[n - 1] + fields[n - 1].size
             g == [i \in 1..n |-> IF i = n THEN v ELSE f[i]]
  <2>3. ASSUME NEW i \in 1..n PROVE g[i] = IF i = 1 THEN 0 ELSE g[i - 1] + fields[i - 1].size
    <3>1. CASE i = n
      BY <3>1, <2>1
    <3>2. CASE i # n
      <4>1. i \in 1..(n - 1)
        BY <3>2, <2>1
      <4>2. f[i] = IF i = 1 THEN 0 ELSE f[i - 1] + fields[i - 1].size
        BY <2>2, <4>1 DEF Follow
      <4> QED BY <4>1, <4>2, <2>1
    <3> QED BY <3>1, <3>2
  <2>4. Follow(g, fields, n)
    <3> HIDE DEF v
    <3>1. g = [i \in 1..n |-> g[i]]
      OBVIOUS
    <3> HIDE DEF g
    <3> QED BY <3>1, <2>3 DEF Follow
  <2> QED BY <2>4, <1>1
<1> QED BY <1>2, <1>3

LEMMA StartsFollow ==
  ASSUME NEW n \in Nat, NEW fields, IsFields(fields, n)
  PROVE  /\ DOMAIN Starts(fields) = 1..n
         /\ \A i \in 1..n : Starts(fields)[i] = IF i = 1 THEN 0 ELSE Starts(fields)[i - 1] + fields[i - 1].size
<1>1. DOMAIN fields = 1..n
  BY DEF IsFields
<1>2. Starts(fields) = CHOOSE f : f = [i \in 1..n |-> IF i = 1 THEN 0 ELSE f[i - 1] + fields[i - 1].size]
  BY <1>1 DEF Starts
<1>3. Starts(fields) = CHOOSE f : Follow(f, fields, n)
  BY <1>2 DEF Follow
<1>4. Follow(Starts(fields), fields, n)
  BY <1>3, StartsExist
<1> HIDE DEF Starts
<1> QED BY <1>4 DEF Follow

LEMMA StartsGrow ==
  ASSUME NEW n \in Nat, NEW fields, IsFields(fields, n)
  PROVE  \A i \in 1..n : /\ Starts(fields)[i] \in Nat
                         /\ \A j \in 1..n : j < i => Starts(fields)[j] < Starts(fields)[i]
<1> DEFINE s == Starts(fields)
           Good(i) == s[i] \in Nat /\ \A j \in 1..n : j < i => s[j] < s[i]
           Bad == {i \in 1..n : ~Good(i)}
<1>0. \A i \in 1..n : s[i] = IF i = 1 THEN 0 ELSE s[i - 1] + fields[i - 1].size
  BY StartsFollow
<1> HIDE DEF s
<1> SUFFICES ASSUME Bad # {} PROVE FALSE
  BY DEF s
<1>1. PICK i \in Bad : \A m \in Bad : i <= m
  <2>1. Bad \in SUBSET Nat
    OBVIOUS
  <2> HIDE DEF Bad
  <2> QED BY <2>1, LeastNat
<1>2. CASE i = 1
  BY <1>0, <1>1, <1>2
<1>3. CASE i # 1
  <2>1. i \in 1..n /\ i - 1 \in 1..n /\ i - 1 \notin Bad
    BY <1>1, <1>3
  <2>2. Good(i - 1)
    BY <2>1
  <2>3. s[i] = s[i - 1] + fields[i - 1].size /\ fields[i - 1].size \in Nat \ {0}
    BY <1>0, <1>3, <2>1 DEF IsFields
  <2>4. s[i] \in Nat /\ s[i - 1] \in Nat /\ s[i - 1] < s[i]
    BY <2>2, <2>3
  <2>5. ASSUME NEW j \in 1..n, j < i PROVE s[j] < s[i]
    <3>1. CASE j = i - 1
      BY <3>1, <2>4
    <3>2. CASE j # i - 1
      <4>1. j < i - 1
        BY <3>2, <2>5, <2>1
      <4>2. i \in 1..n /\ j \in 1..n
        BY <2>1, <2>5
      <4>3. s[j] \in Nat
        <5>1. j \notin Bad
          BY <1>1, <4>1, <4>2
        <5> QED BY <5>1, <4>2
      <4> QED BY <4>1, <4>2, <4>3, <2>2, <2>4
    <3> QED BY <3>1, <3>2
  <2> QED BY <2>4, <2>5, <1>1
<1> QED BY <1>2, <1>3

\* A field is read where it starts.
LEMMA WireReads ==
  ASSUME NEW n \in Nat, NEW fields, IsFields(fields, n), NEW k \in 1..n
  PROVE  /\ Starts(fields)[k] \in DOMAIN Wire(fields)
         /\ Wire(fields)[Starts(fields)[k]] = fields[k]
<1> DEFINE s == Starts(fields)
<1>1. DOMAIN fields = 1..n
  BY DEF IsFields
<1>2. \A j \in 1..n : s[j] = s[k] => j = k
  <2>1. \A i \in 1..n : s[i] \in Nat /\ \A j \in 1..n : j < i => s[j] < s[i]
    BY StartsGrow
  <2> HIDE DEF s
  <2> QED BY <2>1
<1>3. Wire(fields) = [at \in {s[i] : i \in DOMAIN fields} |-> fields[CHOOSE i \in DOMAIN fields : s[i] = at]]
  BY DEF Wire
<1> HIDE DEF s
<1>4. s[k] \in {s[i] : i \in DOMAIN fields}
  BY <1>1
<1>5. (CHOOSE i \in DOMAIN fields : s[i] = s[k]) = k
  BY <1>1, <1>2
<1> QED BY <1>3, <1>4, <1>5 DEF s

-----------------------------------------------------------------------------
(***************************************************************************)
(* The parsers read the topic, or the assignor, that was written.          *)
(***************************************************************************)
NoName == ""
Written == Names \cup {"", Group, "consumer"}

LEMMA FieldSizes ==
  /\ \A k \in Nat \ {0} : Num(k).size = k
  /\ \A text \in Written : /\ Str(text).size \in Nat \ {0} /\ Str(text).size = 2 + Len(text)
                           /\ Str(text).text = text /\ text # None
<1>1. \A text \in Written : Len(text) \in Nat /\ text # None
  BY NameAssumption, Zenon DEF Written
<1>2. ASSUME NEW text, Len(text) \in Nat
      PROVE  Str(text).size \in Nat \ {0} /\ Str(text).size = 2 + Len(text) /\ Str(text).text = text
  BY <1>2 DEF Str
<1> QED BY <1>1, <1>2 DEF Num

LEMMA Joined ==
  ASSUME NEW a, NEW b, NEW c, NEW d, NEW e, NEW f
  PROVE  /\ <<a, b, c>> \o << >> \o << >> \o <<d, e>> = <<a, b, c, d, e>>
         /\ <<a, b, c>> \o <<d>> \o << >> \o <<e, f>> = <<a, b, c, d, e, f>>
         /\ <<a>> \o << >> \o <<b, c>> = <<a, b, c>>
         /\ <<a>> \o <<b, c>> = <<a, b, c>>
         /\ << >> \o <<a, b>> = <<a, b>>
<1> DEFINE S == {a, b, c, d, e, f}
<1>1. /\ a \in S /\ b \in S /\ c \in S /\ d \in S /\ e \in S /\ f \in S
  OBVIOUS
<1> HIDE DEF S
<1>2. ASSUME NEW x \in S, NEW y \in S, NEW z \in S
      PROVE  <<x>> \o <<y, z>> = <<x, y, z>>
  <2>1. <<x>> \in Seq(S) /\ <<y, z>> \in Seq(S) /\ <<x, y, z>> \in Seq(S)
    OBVIOUS
  <2>2. Len(<<x>> \o <<y, z>>) = 3 /\ \A i \in 1..3 : (<<x>> \o <<y, z>>)[i] = <<x, y, z>>[i]
    BY <2>1, ConcatProperties
  <2> QED BY <2>1, <2>2, ConcatProperties, SeqEqual
<1>3. \A s \in Seq(S) : << >> \o s = s /\ s \o << >> = s
  OBVIOUS
<1>4. <<a>> \in Seq(S) /\ <<a, b>> \in Seq(S) /\ <<a, b, c>> \in Seq(S)
  BY <1>1
<1>5. <<a, b, c>> \o <<d, e>> = <<a, b, c, d, e>>
  <2>1. <<d, e>> \in Seq(S) /\ <<a, b, c, d, e>> \in Seq(S)
    BY <1>1
  <2>2. /\ Len(<<a, b, c>> \o <<d, e>>) = 5
        /\ \A i \in 1..5 : (<<a, b, c>> \o <<d, e>>)[i] = <<a, b, c, d, e>>[i]
    BY <1>4, <2>1, ConcatProperties
  <2> QED BY <1>4, <2>1, <2>2, ConcatProperties, SeqEqual
<1>6. <<a, b, c>> \o <<d>> \o <<e, f>> = <<a, b, c, d, e, f>>
  <2>1. <<d>> \in Seq(S) /\ <<e, f>> \in Seq(S) /\ <<a, b, c, d>> \in Seq(S) /\ <<a, b, c, d, e, f>> \in Seq(S)
    BY <1>1
  <2>2. <<a, b, c>> \o <<d>> = <<a, b, c, d>>
    <3>1. /\ Len(<<a, b, c>> \o <<d>>) = 4
          /\ \A i \in 1..4 : (<<a, b, c>> \o <<d>>)[i] = <<a, b, c, d>>[i]
      BY <1>4, <2>1, ConcatProperties
    <3> QED BY <1>4, <2>1, <3>1, ConcatProperties, SeqEqual
  <2>3. /\ Len(<<a, b, c, d>> \o <<e, f>>) = 6
        /\ \A i \in 1..6 : (<<a, b, c, d>> \o <<e, f>>)[i] = <<a, b, c, d, e, f>>[i]
    BY <2>1, ConcatProperties
  <2>4. <<a, b, c, d>> \o <<e, f>> = <<a, b, c, d, e, f>>
    BY <2>1, <2>3, ConcatProperties, SeqEqual
  <2> QED BY <2>2, <2>4
<1>7. <<d>> \in Seq(S) /\ <<a, b, c>> \o <<d>> \in Seq(S)
  BY <1>1, <1>4, ConcatProperties
<1>8. /\ <<a, b, c>> \o << >> \o << >> = <<a, b, c>> /\ <<a, b, c>> \o <<d>> \o << >> = <<a, b, c>> \o <<d>>
      /\ <<a>> \o << >> = <<a>> /\ << >> \o <<a, b>> = <<a, b>>
  BY <1>3, <1>4, <1>7
<1> QED BY <1>1, <1>2, <1>5, <1>6, <1>8

LEMMA ReadField ==
  ASSUME NEW n \in Nat, NEW fields, IsFields(fields, n), NEW k \in 1..n,
         NEW text \in Written, fields[k] = Str(text)
  PROVE  /\ ReadString(Wire(fields), Starts(fields)[k]) = text
         /\ skipString(Wire(fields), Starts(fields)[k]) = Starts(fields)[k] + Str(text).size
<1>1. IsString(Wire(fields), Starts(fields)[k]) /\ Wire(fields)[Starts(fields)[k]] = Str(text)
  BY WireReads, FieldSizes DEF IsString
<1> QED BY <1>1, FieldSizes DEF ReadString, skipString

LEMMA FetchTopicRead ==
  ASSUME NEW c \in Clients, NEW topic \in Written, Version(c, "Fetch") \in 1..3
  PROVE  parseFetchTopic(Wire(KafkaRequest(c, "Fetch", topic)), Version(c, "Fetch")) = topic
<1> DEFINE v == Version(c, "Fetch")
           fields == KafkaRequest(c, "Fetch", topic)
<1>1. v \in 1..3
  OBVIOUS
<1>2. CASE v = 3
  <2>1. fields = <<Num(4), Num(4), Num(4), Num(4), Num(4), Str(topic)>>
    <3>1. fields = <<Num(4), Num(4), Num(4)>> \o <<Num(4)>> \o << >> \o <<Num(4), Str(topic)>>
      BY <1>2 DEF KafkaRequest
    <3> QED BY <3>1, Joined
  <2> HIDE DEF fields
  <2>2. IsFields(fields, 6)
    BY <2>1, FieldSizes DEF IsFields
  <2>3. Starts(fields)[6] = 20
    <3>1. \A i \in 1..5 : fields[i].size = 4
      BY <2>1, FieldSizes
    <3> QED BY <2>2, <3>1, StartsFollow
  <2>4. ReadString(Wire(fields), 20) = topic
    BY <2>1, <2>2, <2>3, ReadField
  <2> QED BY <1>2, <2>4 DEF parseFetchTopic, fields
<1>3. CASE v # 3
  <2>1. fields = <<Num(4), Num(4), Num(4), Num(4), Str(topic)>>
    <3>1. fields = <<Num(4), Num(4), Num(4)>> \o << >> \o << >> \o <<Num(4), Str(topic)>>
      BY <1>1, <1>3 DEF KafkaRequest
    <3> QED BY <3>1, Joined
  <2> HIDE DEF fields
  <2>2. IsFields(fields, 5)
    BY <2>1, FieldSizes DEF IsFields
  <2>3. Starts(fields)[5] = 16
    <3>1. \A i \in 1..4 : fields[i].size = 4
      BY <2>1, FieldSizes
    <3> QED BY <2>2, <3>1, StartsFollow
  <2>4. ReadString(Wire(fields), 16) = topic
    BY <2>1, <2>2, <2>3, ReadField
  <2> QED BY <1>1, <1>3, <2>4 DEF parseFetchTopic, fields
<1> QED BY <1>2, <1>3

LEMMA ListOffsetsTopicRead ==
  ASSUME NEW c \in Clients, NEW topic \in Written
  PROVE  parseListOffsetsTopic(Wire(KafkaRequest(c, "ListOffsets", topic))) = topic
<1> DEFINE fields == KafkaRequest(c, "ListOffsets", topic)
<1>1. fields = <<Num(4), Num(4), Str(topic)>>
  BY DEF KafkaRequest
<1> HIDE DEF fields
<1>2. IsFields(fields, 3)
  BY <1>1, FieldSizes DEF IsFields
<1>3. Starts(fields)[3] = 8
  BY <1>1, <1>2, FieldSizes, StartsFollow
<1>4. ReadString(Wire(fields), 8) = topic
  BY <1>1, <1>2, <1>3, ReadField
<1> QED BY <1>4 DEF parseListOffsetsTopic, fields

LEMMA SecondReadAfterFirst ==
  ASSUME NEW first \in Written, NEW topic \in Written, NEW fields, NEW k \in Nat \ {0},
         fields = <<Str(first), Num(k), Str(topic)>>
  PROVE  ReadString(Wire(fields), skipString(Wire(fields), 0) + k) = topic
<1>1. IsFields(fields, 3)
  BY FieldSizes DEF IsFields
<1>2. Starts(fields)[1] = 0 /\ Starts(fields)[3] = 0 + Str(first).size + k
  BY <1>1, FieldSizes, StartsFollow
<1>3. skipString(Wire(fields), 0) = 0 + Str(first).size
  BY <1>1, <1>2, ReadField
<1> QED BY <1>1, <1>2, <1>3, ReadField

\* OffsetCommit v0 and OffsetFetch name the group first.
LEMMA GroupTopicRead ==
  ASSUME NEW c \in Clients, NEW topic \in Written
  PROVE  /\ Version(c, "OffsetCommit") = 0 => parseOffsetCommitTopic(Wire(KafkaRequest(c, "OffsetCommit", topic))) = topic
         /\ parseOffsetFetchRequest(Wire(KafkaRequest(c, "OffsetFetch", topic))) = topic
<1> DEFINE fields == <<Str(Group), Num(4), Str(topic)>>
<1>2. ASSUME Version(c, "OffsetCommit") = 0 PROVE KafkaRequest(c, "OffsetCommit", topic) = fields
  <2>1. KafkaRequest(c, "OffsetCommit", topic) = <<Str(Group)>> \o << >> \o <<Num(4), Str(topic)>>
    BY <1>2 DEF KafkaRequest
  <2> QED BY <2>1, Joined
<1>3. KafkaRequest(c, "OffsetFetch", topic) = fields
  BY DEF KafkaRequest
<1>4. Group \in Written
  BY Zenon DEF Written
<1>5. ReadString(Wire(fields), skipString(Wire(fields), 0) + 4) = topic
  BY <1>4, SecondReadAfterFirst
<1> QED BY <1>2, <1>3, <1>5 DEF parseOffsetCommitTopic, parseOffsetFetchRequest

\* Whatever the version, what is written is what is read.
LEMMA ProduceTopicRead ==
  ASSUME NEW c \in Clients, NEW topic \in Written
  PROVE  produceTopic(Wire(KafkaRequest(c, "Produce", topic)), Version(c, "Produce")) = topic
<1> DEFINE late == Version(c, "Produce") >= 3
           fields == KafkaRequest(c, "Produce", topic)
           data == Wire(fields)
<1>1. fields = (IF late THEN <<Str("")>> ELSE << >>) \o <<Num(10), Str(topic)>>
  BY Zenon DEF KafkaRequest
<1>2. produceTopic(data, Version(c, "Produce")) = ReadString(data, (IF late THEN skipString(data, 0) ELSE 0) + 10)
  BY Zenon DEF produceTopic
<1> HIDE DEF late, fields, data
<1>3. CASE late
  <2>1. fields = <<Str("")>> \o <<Num(10), Str(topic)>>
    BY <1>1, <1>3, Zenon
  <2>2. fields = <<Str(""), Num(10), Str(topic)>>
    BY <2>1, Joined, Zenon
  <2>3. "" \in Written
    BY Zenon DEF Written
  <2>4. ASSUME NEW first \in Written, fields = <<Str(first), Num(10), Str(topic)>>
        PROVE  ReadString(Wire(fields), skipString(Wire(fields), 0) + 10) = topic
    BY <2>4, SecondReadAfterFirst
  <2>5. ReadString(data, skipString(data, 0) + 10) = topic
    BY <2>2, <2>3, <2>4, Zenon DEF data
  <2> QED BY <1>2, <1>3, <2>5, Zenon DEF fields, data
<1>4. CASE ~late
  <2>1. fields = <<Num(10), Str(topic)>>
    <3>1. fields = << >> \o <<Num(10), Str(topic)>>
      BY <1>1, <1>4, Zenon
    <3> QED BY <3>1, Joined
  <2>2. IsFields(fields, 2)
    BY <2>1, FieldSizes DEF IsFields
  <2>3. Starts(fields)[2] = 10
    BY <2>1, <2>2, FieldSizes, StartsFollow
  <2>4. ReadString(data, 0 + 10) = topic
    BY <2>1, <2>2, <2>3, ReadField DEF data
  <2> QED BY <1>2, <1>4, <2>4, Zenon DEF fields, data
<1> QED BY <1>3, <1>4

\* Behind the group, the timeouts, the member and the type comes the first offer.
LEMMA FirstOfferRead ==
  ASSUME NEW g \in Written, NEW e \in Written, NEW k \in Written, NEW first \in Written, first # NoName,
         NEW w \in {2, 3}, NEW n \in Nat, n >= w + 4, NEW fields, IsFields(fields, n),
         fields[1] = Str(g), \A i \in 2..w : fields[i] = Num(4), fields[w + 1] = Str(e),
         fields[w + 2] = Str(k), fields[w + 3] = Num(4), fields[w + 4] = Str(first)
  PROVE  ProtocolAt(Wire(fields), 4 * (w - 1)) = first
<1> DEFINE s == Starts(fields)
           data == Wire(fields)
<1>1. \A i \in 1..n : s[i] \in Nat /\ s[i] = IF i = 1 THEN 0 ELSE s[i - 1] + fields[i - 1].size
  BY StartsFollow, StartsGrow
<1>2. \A i \in 1..n : \A text \in Written : fields[i] = Str(text) =>
        ReadString(data, s[i]) = text /\ skipString(data, s[i]) = s[i] + Str(text).size
  BY ReadField
<1> HIDE DEF s, data
<1>3. skipString(data, 0) = s[2]
  BY <1>1, <1>2
<1>4. s[w + 1] = s[2] + 4 * (w - 1)
  <2>1. Num(4).size = 4
    BY FieldSizes
  <2>2. CASE w = 2
    BY <1>1, <2>1, <2>2
  <2>3. CASE w = 3
    <3>1. fields[2].size = 4 /\ fields[3].size = 4
      BY <2>1, <2>3
    <3>2. s[4] = s[3] + 4 /\ s[3] = s[2] + 4 /\ s[2] \in Nat
      BY <1>1, <3>1, <2>3
    <3> QED BY <3>2, <2>3
  <2> QED BY <2>2, <2>3
<1>5. skipString(data, s[w + 1]) = s[w + 2]
  BY <1>1, <1>2
<1>6. skipString(data, s[w + 2]) = s[w + 3]
  BY <1>1, <1>2
<1>7. s[w + 4] = s[w + 3] + 4
  <2>1. s[w + 4] = s[w + 3] + fields[w + 3].size
    BY <1>1
  <2>2. fields[w + 3].size = 4
    BY FieldSizes
  <2> QED BY <2>1, <2>2
<1>8. ReadString(data, s[w + 4]) = first
  BY <1>2
<1>9. ReadString(data, skipString(data, skipString(data, skipString(data, 0) + 4 * (w - 1))) + 4) = first
  BY <1>3, <1>4, <1>5, <1>6, <1>7, <1>8
<1> QED BY <1>9, Zenon DEF ProtocolAt, data, NoName

LEMMA ListBehind ==
  ASSUME NEW S, NEW head \in Seq(S), NEW more \in Seq(S), Len(more) # 0
  PROVE  /\ DOMAIN (head \o more) = 1..(Len(head) + Len(more))
         /\ \A i \in 1..Len(head) : (head \o more)[i] = head[i]
         /\ (head \o more)[Len(head) + 1] = more[1]
         /\ \A i \in 1..(Len(head) + Len(more)) : (head \o more)[i] \in S
<1> DEFINE k == Len(head)
           n == Len(more)
<1>1. k \in Nat /\ n \in Nat /\ n # 0
  OBVIOUS
<1>2. /\ head \o more \in Seq(S) /\ Len(head \o more) = k + n
      /\ \A i \in 1..(k + n) : (head \o more)[i] = IF i <= k THEN head[i] ELSE more[i - k]
  BY ConcatProperties
<1> HIDE DEF k, n
<1>3. \A i \in 1..k : i \in 1..(k + n) /\ i <= k
  BY <1>1
<1>4. k + 1 \in 1..(k + n) /\ ~(k + 1 <= k) /\ (k + 1) - k = 1
  BY <1>1
<1> QED BY <1>2, <1>3, <1>4 DEF k, n

LEMMA AssignorRead ==
  ASSUME NEW c \in Consumers, NEW topic, Version(c, "JoinGroup") \in 0..1
  PROVE  parseJoinGroupProtocol(Wire(KafkaRequest(c, "JoinGroup", topic)), Version(c, "JoinGroup")) = Offers[c][1]
<1> DEFINE v == Version(c, "JoinGroup")
           fields == KafkaRequest(c, "JoinGroup", topic)
           offers == [i \in DOMAIN Offers[c] |-> Str(Offers[c][i])]
           Old == <<Str(Group), Num(4)>> \o << >>
           New == <<Str(Group), Num(4)>> \o <<Num(4)>>
           tail(e, k) == <<Str(e), Str(k), Num(4)>>
<1>1. v \in 0..1
  OBVIOUS
<1>2. fields = <<Str(Group), Num(4)>> \o (IF v >= 1 THEN <<Num(4)>> ELSE << >>) \o tail("", "consumer") \o offers
  BY Zenon DEF KafkaRequest
<1>3. PICK n \in Nat \ {0} : n = Len(Offers[c]) /\ DOMAIN Offers[c] = 1..n
  BY ListAssumption DEF IsList
<1>4. \A i \in 1..n : Offers[c][i] \in Names
  <2>1. \A i \in 1..n : Offers[c][i] \in {Offers[c][j] : j \in DOMAIN Offers[c]}
    BY <1>3
  <2>2. {Offers[c][j] : j \in DOMAIN Offers[c]} \subseteq Names
    <3>1. {Offers[c][j] : j \in DOMAIN Offers[c]} \subseteq Offered
      BY DEF Offered
    <3> QED BY <3>1, Zenon DEF Names
  <2> QED BY <2>1, <2>2
<1>5. "" \in Written /\ "consumer" \in Written
  BY Zenon DEF Written
<1>0. (\A i \in 1..n : Offers[c][i] \in Written) /\ Group \in Written
  BY <1>4, Zenon DEF Written
<1>6. Offers[c][1] \in Written /\ Offers[c][1] # NoName
  <2>1. Offers[c][1] \in Names
    BY <1>3, <1>4
  <2> QED BY <2>1, NameAssumption, Zenon DEF Written, NoName
<1>7. ASSUME NEW e \in Written, NEW k \in Written
      PROVE  /\ v = 0 /\ fields = Old \o tail(e, k) \o offers => ProtocolAt(Wire(fields), 4) = Offers[c][1]
             /\ v = 1 /\ fields = New \o tail(e, k) \o offers => ProtocolAt(Wire(fields), 8) = Offers[c][1]
  <2> DEFINE S == {Num(4)} \cup {Str(text) : text \in Written}
  <2>1. \A x \in S : x.size \in Nat \ {0}
    BY FieldSizes
  <2>2. /\ <<Str(Group), Num(4)>> \in Seq(S) /\ <<Num(4)>> \in Seq(S) /\ << >> \in Seq(S)
        /\ tail(e, k) \in Seq(S)
    BY <1>0
  <2>3. offers \in Seq(S) /\ Len(offers) = n /\ offers[1] = Str(Offers[c][1])
    BY <1>3, <1>0
  <2> HIDE DEF S, offers, fields, v
  <2>4. CASE v = 0 /\ fields = Old \o tail(e, k) \o offers
    <3>1. Old = <<Str(Group), Num(4)>>
      BY <2>2, ConcatEmptySeq
    <3>2. /\ Old \o tail(e, k) \in Seq(S) /\ Len(Old \o tail(e, k)) = 5
          /\ (Old \o tail(e, k))[1] = Str(Group) /\ (Old \o tail(e, k))[2] = Num(4)
          /\ (Old \o tail(e, k))[3] = Str(e) /\ (Old \o tail(e, k))[4] = Str(k)
          /\ (Old \o tail(e, k))[5] = Num(4)
      BY <2>2, <3>1, ConcatProperties
    <3> DEFINE head == Old \o tail(e, k)
    <3> HIDE DEF head, Old, tail
    <3>3. /\ \A i \in 1..5 : fields[i] = head[i]
          /\ fields[6] = offers[1]
          /\ IsFields(fields, 5 + n)
      <4>1. head \in Seq(S) /\ Len(head) = 5 /\ fields = head \o offers
        BY <2>4, <3>2 DEF head
      <4>2. offers \in Seq(S) /\ Len(offers) = n /\ Len(offers) # 0
        BY <1>3, <2>3
      <4>3. /\ DOMAIN (head \o offers) = 1..(Len(head) + Len(offers))
            /\ \A i \in 1..Len(head) : (head \o offers)[i] = head[i]
            /\ (head \o offers)[Len(head) + 1] = offers[1]
            /\ \A i \in 1..(Len(head) + Len(offers)) : (head \o offers)[i] \in S
        BY <4>1, <4>2, ListBehind
      <4>4. /\ \A i \in 1..5 : fields[i] = head[i]
            /\ fields[5 + 1] = offers[1] /\ DOMAIN fields = 1..(5 + n)
            /\ \A i \in 1..(5 + n) : fields[i] \in S
        BY <4>1, <4>2, <4>3, Zenon
      <4> QED BY <2>1, <4>4 DEF IsFields
    <3>5. \A i \in 2..2 : fields[i] = Num(4)
      BY <3>2, <3>3 DEF head
    <3>6. ProtocolAt(Wire(fields), 4 * (2 - 1)) = Offers[c][1]
      <4>1. /\ fields[1] = Str(Group) /\ fields[2 + 1] = Str(e) /\ fields[2 + 2] = Str(k)
            /\ fields[2 + 3] = Num(4) /\ fields[2 + 4] = Str(Offers[c][1])
        <5>1. fields[1] = Str(Group) /\ fields[2 + 1] = Str(e) /\ fields[2 + 2] = Str(k)
          BY <3>2, <3>3 DEF head
        <5>2. fields[2 + 3] = Num(4)
          BY <3>2, <3>3 DEF head
        <5>3. fields[2 + 4] = Str(Offers[c][1])
          BY <2>3, <3>3
        <5> QED BY <5>1, <5>2, <5>3
      <4>2. 5 + n >= 2 + 4 /\ 5 + n \in Nat
        OBVIOUS
      <4> HIDE DEF Written
      <4> QED BY <1>0, <1>6, <3>3, <3>5, <4>1, <4>2, FirstOfferRead
    <3>7. ProtocolAt(Wire(fields), 4) = Offers[c][1]
      <4>1. 4 * (2 - 1) = 4
        OBVIOUS
      <4> QED BY <3>6, <4>1
    <3> QED BY <2>4, <3>7
  <2>5. CASE v = 1 /\ fields = New \o tail(e, k) \o offers
    <3>1. New \in Seq(S) /\ Len(New) = 3 /\ New[1] = Str(Group) /\ New[2] = Num(4) /\ New[3] = Num(4)
      BY <2>2, ConcatProperties
    <3> HIDE DEF New
    <3>2. /\ New \o tail(e, k) \in Seq(S) /\ Len(New \o tail(e, k)) = 6
          /\ (New \o tail(e, k))[1] = Str(Group) /\ (New \o tail(e, k))[2] = Num(4)
          /\ (New \o tail(e, k))[3] = Num(4) /\ (New \o tail(e, k))[4] = Str(e)
          /\ (New \o tail(e, k))[5] = Str(k) /\ (New \o tail(e, k))[6] = Num(4)
      <4>1. /\ tail(e, k) \in Seq(S) /\ Len(tail(e, k)) = 3
            /\ tail(e, k)[1] = Str(e) /\ tail(e, k)[2] = Str(k) /\ tail(e, k)[3] = Num(4)
        BY <2>2
      <4> HIDE DEF tail
      <4>2. ASSUME NEW a \in Seq(S), NEW b \in Seq(S), Len(a) = 3, Len(b) = 3
            PROVE  /\ a \o b \in Seq(S) /\ Len(a \o b) = 6
                   /\ (a \o b)[1] = a[1] /\ (a \o b)[2] = a[2] /\ (a \o b)[3] = a[3]
                   /\ (a \o b)[4] = b[1] /\ (a \o b)[5] = b[2] /\ (a \o b)[6] = b[3]
        BY <4>2, ConcatProperties
      <4> QED BY <3>1, <4>1, <4>2, Zenon
    <3> DEFINE head == New \o tail(e, k)
    <3> HIDE DEF head, tail
    <3>3. /\ \A i \in 1..6 : fields[i] = head[i]
          /\ fields[7] = offers[1]
          /\ IsFields(fields, 6 + n)
      <4>1. head \in Seq(S) /\ Len(head) = 6 /\ fields = head \o offers
        BY <2>5, <3>2 DEF head
      <4>2. offers \in Seq(S) /\ Len(offers) = n /\ Len(offers) # 0
        BY <1>3, <2>3
      <4>3. /\ DOMAIN (head \o offers) = 1..(Len(head) + Len(offers))
            /\ \A i \in 1..Len(head) : (head \o offers)[i] = head[i]
            /\ (head \o offers)[Len(head) + 1] = offers[1]
            /\ \A i \in 1..(Len(head) + Len(offers)) : (head \o offers)[i] \in S
        BY <4>1, <4>2, ListBehind
      <4>4. /\ \A i \in 1..6 : fields[i] = head[i]
            /\ fields[6 + 1] = offers[1] /\ DOMAIN fields = 1..(6 + n)
            /\ \A i \in 1..(6 + n) : fields[i] \in S
        BY <4>1, <4>2, <4>3, Zenon
      <4> QED BY <2>1, <4>4 DEF IsFields
    <3>5. \A i \in 2..3 : fields[i] = Num(4)
      <4>1. fields[2] = Num(4) /\ fields[3] = Num(4)
        BY <3>2, <3>3 DEF head
      <4> QED BY <4>1
    <3>6. ProtocolAt(Wire(fields), 4 * (3 - 1)) = Offers[c][1]
      <4>1. /\ fields[1] = Str(Group) /\ fields[3 + 1] = Str(e) /\ fields[3 + 2] = Str(k)
            /\ fields[3 + 3] = Num(4) /\ fields[3 + 4] = Str(Offers[c][1])
        <5>1. fields[1] = Str(Group) /\ fields[3 + 1] = Str(e) /\ fields[3 + 2] = Str(k)
          BY <3>2, <3>3 DEF head
        <5>2. fields[3 + 3] = Num(4)
          BY <3>2, <3>3 DEF head
        <5>3. fields[3 + 4] = Str(Offers[c][1])
          BY <2>3, <3>3
        <5> QED BY <5>1, <5>2, <5>3
      <4>2. 6 + n >= 3 + 4 /\ 6 + n \in Nat
        OBVIOUS
      <4> HIDE DEF Written
      <4> QED BY <1>0, <1>6, <3>3, <3>5, <4>1, <4>2, FirstOfferRead
    <3>7. ProtocolAt(Wire(fields), 8) = Offers[c][1]
      <4>1. 4 * (3 - 1) = 8
        OBVIOUS
      <4> QED BY <3>6, <4>1
    <3> QED BY <2>5, <3>7
  <2> QED BY <2>4, <2>5
<1> HIDE DEF offers, fields, v
<1>8. CASE v = 0
  <2>1. ~(v >= 1)
    BY <1>8
  <2>2. fields = Old \o tail("", "consumer") \o offers
    BY <1>2, <2>1, Zenon
  <2>3. ProtocolAt(Wire(fields), 4) = Offers[c][1]
    <3> HIDE DEF Old, New, tail
    <3> QED BY <1>5, <1>7, <1>8, <2>2, Zenon
  <2> QED BY <2>1, <2>3, Zenon DEF parseJoinGroupProtocol, v, fields
<1>9. CASE v = 1
  <2>1. v >= 1
    BY <1>9
  <2>2. fields = New \o tail("", "consumer") \o offers
    BY <1>2, <2>1, Zenon
  <2>3. ProtocolAt(Wire(fields), 8) = Offers[c][1]
    <3> HIDE DEF Old, New, tail
    <3> QED BY <1>5, <1>7, <1>9, <2>2, Zenon
  <2> QED BY <2>1, <2>3, Zenon DEF parseJoinGroupProtocol, v, fields
<1> QED BY <1>1, <1>8, <1>9

-----------------------------------------------------------------------------
(***************************************************************************)
(* The answers have the layout of the version that was asked for.          *)
(***************************************************************************)
LEMMA NothingJoined ==
  /\ \A a : << >> \o <<a>> = <<a>>
  /\ \A a, b : << >> \o <<a, b>> = <<a, b>> /\ <<a, b>> \o << >> = <<a, b>> /\ <<a>> \o << >> = <<a>>
<1>1. ASSUME NEW S, NEW s \in Seq(S) PROVE << >> \o s = s /\ s \o << >> = s
  OBVIOUS
<1>2. ASSUME NEW a, NEW b PROVE <<a>> \in Seq({a, b}) /\ <<a, b>> \in Seq({a, b})
  OBVIOUS
<1> QED BY <1>1, <1>2

LEMMA OneMore ==
  ASSUME NEW a, NEW b, NEW c, NEW d, NEW e, NEW f
  PROVE  /\ <<a>> \o <<b>> = <<a, b>>
         /\ <<a, b>> \o <<c>> = <<a, b, c>>
         /\ <<a, b, c>> \o <<d>> = <<a, b, c, d>>
         /\ <<a, b, c, d>> \o <<e>> = <<a, b, c, d, e>>
         /\ <<a, b, c, d, e>> \o <<f>> = <<a, b, c, d, e, f>>
         /\ <<a>> \o <<b, c, d, e>> = <<a, b, c, d, e>>
<1> DEFINE S == {a, b, c, d, e, f}
<1>1. /\ a \in S /\ b \in S /\ c \in S /\ d \in S /\ e \in S /\ f \in S
  OBVIOUS
<1> HIDE DEF S
<1>2. <<a>> \in Seq(S) /\ <<b>> \in Seq(S) /\ <<c>> \in Seq(S) /\ <<d>> \in Seq(S) /\ <<e>> \in Seq(S) /\ <<f>> \in Seq(S)
  BY <1>1
<1>3. <<a, b>> \in Seq(S) /\ <<a, b, c>> \in Seq(S) /\ <<a, b, c, d>> \in Seq(S)
  BY <1>1
<1>4. <<a, b, c, d, e>> \in Seq(S) /\ <<a, b, c, d, e, f>> \in Seq(S) /\ <<b, c, d, e>> \in Seq(S)
  BY <1>1
<1>5. <<a>> \o <<b>> = <<a, b>>
  <2>1. Len(<<a>> \o <<b>>) = 2 /\ \A i \in 1..2 : (<<a>> \o <<b>>)[i] = <<a, b>>[i]
    BY <1>2, <1>3, <1>4, ConcatProperties
  <2> QED BY <1>2, <1>3, <1>4, <2>1, ConcatProperties, SeqEqual
<1>6. <<a, b>> \o <<c>> = <<a, b, c>>
  <2>1. Len(<<a, b>> \o <<c>>) = 3 /\ \A i \in 1..3 : (<<a, b>> \o <<c>>)[i] = <<a, b, c>>[i]
    BY <1>2, <1>3, <1>4, ConcatProperties
  <2> QED BY <1>2, <1>3, <1>4, <2>1, ConcatProperties, SeqEqual
<1>7. <<a, b, c>> \o <<d>> = <<a, b, c, d>>
  <2>1. Len(<<a, b, c>> \o <<d>>) = 4 /\ \A i \in 1..4 : (<<a, b, c>> \o <<d>>)[i] = <<a, b, c, d>>[i]
    BY <1>2, <1>3, <1>4, ConcatProperties
  <2> QED BY <1>2, <1>3, <1>4, <2>1, ConcatProperties, SeqEqual
<1>8. <<a, b, c, d>> \o <<e>> = <<a, b, c, d, e>>
  <2>1. Len(<<a, b, c, d>> \o <<e>>) = 5 /\ \A i \in 1..5 : (<<a, b, c, d>> \o <<e>>)[i] = <<a, b, c, d, e>>[i]
    BY <1>2, <1>3, <1>4, ConcatProperties
  <2> QED BY <1>2, <1>3, <1>4, <2>1, ConcatProperties, SeqEqual
<1>9. <<a, b, c, d, e>> \o <<f>> = <<a, b, c, d, e, f>>
  <2>2. <<a, b, c, d, e>> \o <<f>> \in Seq(S)
    BY <1>2, <1>4, ConcatProperties
  <2>1. Len(<<a, b, c, d, e>> \o <<f>>) = 6 /\ \A i \in 1..6 : (<<a, b, c, d, e>> \o <<f>>)[i] = <<a, b, c, d, e, f>>[i]
    BY <1>2, <1>3, <1>4, ConcatProperties
  <2> QED BY <1>4, <2>1, <2>2, SeqEqual
<1>10. <<a>> \o <<b, c, d, e>> = <<a, b, c, d, e>>
  <2>1. Len(<<a>> \o <<b, c, d, e>>) = 5 /\ \A i \in 1..5 : (<<a>> \o <<b, c, d, e>>)[i] = <<a, b, c, d, e>>[i]
    BY <1>2, <1>3, <1>4, ConcatProperties
  <2> QED BY <1>2, <1>3, <1>4, <2>1, ConcatProperties, SeqEqual
<1> QED BY <1>5, <1>6, <1>7, <1>8, <1>9, <1>10

LEMMA MetadataLayout ==
  ASSUME NEW v \in 0..2
  PROVE  sendMetadataResponse(v).layout = KafkaLayout("Metadata", v)
<1>1. CASE v = 0
  <2>1. KafkaLayout("Metadata", v) = <<"brokers", "topics">>
    BY <1>1 DEF KafkaLayout
  <2>2. sendMetadataResponse(v).layout =
          << >> \o <<"brokers">> \o << >> \o << >> \o << >> \o <<"topics">> \o << >>
    BY <1>1 DEF sendMetadataResponse, Response
  <2> QED BY <2>1, <2>2, NothingJoined, OneMore
<1>2. CASE v = 1
  <2>1. KafkaLayout("Metadata", v) = <<"brokers", "rack", "controller", "topics", "internal">>
    BY <1>2 DEF KafkaLayout
  <2>2. sendMetadataResponse(v).layout =
          << >> \o <<"brokers">> \o <<"rack">> \o << >> \o <<"controller">> \o <<"topics">> \o <<"internal">>
    BY <1>2 DEF sendMetadataResponse, Response
  <2> QED BY <2>1, <2>2, NothingJoined, OneMore
<1>3. CASE v = 2
  <2>1. KafkaLayout("Metadata", v) = << >> \o <<"brokers", "rack", "cluster", "controller", "topics", "internal">>
    BY <1>3 DEF KafkaLayout
  <2>2. sendMetadataResponse(v).layout =
          << >> \o <<"brokers">> \o <<"rack">> \o <<"cluster">> \o <<"controller">> \o <<"topics">> \o <<"internal">>
    BY <1>3 DEF sendMetadataResponse, Response
  <2>3. << >> \o <<"brokers", "rack", "cluster", "controller", "topics", "internal">>
          = <<"brokers", "rack", "cluster", "controller", "topics", "internal">>
    OBVIOUS
  <2> QED BY <2>1, <2>2, <2>3, NothingJoined, OneMore
<1> QED BY <1>1, <1>2, <1>3

LEMMA FetchJoined ==
  <<"throttle">> \o <<"topic", "partition", "error", "highwater">> \o << >> \o <<"records">>
    = <<"throttle", "topic", "partition", "error", "highwater", "records">>
<1> DEFINE S == {"throttle", "topic", "partition", "error", "highwater", "records"}
           four == <<"topic", "partition", "error", "highwater">>
           five == <<"throttle", "topic", "partition", "error", "highwater">>
           six == <<"throttle", "topic", "partition", "error", "highwater", "records">>
<1>1. /\ "throttle" \in S /\ "topic" \in S /\ "partition" \in S /\ "error" \in S /\ "highwater" \in S /\ "records" \in S
  OBVIOUS
<1> HIDE DEF S
<1>2. /\ <<"throttle">> \in Seq(S) /\ <<"records">> \in Seq(S) /\ four \in Seq(S)
      /\ five \in Seq(S) /\ six \in Seq(S)
  BY <1>1
<1>3. <<"throttle">> \o four = five
  <2>1. <<"throttle">> \o four \in Seq(S)
    BY <1>2, ConcatProperties
  <2>2. /\ Len(<<"throttle">> \o four) = 5
        /\ \A i \in 1..5 : (<<"throttle">> \o four)[i] = five[i]
    BY <1>2, ConcatProperties
  <2>3. Len(five) = 5
    OBVIOUS
  <2> HIDE DEF four, five
  <2> QED BY <1>2, <2>1, <2>2, <2>3, SeqEqual
<1>4. five \o <<"records">> = six
  <2>1. five \o <<"records">> \in Seq(S)
    BY <1>2, ConcatProperties
  <2>2. /\ Len(five \o <<"records">>) = 6
        /\ \A i \in 1..6 : (five \o <<"records">>)[i] = six[i]
    BY <1>2, ConcatProperties
  <2> QED BY <1>2, <2>1, <2>2, SeqEqual
<1>5. five \o << >> = five
  BY <1>2
<1> QED BY <1>3, <1>4, <1>5, Zenon

LEMMA FetchLayout ==
  ASSUME NEW v \in 1..3, NEW topic
  PROVE  sendFetchResponse(topic).layout = KafkaLayout("Fetch", v)
<1>1. KafkaLayout("Fetch", v) = <<"throttle">> \o <<"topic", "partition", "error", "highwater">> \o << >> \o <<"records">>
  BY DEF KafkaLayout
<1>2. sendFetchResponse(topic).layout = <<"throttle", "topic", "partition", "error", "highwater", "records">>
  BY DEF sendFetchResponse, Response
<1>3. <<"throttle">> \o <<"topic", "partition", "error", "highwater">> \o << >> \o <<"records">>
        = <<"throttle", "topic", "partition", "error", "highwater", "records">>
  BY FetchJoined, Zenon
<1> QED BY <1>1, <1>2, <1>3, Zenon

LEMMA OtherLayouts ==
  ASSUME NEW v, NEW topic, NEW protocol
  PROVE  /\ sendApiVersionsResponse.layout = KafkaLayout("ApiVersions", 0)
         /\ sendFindCoordinatorResponse.layout = KafkaLayout("FindCoordinator", 0)
         /\ sendJoinGroupResponse(protocol).layout = KafkaLayout("JoinGroup", v)
         /\ sendSyncGroupResponse.layout = KafkaLayout("SyncGroup", 0)
         /\ sendHeartbeatResponse.layout = KafkaLayout("Heartbeat", 0)
         /\ sendLeaveGroupResponse.layout = KafkaLayout("LeaveGroup", 0)
         /\ sendOffsetFetchResponse(topic).layout = KafkaLayout("OffsetFetch", v)
         /\ sendOffsetCommitResponse(topic).layout = KafkaLayout("OffsetCommit", v)
         /\ sendListOffsetsResponse(topic).layout = KafkaLayout("ListOffsets", 1)
         /\ sendProduceResponse(topic, v).layout = KafkaLayout("Produce", v)
<1>1. sendApiVersionsResponse.layout = KafkaLayout("ApiVersions", 0)
  BY NothingJoined DEF sendApiVersionsResponse, KafkaLayout, Response
<1>2. sendFindCoordinatorResponse.layout = KafkaLayout("FindCoordinator", 0)
  BY DEF sendFindCoordinatorResponse, KafkaLayout, Response
<1>3. sendJoinGroupResponse(protocol).layout = KafkaLayout("JoinGroup", v)
  BY DEF sendJoinGroupResponse, KafkaLayout, Response
<1>4. sendSyncGroupResponse.layout = KafkaLayout("SyncGroup", 0)
  BY NothingJoined DEF sendSyncGroupResponse, KafkaLayout, Response
<1>5. sendHeartbeatResponse.layout = KafkaLayout("Heartbeat", 0)
  BY NothingJoined DEF sendHeartbeatResponse, KafkaLayout, Response
<1>6. sendLeaveGroupResponse.layout = KafkaLayout("LeaveGroup", 0)
  BY NothingJoined DEF sendLeaveGroupResponse, KafkaLayout, Response
<1>7. sendOffsetFetchResponse(topic).layout = KafkaLayout("OffsetFetch", v)
  BY DEF sendOffsetFetchResponse, KafkaLayout, Response
<1>8. sendOffsetCommitResponse(topic).layout = KafkaLayout("OffsetCommit", v)
  BY DEF sendOffsetCommitResponse, KafkaLayout, Response
<1>9. sendListOffsetsResponse(topic).layout = KafkaLayout("ListOffsets", 1)
  BY DEF sendListOffsetsResponse, KafkaLayout, Response
<1>10. sendProduceResponse(topic, v).layout = KafkaLayout("Produce", v)
  BY Zenon DEF sendProduceResponse, KafkaLayout, Response
<1> QED BY <1>1, <1>2, <1>3, <1>4, <1>5, <1>6, <1>7, <1>8, <1>9, <1>10

-----------------------------------------------------------------------------
(***************************************************************************)
(* What is known of a client: where it is, the topic it asks about, and    *)
(* that what is on its connection is what it asked, or an answer to it.    *)
(* Of a client that is served more is known: the answer is the right one.  *)
(***************************************************************************)
Joining == {"ApiVersions", "Metadata"}
Seeking == {"OffsetFetch", "ListOffsets", "Fetch", "OffsetCommit"}
Belonging == {"FindCoordinator", "JoinGroup", "SyncGroup", "Heartbeat", "LeaveGroup"}
Apis == Joining \cup Seeking \cup Belonging \cup {"Produce"}
ClientFields == {"next", "apis", "topic", "assigned", "position", "handled", "member", "sent", "restarts"}

\* The first request is sent before anything is advertised.
WellServed(st) ==
  /\ st.next # "stuck" /\ st.assigned \subseteq DOMAIN Seeds
  /\ st.apis = IF st.next = "ApiVersions" THEN None ELSE Advertised

ClientRight(c, st) ==
  /\ ClientFields \subseteq DOMAIN st
  /\ c \in Producers =>
       /\ st.next \in Joining \cup {"Produce", "idle", "stuck"} /\ st.sent \in Nat
       /\ st.next # "idle" => st.sent + 1 \in DOMAIN Batches[c]
  /\ c \notin Producers => st.next \in Joining \cup Seeking \cup Belonging \cup {"idle", "left", "stuck"}
  /\ Served(c) => WellServed(st)

TopicRight(c, st) ==
  /\ Served(c) /\ st.next \in Seeking => st.topic \in DOMAIN Seeds
  /\ st.next = "Produce" => st.topic = Batches[c][st.sent + 1].topic

Requested(c) ==
  /\ client[c].next \in Apis
  /\ TopicRight(c, client[c])
  /\ net[c] = Request(c, client[c].next, client[c].topic, IF client[c].next = "Produce" THEN NextBatch(c) ELSE None)

BodyRight(c, st, body) ==
  /\ st.next = "ApiVersions" => body.apis = Advertised
  /\ st.next = "JoinGroup" => body.protocol = Offers[c][1] /\ body.leader # body.member
  /\ st.next = "SyncGroup" => body.assignment = DOMAIN Seeds
  /\ st.next \in Seeking \cup {"Produce"} => body.topic = st.topic

AnswerServes(c) ==
  /\ net[c].layout = KafkaLayout(client[c].next, Version(c, client[c].next))
  /\ BodyRight(c, client[c], net[c].body)

Answered(c) ==
  /\ client[c].next \in Apis
  /\ TopicRight(c, client[c])
  /\ net[c].kind = "response"
  /\ Served(c) => AnswerServes(c)

\* Between two requests only the topic of a ListOffsets is set already.
Between(c) ==
  /\ net[c] = None
  /\ client[c].topic # None => client[c].next = "ListOffsets" /\ (Served(c) => client[c].topic \in DOMAIN Seeds)

ClientsRight ==
  /\ DOMAIN client = Clients /\ DOMAIN net = Clients
  /\ \A c \in Clients : ClientRight(c, client[c]) /\ (Between(c) \/ Requested(c) \/ Answered(c))

\* The version a served client uses is one that is laid out right.
LEMMA ServedVersion ==
  ASSUME NEW c \in Clients, Served(c), ClientRight(c, client[c]), client[c].next \in Apis
  PROVE  client[c].next \in DOMAIN Understood /\ Version(c, client[c].next) \in Understood[client[c].next]
<1> DEFINE api == client[c].next
<1>1. api \in Needs(c) \cup {"ApiVersions"} /\ api \in DOMAIN Understood
  BY DEF ClientRight, Apis, Needs, Joining, Seeking, Belonging, Understood
<1>2. Max(Chosen(c, api)) \in Understood[api]
  BY <1>1 DEF Served
<1>3. client[c].apis = IF api = "ApiVersions" THEN None ELSE Advertised
  BY DEF ClientRight, WellServed
<1>4. Version(c, api) = Max(Chosen(c, api))
  <2>1. CASE api = "ApiVersions"
    BY <1>3, <2>1, Zenon DEF Version, Chosen
  <2>2. CASE api # "ApiVersions"
    <3>1. client[c].apis = Advertised /\ client[c].apis # None
      BY <1>3, <2>2, NameAssumption, Zenon
    <3> QED BY <2>2, <3>1, Zenon DEF Version, Chosen
  <2> QED BY <2>1, <2>2
<1> QED BY <1>1, <1>2, <1>4

\* A step of one client.
LEMMA OneClient ==
  ASSUME ClientsRight, NEW c \in Clients, DOMAIN client' = Clients, DOMAIN net' = Clients,
         \A d \in Clients \ {c} : client'[d] = client[d] /\ net'[d] = net[d],
         ClientRight(c, client'[c]), Between(c)' \/ Requested(c)' \/ Answered(c)'
  PROVE  ClientsRight'
<1>1. ASSUME NEW d \in Clients, d # c
      PROVE  ClientRight(d, client'[d]) /\ (Between(d)' \/ Requested(d)' \/ Answered(d)')
  <2>1. client'[d] = client[d] /\ net'[d] = net[d]
    BY <1>1
  <2>2. ClientRight(d, client[d]) /\ (Between(d) \/ Requested(d) \/ Answered(d))
    BY DEF ClientsRight
  <2>3. Between(d) => Between(d)'
    BY <2>1 DEF Between
  <2>4. Requested(d) => Requested(d)'
    BY <2>1, Zenon DEF Requested, Request, KafkaRequest, Version, NextBatch, TopicRight
  <2>5. Answered(d) => Answered(d)'
    BY <2>1, Zenon DEF Answered, AnswerServes, Version, TopicRight, BodyRight
  <2> QED BY <2>1, <2>2, <2>3, <2>4, <2>5
<1> QED BY <1>1 DEF ClientsRight

LEMMA NewClientRight ==
  ASSUME NEW c \in Clients, NEW k
  PROVE  ClientRight(c, NewClient(k)) /\ NewClient(k).topic = None
<1>1. c \in Producers => 1 \in DOMAIN Batches[c]
  BY ListAssumption DEF IsList
<1> QED BY <1>1 DEF ClientRight, WellServed, NewClient, ClientFields, Joining

LEMMA InitClients == Init => ClientsRight
<1> SUFFICES ASSUME Init PROVE ClientsRight
  OBVIOUS
<1>1. DOMAIN client = Clients /\ DOMAIN net = Clients
  BY DEF Init
<1>2. ASSUME NEW c \in Clients PROVE ClientRight(c, client[c]) /\ Between(c)
  <2>1. client[c] = NewClient(0) /\ net[c] = None
    BY DEF Init
  <2>2. ClientRight(c, NewClient(0)) /\ NewClient(0).topic = None
    BY NewClientRight
  <2>3. ClientRight(c, client[c])
    BY <2>1, <2>2, Zenon
  <2>4. client[c].topic = None
    BY <2>1, <2>2, Zenon
  <2> QED BY <2>1, <2>3, <2>4 DEF Between
<1> QED BY <1>1, <1>2, Zenon DEF ClientsRight

-----------------------------------------------------------------------------
(* The steps of the network: a request is sent, and answered. *)

LEMMA SendKeeps ==
  ASSUME ClientsRight, NEW c \in Clients, Send(c)
  PROVE  ClientsRight'
<1> DEFINE old == client[c]
<1>1. PICK topic \in IF old.topic = None THEN Asked(c) ELSE {old.topic} :
        /\ net' = [net EXCEPT ![c] = Request(c, old.next, topic, IF old.next = "Produce" THEN NextBatch(c) ELSE None)]
        /\ client' = [client EXCEPT ![c].topic = topic]
  BY DEF Send
<1>2. ClientRight(c, old) /\ net[c] = None /\ old.next \notin {"idle", "stuck", "left"}
  BY DEF ClientsRight, Send
<1>3. old.next \in Apis
  BY <1>2 DEF ClientRight, Apis
<1>4. /\ client'[c] = [old EXCEPT !.topic = topic] /\ DOMAIN client' = Clients /\ DOMAIN net' = Clients
      /\ \A d \in Clients \ {c} : client'[d] = client[d] /\ net'[d] = net[d]
      /\ net'[c] = Request(c, old.next, topic, IF old.next = "Produce" THEN NextBatch(c) ELSE None)
  BY <1>1 DEF ClientsRight
<1> HIDE DEF old
<1>5. /\ client'[c].topic = topic
      /\ \A f \in ClientFields \ {"topic"} : client'[c][f] = old[f]
      /\ DOMAIN client'[c] = DOMAIN old
  BY <1>2, <1>4 DEF ClientRight, ClientFields
<1>6. ClientRight(c, client'[c])
  BY <1>2, <1>5 DEF ClientRight, WellServed, ClientFields
<1>7. TopicRight(c, client'[c])
  <2>1. ASSUME Served(c), old.next \in Seeking PROVE topic \in DOMAIN Seeds
    <3>1. CASE old.topic = None
      <4>1. Asked(c) \subseteq old.assigned \/ old.next \notin Seeking
        BY <1>2 DEF Asked, Seeking, old
      <4> QED BY <1>1, <1>2, <2>1, <3>1, <4>1 DEF ClientRight, WellServed, old
    <3>2. CASE old.topic # None
      BY <1>1, <2>1, <3>2 DEF ClientsRight, Between, Requested, Answered, TopicRight, old
    <3> QED BY <3>1, <3>2
  <2>2. old.next = "Produce" => topic = Batches[c][old.sent + 1].topic
    <3>1. CASE old.topic = None
      BY <1>1, <3>1 DEF Asked, NextBatch, old
    <3>2. CASE old.topic # None
      BY <1>1, <3>2 DEF ClientsRight, Between, Requested, Answered, TopicRight, old
    <3> QED BY <3>1, <3>2
  <2> QED BY <1>5, <2>1, <2>2 DEF TopicRight, ClientFields
<1>8. Requested(c)'
  <2>1. client'[c].next = old.next /\ client'[c].sent = old.sent /\ client'[c].member = old.member
    BY <1>5 DEF ClientFields
  <2>2. NextBatch(c)' = NextBatch(c)
    BY <2>1 DEF NextBatch, old
  <2>3. Request(c, old.next, topic, IF old.next = "Produce" THEN NextBatch(c) ELSE None)'
          = Request(c, old.next, topic, IF old.next = "Produce" THEN NextBatch(c) ELSE None)
    <3>1. client'[c].apis = client[c].apis
      BY <1>5 DEF ClientFields, old
    <3> QED BY <2>1, <2>2, <3>1, Zenon DEF Request, KafkaRequest, Version, old
  <2>4. net'[c] = Request(c, client[c].next, client[c].topic,
                    IF client[c].next = "Produce" THEN NextBatch(c) ELSE None)'
    <3>1. net'[c] = Request(c, old.next, topic, IF old.next = "Produce" THEN NextBatch(c) ELSE None)'
      BY <1>4, <2>3, Zenon
    <3>2. client'[c].next = old.next /\ client'[c].topic = topic /\ NextBatch(c)' = NextBatch(c)
      BY <1>5, <2>1, <2>2
    <3> QED BY <3>1, <3>2, Zenon DEF old
  <2>5. client'[c].next \in Apis
    BY <1>3, <2>1
  <2>6. TopicRight(c, client[c])'
    BY <1>7, Zenon DEF TopicRight
  <2> QED BY <2>4, <2>5, <2>6, Zenon DEF Requested
<1> QED BY <1>4, <1>6, <1>8, OneClient

\* What a handler reads of a request.
LEMMA RequestRead ==
  ASSUME NEW c \in Clients, Requested(c)
  PROVE  /\ net[c].kind = "request" /\ net[c].api = client[c].next /\ net[c].version = Version(c, client[c].next)
         /\ net[c].topic = client[c].topic
         /\ net[c].batch = IF client[c].next = "Produce" THEN NextBatch(c) ELSE None
         /\ net[c].data = Wire(KafkaRequest(c, client[c].next, client[c].topic))
BY DEF Requested, Request

LEMMA SeedNames ==
  ASSUME NEW topic \in Names
  PROVE  topic \in Written /\ SeededFirst(topic) = {topic}
<1>1. topic \in Written
  BY Zenon DEF Written
<1>2. topic # ""
  BY NameAssumption, Zenon
<1> QED BY <1>1, <1>2, Zenon DEF SeededFirst

LEMMA AnswerRight ==
  ASSUME ClientsRight, NEW c \in Clients, Served(c), Requested(c), client[c].next # "Produce",
         NEW answer \in Answers(net[c])
  PROVE  /\ answer.kind = "response"
         /\ answer.layout = KafkaLayout(client[c].next, Version(c, client[c].next))
         /\ BodyRight(c, client[c], answer.body)
<1> DEFINE api == client[c].next
           topic == client[c].topic
           v == Version(c, api)
           req == net[c]
<1>1. /\ req.api = api /\ req.version = v /\ req.data = Wire(KafkaRequest(c, api, topic))
  BY RequestRead, Zenon
<1>2. /\ api \in Joining \cup Seeking \cup Belonging
      /\ api \in Seeking => topic \in DOMAIN Seeds
  BY DEF Requested, TopicRight, Apis
<1>3. v \in Understood[api]
  BY ServedVersion DEF ClientsRight, Requested
<1>4. api \in Seeking => topic \in Written /\ topic # "" /\ SeededFirst(topic) = {topic}
  <2>1. ASSUME api \in Seeking PROVE topic \in Written /\ topic # "" /\ SeededFirst(topic) = {topic}
    <3>1. topic \in Names
      BY <1>2, <2>1 DEF Names
    <3> QED BY <3>1, SeedNames, NameAssumption, Zenon
  <2> QED BY <2>1
<1>5. CASE api = "ApiVersions"
  <2>1. answer = sendApiVersionsResponse /\ v = 0
    BY <1>1, <1>3, <1>5 DEF Answers, Understood
  <2>2. answer.kind = "response" /\ answer.layout = KafkaLayout("ApiVersions", 0)
    BY <2>1, OtherLayouts DEF sendApiVersionsResponse, Response
  <2>3. answer.body.apis = Advertised
    BY <2>1 DEF sendApiVersionsResponse, Response
  <2> QED BY <1>5, <2>1, <2>2, <2>3 DEF BodyRight, Seeking
<1>6. CASE api = "Metadata"
  <2>1. answer = sendMetadataResponse(v) /\ v \in 0..2
    BY <1>1, <1>3, <1>6 DEF Answers, Understood
  <2>2. answer.kind = "response"
    BY <2>1 DEF sendMetadataResponse, Response
  <2>3. answer.layout = KafkaLayout("Metadata", v)
    BY <2>1, MetadataLayout
  <2> QED BY <1>6, <2>2, <2>3 DEF BodyRight, Seeking
<1>7. CASE api = "FindCoordinator"
  <2>1. answer = sendFindCoordinatorResponse /\ v = 0
    BY <1>1, <1>3, <1>7 DEF Answers, Understood
  <2>2. answer.kind = "response" /\ answer.layout = KafkaLayout("FindCoordinator", 0)
    BY <2>1, OtherLayouts DEF sendFindCoordinatorResponse, Response
  <2> QED BY <1>7, <2>1, <2>2 DEF BodyRight, Seeking
<1>8. CASE api = "JoinGroup"
  <2>1. answer = sendJoinGroupResponse(parseJoinGroupProtocol(Wire(KafkaRequest(c, "JoinGroup", topic)), v))
    BY <1>1, <1>8 DEF Answers
  <2>2. c \in Consumers
    BY <1>8 DEF ClientsRight, ClientRight, Joining, Clients
  <2>6. v \in 0..1
    BY <1>3, <1>8 DEF Understood
  <2>3. answer = sendJoinGroupResponse(Offers[c][1])
    BY <1>8, <2>1, <2>2, <2>6, AssignorRead
  <2>4. answer.kind = "response" /\ answer.layout = KafkaLayout("JoinGroup", v)
    BY <2>3, OtherLayouts DEF sendJoinGroupResponse, Response
  <2>5. answer.body.protocol = Offers[c][1] /\ answer.body.leader # answer.body.member
    BY <2>3 DEF sendJoinGroupResponse, Response
  <2> QED BY <1>8, <2>4, <2>5 DEF BodyRight, Seeking
<1>9. CASE api = "SyncGroup"
  <2>1. answer = sendSyncGroupResponse /\ v = 0
    BY <1>1, <1>3, <1>9 DEF Answers, Understood
  <2>2. /\ answer.kind = "response" /\ answer.layout = KafkaLayout("SyncGroup", 0)
        /\ answer.body.assignment = DOMAIN Seeds
    BY <2>1, OtherLayouts DEF sendSyncGroupResponse, buildPartitionAssignment, Response
  <2> QED BY <1>9, <2>1, <2>2 DEF BodyRight, Seeking
<1>10. CASE api \in {"Heartbeat", "LeaveGroup"}
  <2>1. v = 0
    BY <1>3, <1>10 DEF Understood
  <2>2. CASE api = "Heartbeat"
    <3>1. answer = sendHeartbeatResponse
      BY <1>1, <2>2 DEF Answers
    <3>2. answer.kind = "response" /\ answer.layout = KafkaLayout("Heartbeat", 0)
      BY <3>1, OtherLayouts DEF sendHeartbeatResponse, Response
    <3> QED BY <2>1, <2>2, <3>2 DEF BodyRight, Seeking
  <2>3. CASE api = "LeaveGroup"
    <3>1. answer = sendLeaveGroupResponse
      BY <1>1, <2>3 DEF Answers
    <3>2. answer.kind = "response" /\ answer.layout = KafkaLayout("LeaveGroup", 0)
      BY <3>1, OtherLayouts DEF sendLeaveGroupResponse, Response
    <3> QED BY <2>1, <2>3, <3>2 DEF BodyRight, Seeking
  <2> QED BY <1>10, <2>2, <2>3
<1>11. CASE api = "OffsetFetch"
  <2>1. topic \in Written /\ SeededFirst(topic) = {topic}
    BY <1>4, <1>11 DEF Seeking
  <2>2. parseOffsetFetchRequest(req.data) = topic
    <3>1. parseOffsetFetchRequest(Wire(KafkaRequest(c, "OffsetFetch", topic))) = topic
      BY <2>1, GroupTopicRead
    <3> QED BY <1>1, <1>11, <3>1, Zenon
  <2>3. answer = sendOffsetFetchResponse(topic)
    BY <1>1, <1>11, <2>1, <2>2 DEF Answers
  <2>4. answer.kind = "response" /\ answer.layout = KafkaLayout("OffsetFetch", v) /\ answer.body.topic = topic
    BY <2>3, OtherLayouts DEF sendOffsetFetchResponse, Response
  <2> QED BY <1>11, <2>4 DEF BodyRight
<1>12. CASE api = "OffsetCommit"
  <2>1. topic \in Written /\ SeededFirst(topic) = {topic}
    BY <1>4, <1>12 DEF Seeking
  <2>2. parseOffsetCommitTopic(req.data) = topic
    <3>1. parseOffsetCommitTopic(Wire(KafkaRequest(c, "OffsetCommit", topic))) = topic
      <4>1. v = 0
        BY <1>3, <1>12 DEF Understood
      <4> QED BY <1>12, <2>1, <4>1, GroupTopicRead, Zenon
    <3> QED BY <1>1, <1>12, <3>1, Zenon
  <2>3. answer = sendOffsetCommitResponse(topic)
    BY <1>1, <1>12, <2>1, <2>2 DEF Answers
  <2>4. answer.kind = "response" /\ answer.layout = KafkaLayout("OffsetCommit", v) /\ answer.body.topic = topic
    BY <2>3, OtherLayouts DEF sendOffsetCommitResponse, Response
  <2> QED BY <1>12, <2>4 DEF BodyRight
<1>13. CASE api = "ListOffsets"
  <2>0. api \in Seeking
    BY <1>13 DEF Seeking
  <2>1. topic \in Written
    BY <1>4, <2>0, Zenon
  <2>5. v = 1
    BY <1>3, <1>13 DEF Understood
  <2>2. parseListOffsetsTopic(req.data) = topic
    BY <1>1, <1>13, <2>1, ListOffsetsTopicRead, Zenon
  <2>3. answer = sendListOffsetsResponse(topic)
    BY <1>1, <1>13, <2>1, <2>2 DEF Answers
  <2>4. answer.kind = "response" /\ answer.layout = KafkaLayout("ListOffsets", 1) /\ answer.body.topic = topic
    BY <2>3, OtherLayouts DEF sendListOffsetsResponse, Response
  <2> QED BY <1>13, <2>5, <2>4 DEF BodyRight
<1>14. CASE api = "Fetch"
  <2>0. api \in Seeking
    BY <1>14 DEF Seeking
  <2>1. topic \in Written /\ topic # ""
    BY <1>4, <2>0, Zenon
  <2>5. v \in 1..3
    BY <1>3, <1>14 DEF Understood
  <2>2. parseFetchTopic(req.data, req.version) = topic
    BY <1>1, <1>14, <2>1, <2>5, FetchTopicRead, Zenon
  <2>3. answer = sendFetchResponse(topic)
    BY <1>1, <1>14, <2>1, <2>2 DEF Answers
  <2>4. answer.kind = "response" /\ answer.layout = KafkaLayout("Fetch", v) /\ answer.body.topic = topic
    BY <2>3, <2>5, FetchLayout DEF sendFetchResponse, Response
  <2> QED BY <1>14, <2>4 DEF BodyRight
<1> QED
  BY <1>2, <1>5, <1>6, <1>7, <1>8, <1>9, <1>10, <1>11, <1>12, <1>13, <1>14 DEF Joining, Seeking, Belonging

LEMMA AlwaysAnswered ==
  ASSUME NEW req, req.api \in Joining \cup Seeking \cup Belonging, NEW answer \in Answers(req)
  PROVE  answer.kind = "response"
<1>1. \A layout, body : Response(layout, body).kind = "response"
  BY DEF Response
<1>2. CASE req.api \in Joining
  BY <1>1, <1>2 DEF Answers, Joining, sendApiVersionsResponse, sendMetadataResponse
<1>3. CASE req.api \in Belonging
  BY <1>1, <1>3 DEF Answers, Belonging, sendFindCoordinatorResponse, sendJoinGroupResponse, sendSyncGroupResponse,
                    sendHeartbeatResponse, sendLeaveGroupResponse
<1>4. CASE req.api \in Seeking
  <2>1. \E topic : answer \in {sendFetchResponse(topic), sendListOffsetsResponse(topic),
                               sendOffsetCommitResponse(topic), sendOffsetFetchResponse(topic)}
    BY <1>4 DEF Answers, Seeking
  <2> QED BY <1>1, <2>1 DEF sendFetchResponse, sendListOffsetsResponse, sendOffsetCommitResponse, sendOffsetFetchResponse
<1> QED BY <1>2, <1>3, <1>4

LEMMA HandlerKeeps ==
  ASSUME ClientsRight, NEW c \in Clients, handleConn(c)
  PROVE  ClientsRight'
<1>1. net[c] # None /\ net[c].kind = "request" /\ net[c].api # "Produce"
  BY DEF handleConn, IsRequest
<1>2. Requested(c) /\ ClientRight(c, client[c]) /\ DOMAIN net = Clients /\ DOMAIN client = Clients
  BY <1>1 DEF ClientsRight, Between, Answered
<1>3. net[c].api = client[c].next /\ client[c].next # "Produce"
  BY <1>1, <1>2, RequestRead
<1>4. PICK answer \in Answers(net[c]) : net' = [net EXCEPT ![c] = answer]
  BY DEF handleConn
<1>5. client' = client /\ net'[c] = answer /\ DOMAIN net' = Clients /\ \A d \in Clients \ {c} : net'[d] = net[d]
  BY <1>2, <1>4 DEF handleConn
<1>6. answer.kind = "response"
  BY <1>2, <1>3, AlwaysAnswered DEF Requested, Apis
<1>7. Served(c) => /\ answer.layout = KafkaLayout(client[c].next, Version(c, client[c].next))
                   /\ BodyRight(c, client[c], answer.body)
  BY <1>2, <1>3, AnswerRight
<1>8. client[c].next \in Apis /\ TopicRight(c, client[c])
  BY <1>2 DEF Requested
<1>9. Answered(c)'
  <2>1. Served(c) => AnswerServes(c)'
    BY <1>5, <1>7, Zenon DEF AnswerServes, Version, BodyRight
  <2> QED BY <1>5, <1>6, <1>8, <2>1, Zenon DEF Answered, TopicRight
<1> QED BY <1>2, <1>5, <1>9, OneClient

\* A Produce names the topic of the next batch.
LEMMA ProduceAsked ==
  ASSUME ClientsRight, NEW c \in Clients, Requested(c), client[c].next = "Produce"
  PROVE  /\ c \in Producers /\ client[c].sent + 1 \in DOMAIN Batches[c]
         /\ net[c].topic \in BatchTopics /\ net[c].topic = NextBatch(c).topic /\ net[c].topic = client[c].topic
         /\ net[c].batch = NextBatch(c)
         /\ produceTopic(net[c].data, net[c].version) = net[c].topic
         /\ SeededFirst(net[c].topic) = {net[c].topic} /\ net[c].topic # ""
<1>1. c \in Producers /\ client[c].sent + 1 \in DOMAIN Batches[c]
  BY DEF ClientsRight, ClientRight, Joining, Seeking, Belonging
<1>2. client[c].topic = NextBatch(c).topic
  BY DEF Requested, TopicRight, NextBatch
<1>3. NextBatch(c).topic \in BatchTopics
  BY <1>1 DEF NextBatch, BatchTopics
<1>4. /\ net[c].topic = client[c].topic /\ net[c].version = Version(c, "Produce") /\ net[c].batch = NextBatch(c)
      /\ net[c].data = Wire(KafkaRequest(c, "Produce", client[c].topic))
  BY RequestRead, Zenon
<1>5. net[c].topic \in Names
  BY <1>2, <1>3, <1>4 DEF Names
<1>6. net[c].topic \in Written /\ SeededFirst(net[c].topic) = {net[c].topic} /\ net[c].topic # ""
  BY <1>5, SeedNames, NameAssumption, Zenon
<1>7. produceTopic(net[c].data, net[c].version) = net[c].topic
  BY <1>4, <1>6, ProduceTopicRead, Zenon
<1> QED BY <1>1, <1>2, <1>3, <1>4, <1>6, <1>7, Zenon

LEMMA ProduceClient ==
  ASSUME ClientsRight, NEW c \in Clients, Produce(c)
  PROVE  ClientsRight'
<1>1. net[c] # None /\ net[c].kind = "request" /\ net[c].api = "Produce"
  BY DEF Produce, IsRequest
<1>2. Requested(c) /\ ClientRight(c, client[c]) /\ DOMAIN net = Clients /\ DOMAIN client = Clients
  BY <1>1 DEF ClientsRight, Between, Answered
<1>3. client[c].next = "Produce"
  BY <1>1, <1>2, RequestRead
<1> DEFINE topic == net[c].topic
           answer == sendProduceResponse(topic, net[c].version)
<1>4. produceTopic(net[c].data, net[c].version) = topic /\ SeededFirst(topic) = {topic} /\ topic = client[c].topic
  BY <1>2, <1>3, ProduceAsked
<1>5. \E t \in SeededFirst(topic) : net' = [net EXCEPT ![c] = sendProduceResponse(t, net[c].version)]
  BY <1>4, Zenon DEF Produce
<1>6. net' = [net EXCEPT ![c] = answer] /\ client' = client
  BY <1>4, <1>5 DEF Produce
<1>7. net'[c] = answer /\ DOMAIN net' = Clients /\ \A d \in Clients \ {c} : net'[d] = net[d]
  BY <1>2, <1>6
<1>8. answer.kind = "response" /\ answer.body.topic = topic
  BY DEF sendProduceResponse, Response
<1>9. answer.layout = KafkaLayout("Produce", Version(c, "Produce"))
  BY <1>2, <1>3, RequestRead, OtherLayouts
<1>10. Answered(c)'
  <2>1. TopicRight(c, client[c])
    BY <1>2 DEF Requested
  <2>2. BodyRight(c, client[c], answer.body)
    BY <1>3, <1>4, <1>8 DEF BodyRight
  <2> HIDE DEF answer
  <2>3. AnswerServes(c)'
    BY <1>3, <1>6, <1>7, <1>9, <2>2, Zenon DEF AnswerServes, Version, BodyRight
  <2> QED BY <1>3, <1>6, <1>7, <1>8, <2>1, <2>3 DEF Answered, TopicRight, Apis
<1> QED BY <1>2, <1>6, <1>7, <1>10, OneClient

-----------------------------------------------------------------------------
(* The steps of a client. *)

\* What a served client does with the answer to its request leaves it in order.
LEMMA AfterRight ==
  ASSUME NEW c \in Clients, Served(c), ClientRight(c, client[c]), Answered(c)
  PROVE  LET st == After(c, client[c].next, net[c].body) IN
         ClientRight(c, st) /\ st.topic = client[c].topic
<1> DEFINE st == After(c, client[c].next, net[c].body)
           old == client[c]
           api == old.next
           body == net[c].body
<1> SUFFICES ClientRight(c, st) /\ st.topic = old.topic
  OBVIOUS
<1>0. /\ ClientFields \subseteq DOMAIN old /\ old.assigned \subseteq DOMAIN Seeds
      /\ api # "ApiVersions" => old.apis = Advertised
      /\ api \in Joining \cup Seeking \cup Belonging \cup {"Produce"}
      /\ BodyRight(c, old, body)
  BY DEF ClientRight, WellServed, Answered, AnswerServes, Apis
<1>1. ASSUME NEW x \in Joining \cup Seeking \cup Belonging \cup {"idle", "left"}, st = [old EXCEPT !.next = x],
             x # "ApiVersions", api # "ApiVersions", c \in Producers => x \in Joining
      PROVE  ClientRight(c, st) /\ st.topic = old.topic
  BY <1>0, <1>1 DEF ClientRight, WellServed, ClientFields, Joining, Answered, Seeking, Belonging
<1>2. ASSUME c \notin Producers, DOMAIN st = DOMAIN old, st.topic = old.topic, st.assigned \subseteq DOMAIN Seeds,
             st.apis = old.apis, api # "ApiVersions", st.next # "ApiVersions",
             st.next \in Joining \cup Seeking \cup Belonging \cup {"idle", "left"}
      PROVE  ClientRight(c, st) /\ st.topic = old.topic
  BY <1>0, <1>2 DEF ClientRight, WellServed, Joining, Seeking, Belonging
<1>3. api \notin Joining \cup {"Produce"} => c \notin Producers
  BY <1>0 DEF ClientRight, Joining, Seeking, Belonging
<1>4. CASE api = "ApiVersions"
  <2>1. body.apis = Advertised
    BY <1>0, <1>4 DEF BodyRight
  <2>2. \A need \in Needs(c) : need # "ApiVersions" /\ (c \in Negotiates => Supports[c][need] \cap Advertised[need] # {})
    BY Zenon DEF Served, Chosen, Needs
  <2>3. st = [old EXCEPT !.next = "Metadata", !.apis = Advertised]
    BY <1>4, <2>1, <2>2, Zenon DEF After
  <2> HIDE DEF st
  <2> QED BY <1>0, <1>4, <2>3 DEF ClientRight, WellServed, ClientFields, Joining
<1>5. CASE api = "Metadata"
  <2>1. CASE c \in Producers
    <3>1. PICK x \in {"Produce", "Metadata"} : st = [old EXCEPT !.next = x]
      BY <1>5, <2>1 DEF After
    <3> HIDE DEF st
    <3> QED BY <1>0, <1>5, <2>1, <3>1 DEF ClientRight, WellServed, ClientFields, Joining
  <2>2. CASE c \notin Producers
    <3>1. st = [old EXCEPT !.next = "FindCoordinator"]
      BY <1>5, <2>2 DEF After
    <3> QED BY <1>5, <2>2, <3>1, <1>1 DEF Belonging
  <2> QED BY <2>1, <2>2
<1>6. CASE api = "FindCoordinator"
  <2>1. st = [old EXCEPT !.next = "JoinGroup"] /\ c \notin Producers
    BY <1>3, <1>6 DEF After, Joining
  <2> QED BY <1>6, <2>1, <1>1 DEF Belonging
<1>7. CASE api = "JoinGroup"
  <2>1. c \in Consumers /\ c \notin Producers
    BY <1>3, <1>7 DEF Joining, Clients
  <2>2. body.protocol \in {Offers[c][i] : i \in DOMAIN Offers[c]} /\ body.leader # body.member
    <3>1. 1 \in DOMAIN Offers[c]
      BY <2>1, ListAssumption DEF IsList
    <3> QED BY <1>0, <1>7, <3>1 DEF BodyRight
  <2>3. st = [old EXCEPT !.next = "SyncGroup", !.member = body.member]
    BY <1>7, <2>2 DEF After
  <2>4. DOMAIN st = DOMAIN old /\ st.topic = old.topic /\ st.apis = old.apis /\ st.assigned = old.assigned /\ st.next = "SyncGroup"
    BY <1>0, <2>3 DEF ClientFields
  <2> HIDE DEF st
  <2> QED BY <1>7, <1>0, <2>1, <2>4, <1>2 DEF Belonging
<1>8. CASE api = "SyncGroup"
  <2>1. c \notin Producers /\ body.assignment = DOMAIN Seeds
    BY <1>0, <1>3, <1>8 DEF Joining, BodyRight
  <2> DEFINE mine == body.assignment \cap Subscribes[c]
  <2>2. st = [old EXCEPT !.assigned = mine, !.next = IF mine = {} THEN "idle" ELSE "OffsetFetch"]
    BY <1>8 DEF After
  <2>3. mine \subseteq DOMAIN Seeds
    BY <2>1
  <2> HIDE DEF mine
  <2>4. /\ DOMAIN st = DOMAIN old /\ st.topic = old.topic /\ st.apis = old.apis /\ st.assigned = mine
        /\ st.next = IF mine = {} THEN "idle" ELSE "OffsetFetch"
    BY <1>0, <2>2 DEF ClientFields
  <2> HIDE DEF st
  <2> QED BY <1>8, <1>0, <2>1, <2>3, <2>4, <1>2 DEF Seeking
<1>9. CASE api \in {"OffsetFetch", "ListOffsets"}
  <2>1. c \notin Producers /\ body.topic = old.topic
    BY <1>0, <1>3, <1>9 DEF Joining, Seeking, BodyRight
  <2> DEFINE at == WithPosition(old, old.topic, body.offset)
  <2>2. st \in {[old EXCEPT !.next = "ListOffsets"], [at EXCEPT !.next = Started(at)]}
    BY <1>9, <2>1 DEF After
  <2>3. DOMAIN at = DOMAIN old /\ at.topic = old.topic /\ at.apis = old.apis /\ at.assigned = old.assigned
    BY <1>0 DEF WithPosition, ClientFields
  <2>4. Started(at) \in {"Fetch", "OffsetFetch"}
    BY DEF Started
  <2> HIDE DEF at
  <2>5. /\ DOMAIN st = DOMAIN old /\ st.topic = old.topic /\ st.apis = old.apis /\ st.assigned = old.assigned
        /\ st.next \in {"ListOffsets", "Fetch", "OffsetFetch"}
    <3> HIDE DEF st
    <3> QED BY <1>0, <2>2, <2>3, <2>4 DEF ClientFields
  <2> HIDE DEF st
  <2> QED BY <1>9, <1>0, <2>1, <2>5, <1>2 DEF Seeking
<1>10. CASE api = "Fetch"
  <2>1. c \notin Producers /\ body.topic = old.topic
    BY <1>0, <1>3, <1>10 DEF Joining, Seeking, BodyRight
  <2> DEFINE read == Handles(c, old.topic, body)
  <2>2. st = [read EXCEPT !.next = "OffsetCommit"]
    BY <1>10, <2>1 DEF After
  <2>3. DOMAIN read = DOMAIN old /\ read.topic = old.topic /\ read.apis = old.apis /\ read.assigned = old.assigned
    BY <1>0 DEF Handles, ClientFields
  <2> HIDE DEF read
  <2>4. /\ DOMAIN st = DOMAIN old /\ st.topic = old.topic /\ st.apis = old.apis /\ st.assigned = old.assigned /\ st.next = "OffsetCommit"
    BY <1>0, <2>2, <2>3 DEF ClientFields
  <2> HIDE DEF st
  <2> QED BY <1>10, <1>0, <2>1, <2>4, <1>2 DEF Seeking
<1>11. CASE api = "OffsetCommit"
  <2>1. c \notin Producers /\ body.topic = old.topic
    BY <1>0, <1>3, <1>11 DEF Joining, Seeking, BodyRight
  <2>2. st = [old EXCEPT !.next = "Heartbeat"]
    BY <1>11, <2>1 DEF After
  <2> QED BY <1>11, <2>1, <2>2, <1>1 DEF Belonging
<1>12. CASE api = "Heartbeat"
  <2>1. st = [old EXCEPT !.next = "Fetch"] /\ c \notin Producers
    BY <1>3, <1>12 DEF After, Joining
  <2> QED BY <1>12, <2>1, <1>1 DEF Seeking
<1>13. CASE api = "LeaveGroup"
  <2>1. st = [old EXCEPT !.next = "left"] /\ c \notin Producers
    BY <1>3, <1>13 DEF After, Joining
  <2> QED BY <1>13, <2>1, <1>1
<1>14. CASE api = "Produce"
  <2>1. c \in Producers /\ old.sent \in Nat /\ old.sent + 1 \in DOMAIN Batches[c] /\ body.topic = old.topic
    BY <1>0, <1>14 DEF ClientRight, BodyRight, Joining, Seeking, Belonging
  <2> DEFINE last == old.sent + 1 = Len(Batches[c])
  <2>2. st = [old EXCEPT !.sent = @ + 1, !.next = IF last THEN "idle" ELSE "Metadata"]
    BY <1>14, <2>1 DEF After
  <2>3. ~last => old.sent + 1 + 1 \in DOMAIN Batches[c]
    BY <2>1, ListAssumption DEF IsList
  <2> HIDE DEF last
  <2>4. /\ DOMAIN st = DOMAIN old /\ st.topic = old.topic /\ st.apis = old.apis /\ st.assigned = old.assigned
        /\ st.sent = old.sent + 1 /\ st.next = IF last THEN "idle" ELSE "Metadata"
    BY <1>0, <2>2 DEF ClientFields
  <2> HIDE DEF st
  <2> QED BY <1>0, <1>14, <2>1, <2>3, <2>4 DEF ClientRight, WellServed, Joining
<1> QED
  BY <1>0, <1>4, <1>5, <1>6, <1>7, <1>8, <1>9, <1>10, <1>11, <1>12, <1>13, <1>14 DEF Joining, Seeking, Belonging

\* Any other client may be left without what it needs, and goes on or gives up.
LEMMA AfterShape ==
  ASSUME NEW c \in Clients, ~Served(c), ClientRight(c, client[c]), client[c].next \in Apis, NEW body
  PROVE  LET st == After(c, client[c].next, body) IN
         ClientRight(c, st) /\ st.topic = client[c].topic
<1> DEFINE st == After(c, client[c].next, body)
           old == client[c]
           api == old.next
           Next1 == Joining \cup Seeking \cup Belonging \cup {"idle", "left", "stuck"}
<1> SUFFICES ClientRight(c, st) /\ st.topic = old.topic
  OBVIOUS
<1>0. ClientFields \subseteq DOMAIN old /\ api \in Joining \cup Seeking \cup Belonging \cup {"Produce"}
  BY DEF ClientRight, Apis
<1>1. CASE c \in Producers
  <2>0. api \in Joining \cup {"Produce"} /\ old.sent \in Nat /\ old.sent + 1 \in DOMAIN Batches[c]
    BY <1>0, <1>1 DEF ClientRight, Joining, Seeking, Belonging
  <2>1. CASE api = "ApiVersions"
    <3>1. st \in {[old EXCEPT !.next = "stuck"], [old EXCEPT !.next = "Metadata", !.apis = body.apis]}
      BY <2>1, Zenon DEF After
    <3> HIDE DEF st
    <3> QED BY <1>0, <1>1, <2>0, <3>1 DEF ClientRight, ClientFields, Joining
  <2>2. CASE api = "Metadata"
    <3>1. PICK x \in {"Produce", "Metadata"} : st = [old EXCEPT !.next = x]
      BY <1>1, <2>2 DEF After
    <3> HIDE DEF st
    <3> QED BY <1>0, <1>1, <2>0, <3>1 DEF ClientRight, ClientFields, Joining
  <2>3. CASE api = "Produce"
    <3> DEFINE last == old.sent + 1 = Len(Batches[c])
    <3>1. st \in {[old EXCEPT !.next = "stuck"], [old EXCEPT !.sent = @ + 1, !.next = IF last THEN "idle" ELSE "Metadata"]}
      BY <2>3 DEF After
    <3>2. ~last => old.sent + 1 + 1 \in DOMAIN Batches[c]
      BY <1>1, <2>0, ListAssumption DEF IsList
    <3> HIDE DEF last, st
    <3>3. CASE st = [old EXCEPT !.next = "stuck"]
      BY <1>0, <1>1, <2>0, <3>3 DEF ClientRight, ClientFields
    <3>4. CASE st = [old EXCEPT !.sent = @ + 1, !.next = IF last THEN "idle" ELSE "Metadata"]
      <4>1. /\ DOMAIN st = DOMAIN old /\ st.topic = old.topic /\ st.sent = old.sent + 1
            /\ st.next = IF last THEN "idle" ELSE "Metadata"
        BY <1>0, <3>4 DEF ClientFields
      <4> QED BY <1>0, <1>1, <2>0, <3>2, <4>1 DEF ClientRight, Joining
    <3> QED BY <3>1, <3>3, <3>4
  <2> QED BY <2>0, <2>1, <2>2, <2>3 DEF Joining
<1>2. CASE c \notin Producers
  <2>0. api \in Joining \cup Seeking \cup Belonging
    BY <1>0, <1>2 DEF ClientRight, Joining, Seeking, Belonging
  <2>1. ASSUME NEW base, DOMAIN base = DOMAIN old, base.topic = old.topic, NEW x \in Next1, st = [base EXCEPT !.next = x]
        PROVE  ClientRight(c, st) /\ st.topic = old.topic
    <3> HIDE DEF st
    <3> QED BY <1>0, <1>2, <2>1 DEF ClientRight, ClientFields
  <2>2. CASE api = "ApiVersions"
    <3>1. st \in {[old EXCEPT !.next = "stuck"], [[old EXCEPT !.apis = body.apis] EXCEPT !.next = "Metadata"]}
      <4>1. [old EXCEPT !.next = "Metadata", !.apis = body.apis] = [[old EXCEPT !.apis = body.apis] EXCEPT !.next = "Metadata"]
        BY <1>0 DEF ClientFields
      <4> QED BY <2>2, <4>1, Zenon DEF After
    <3>2. DOMAIN [old EXCEPT !.apis = body.apis] = DOMAIN old /\ [old EXCEPT !.apis = body.apis].topic = old.topic
      BY <1>0 DEF ClientFields
    <3> QED BY <2>1, <3>1, <3>2 DEF Joining
  <2>3. CASE api \in {"Metadata", "FindCoordinator", "OffsetCommit", "Heartbeat", "LeaveGroup"}
    <3>1. \E x \in Next1 : st = [old EXCEPT !.next = x]
      BY <1>2, <2>3 DEF After, Joining, Seeking, Belonging
    <3> HIDE DEF st
    <3> QED BY <2>1, <3>1
  <2>4. CASE api = "JoinGroup"
    <3> DEFINE base == [old EXCEPT !.member = body.member]
    <3>1. st \in {[old EXCEPT !.next = "stuck"], [base EXCEPT !.next = "SyncGroup"]}
      <4>1. [old EXCEPT !.next = "SyncGroup", !.member = body.member] = [base EXCEPT !.next = "SyncGroup"]
        BY <1>0 DEF ClientFields
      <4> QED BY <2>4, <4>1, Zenon DEF After
    <3>2. DOMAIN base = DOMAIN old /\ base.topic = old.topic
      BY <1>0 DEF ClientFields
    <3> HIDE DEF base, st
    <3> QED BY <2>1, <3>1, <3>2 DEF Belonging
  <2>5. CASE api = "SyncGroup"
    <3> DEFINE mine == body.assignment \cap Subscribes[c]
               base == [old EXCEPT !.assigned = mine]
    <3>1. st = [old EXCEPT !.assigned = mine, !.next = IF mine = {} THEN "idle" ELSE "OffsetFetch"]
      BY <2>5 DEF After
    <3>2. PICK x \in {"idle", "OffsetFetch"} : st = [base EXCEPT !.next = x]
      <4> HIDE DEF mine, st
      <4> QED BY <1>0, <3>1 DEF ClientFields
    <3>3. DOMAIN base = DOMAIN old /\ base.topic = old.topic
      BY <1>0 DEF ClientFields
    <3> HIDE DEF base, st
    <3> QED BY <2>1, <3>2, <3>3 DEF Seeking
  <2>6. CASE api \in {"OffsetFetch", "ListOffsets"}
    <3> DEFINE at == WithPosition(old, old.topic, body.offset)
    <3>1. st \in {[old EXCEPT !.next = "stuck"], [old EXCEPT !.next = "ListOffsets"], [at EXCEPT !.next = Started(at)]}
      BY <2>6 DEF After
    <3>2. DOMAIN at = DOMAIN old /\ at.topic = old.topic
      BY <1>0 DEF WithPosition, ClientFields
    <3>3. Started(at) \in {"Fetch", "OffsetFetch"}
      BY DEF Started
    <3> HIDE DEF at, st
    <3> QED BY <2>1, <3>1, <3>2, <3>3 DEF Seeking
  <2>7. CASE api = "Fetch"
    <3> DEFINE read == Handles(c, old.topic, body)
    <3>1. st \in {[old EXCEPT !.next = "stuck"], [read EXCEPT !.next = "OffsetCommit"]}
      BY <2>7, Zenon DEF After
    <3>2. DOMAIN read = DOMAIN old /\ read.topic = old.topic
      BY <1>0 DEF Handles, ClientFields
    <3> HIDE DEF read, st
    <3> QED BY <2>1, <3>1, <3>2 DEF Seeking
  <2> QED BY <2>0, <2>2, <2>3, <2>4, <2>5, <2>6, <2>7 DEF Joining, Seeking, Belonging
<1> QED BY <1>1, <1>2

LEMMA ReceiveKeeps ==
  ASSUME ClientsRight, NEW c \in Clients, Receive(c)
  PROVE  ClientsRight'
<1> DEFINE api == client[c].next
           read == net[c].layout = KafkaLayout(api, Version(c, api))
           st == IF read THEN After(c, api, net[c].body) ELSE [client[c] EXCEPT !.next = "stuck"]
           keep == api = "OffsetFetch" /\ st.next = "ListOffsets"
<1>1. Answered(c) /\ ClientRight(c, client[c]) /\ DOMAIN net = Clients /\ DOMAIN client = Clients
  <2>1. net[c] # None /\ net[c].kind # "request"
    BY DEF Receive
  <2> QED BY <2>1, RequestRead DEF ClientsRight, Between
<1>2. ClientRight(c, st) /\ st.topic = client[c].topic
  <2>1. CASE Served(c)
    <3>1. read
      BY <1>1, <2>1 DEF Answered, AnswerServes
    <3> QED BY <1>1, <2>1, <3>1, AfterRight, Zenon
  <2>2. CASE ~Served(c)
    <3>1. CASE read
      BY <1>1, <2>2, <3>1, AfterShape, Zenon DEF Answered
    <3>2. CASE ~read
      <4>1. st = [client[c] EXCEPT !.next = "stuck"]
        BY <3>2
      <4>2. client[c].next # "idle"
        BY <1>1 DEF Answered, Apis, Joining, Seeking, Belonging
      <4> HIDE DEF st
      <4> QED BY <1>1, <2>2, <4>1, <4>2 DEF ClientRight, ClientFields
    <3> QED BY <3>1, <3>2
  <2> QED BY <2>1, <2>2
<1>3. /\ client' = [client EXCEPT ![c] = [st EXCEPT !.topic = IF keep THEN @ ELSE None]]
      /\ net' = [net EXCEPT ![c] = None]
  BY Zenon DEF Receive
<1> HIDE DEF st
<1>4. /\ client'[c] = [st EXCEPT !.topic = IF keep THEN @ ELSE None] /\ net'[c] = None
      /\ DOMAIN client' = Clients /\ DOMAIN net' = Clients
      /\ \A d \in Clients \ {c} : client'[d] = client[d] /\ net'[d] = net[d]
  BY <1>1, <1>3
<1>5. /\ DOMAIN client'[c] = DOMAIN st /\ client'[c].topic = IF keep THEN st.topic ELSE None
      /\ \A f \in ClientFields \ {"topic"} : client'[c][f] = st[f]
  BY <1>2, <1>4 DEF ClientRight, ClientFields
<1>6. ClientRight(c, client'[c])
  <2>1. /\ client'[c].assigned = st.assigned /\ client'[c].next = st.next /\ client'[c].sent = st.sent
        /\ client'[c].apis = st.apis
    BY <1>5 DEF ClientFields
  <2> QED BY <1>2, <1>5, <2>1 DEF ClientRight, WellServed
<1>7. Between(c)'
  <2>1. client'[c].next = st.next
    BY <1>5 DEF ClientFields
  <2>2. keep /\ Served(c) => client[c].topic \in DOMAIN Seeds
    BY <1>1 DEF Answered, TopicRight, Seeking
  <2>3. client'[c].topic # None => client'[c].next = "ListOffsets" /\ (Served(c) => client'[c].topic \in DOMAIN Seeds)
    BY <1>2, <1>5, <2>1, <2>2
  <2> QED BY <1>4, <2>3 DEF Between
<1> QED BY <1>4, <1>6, <1>7, OneClient

LEMMA EndKeeps ==
  ASSUME ClientsRight, NEW c \in Clients, Shutdown(c) \/ Restart(c)
  PROVE  ClientsRight'
<1>0. ClientRight(c, client[c]) /\ DOMAIN net = Clients /\ DOMAIN client = Clients
  BY DEF ClientsRight
<1>1. CASE Shutdown(c)
  <2>1. c \notin Producers /\ net[c] = None /\ net' = net
        /\ client' = [client EXCEPT ![c].next = "LeaveGroup", ![c].topic = None]
    BY <1>1, KafkaAssumption DEF Shutdown
  <2>2. /\ client'[c] = [client[c] EXCEPT !.next = "LeaveGroup", !.topic = None] /\ DOMAIN client' = Clients
        /\ \A d \in Clients \ {c} : client'[d] = client[d]
    BY <1>0, <2>1
  <2>3. /\ DOMAIN client'[c] = DOMAIN client[c] /\ client'[c].assigned = client[c].assigned
        /\ client'[c].next = "LeaveGroup" /\ client'[c].topic = None /\ client'[c].apis = client[c].apis
    BY <1>0, <2>2 DEF ClientRight, ClientFields
  <2>6. client[c].next # "ApiVersions"
    BY <1>1 DEF Shutdown
  <2>4. ClientRight(c, client'[c])
    BY <1>0, <2>1, <2>3, <2>6 DEF ClientRight, WellServed, Belonging
  <2>5. Between(c)'
    BY <2>1, <2>3 DEF Between
  <2> QED BY <1>0, <2>1, <2>2, <2>4, <2>5, OneClient
<1>2. CASE Restart(c)
  <2>1. /\ client' = [client EXCEPT ![c] = NewClient(client[c].restarts + 1)] /\ net' = [net EXCEPT ![c] = None]
    BY <1>2 DEF Restart
  <2>2. /\ client'[c] = NewClient(client[c].restarts + 1) /\ net'[c] = None
        /\ DOMAIN client' = Clients /\ DOMAIN net' = Clients
        /\ \A d \in Clients \ {c} : client'[d] = client[d] /\ net'[d] = net[d]
    BY <1>0, <2>1
  <2>3. ClientRight(c, client'[c]) /\ client'[c].topic = None
    <3>1. ClientRight(c, NewClient(client[c].restarts + 1)) /\ NewClient(client[c].restarts + 1).topic = None
      BY NewClientRight
    <3> QED BY <2>2, <3>1, Zenon
  <2>4. Between(c)'
    BY <2>2, <2>3 DEF Between
  <2> QED BY <2>2, <2>3, <2>4, OneClient
<1> QED BY <1>1, <1>2

LEMMA ClientsKept == ClientsRight /\ [Next]_vars => ClientsRight'
<1> SUFFICES ASSUME ClientsRight, [Next]_vars PROVE ClientsRight'
  OBVIOUS
<1>1. ASSUME NEW c \in Clients, Turn(c) \/ Shutdown(c) \/ Restart(c) PROVE ClientsRight'
  BY <1>1, SendKeeps, HandlerKeeps, ProduceClient, ReceiveKeeps, EndKeeps DEF Turn
<1>2. CASE UNCHANGED vars
  <2>1. client' = client /\ net' = net
    BY <1>2 DEF vars
  <2>2. ASSUME NEW c \in Clients PROVE ClientRight(c, client'[c]) /\ (Between(c)' \/ Requested(c)' \/ Answered(c)')
    <3>1. ClientRight(c, client[c]) /\ (Between(c) \/ Requested(c) \/ Answered(c))
      BY DEF ClientsRight
    <3>2. (Between(c) <=> Between(c)') /\ (Answered(c) <=> Answered(c)')
      BY <2>1, Zenon DEF Between, Answered, AnswerServes, Version, TopicRight, BodyRight
    <3>3. Requested(c) <=> Requested(c)'
      BY <2>1, Zenon DEF Requested, Request, KafkaRequest, Version, NextBatch, TopicRight
    <3> QED BY <2>1, <3>1, <3>2, <3>3
  <2> QED BY <2>1, <2>2 DEF ClientsRight
<1> QED BY <1>1, <1>2 DEF Next

\* No client that is served has to give up: every answer has the layout of the
\* version it uses and is about what it asked, whoever else is connected, and
\* however its peers misread what they get (NobodyStuck).
THEOREM NobodyEverStuck == Spec => []NobodyStuck
<1>1. ClientsRight => NobodyStuck
  BY DEF ClientsRight, ClientRight, WellServed, NobodyStuck
<1> QED BY <1>1, InitClients, ClientsKept, PTL DEF Spec

LEMMA GreatestOf ==
  ASSUME NEW S, NEW n \in 0..3, S \subseteq 0..n, S # {}
  PROVE  Max(S) \in S
<1>1. \E x \in S : \A y \in S : x >= y
  <2>1. \A x \in S : x \in {0, 1, 2, 3}
    OBVIOUS
  <2>2. CASE 3 \in S
    BY <2>1, <2>2
  <2>3. CASE 3 \notin S /\ 2 \in S
    BY <2>1, <2>3
  <2>4. CASE 3 \notin S /\ 2 \notin S /\ 1 \in S
    BY <2>1, <2>4
  <2>5. CASE 3 \notin S /\ 2 \notin S /\ 1 \notin S
    <3>1. 0 \in S
      BY <2>1, <2>5
    <3> QED BY <2>1, <2>5, <3>1
  <2> QED BY <2>2, <2>3, <2>4, <2>5
<1> QED BY <1>1 DEF Max

\* A producer can rely on what is advertised: one that negotiates is answered in
\* its version, whichever versions of Metadata and Produce it knows, as long as it
\* shares one with the interceptor and opens with ApiVersions v0 (sendApiVersionsResponse,
\* sendMetadataResponse, sendProduceResponse).
THEOREM NegotiatingProducersNeverStuck ==
  ASSUME NEW p \in Producers \cap Negotiates, Supports[p]["ApiVersions"] = {0},
         \A api \in Needs(p) : Supports[p][api] \cap Advertised[api] # {}
  PROVE  Spec => [](client[p].next # "stuck")
<1>1. Needs(p) = {"Metadata", "Produce"}
  BY DEF Needs
<1>2. Chosen(p, "ApiVersions") = {0} /\ Max(Chosen(p, "ApiVersions")) \in Understood["ApiVersions"]
  <2>1. Chosen(p, "ApiVersions") = 0..0
    BY DEF Chosen
  <2>2. Max(0..0) \in 0..0
    BY GreatestOf
  <2> QED BY <2>1, <2>2 DEF Understood
<1>3. Chosen(p, "Metadata") # {} /\ Max(Chosen(p, "Metadata")) \in Understood["Metadata"]
  <2>1. Chosen(p, "Metadata") \subseteq 0..2 /\ Chosen(p, "Metadata") # {}
    BY <1>1 DEF Chosen, Advertised
  <2> QED BY <2>1, GreatestOf DEF Understood
<1>4. Chosen(p, "Produce") # {} /\ Max(Chosen(p, "Produce")) \in Understood["Produce"]
  <2>1. Chosen(p, "Produce") \subseteq 0..3 /\ Chosen(p, "Produce") # {}
    BY <1>1 DEF Chosen, Advertised
  <2> QED BY <2>1, GreatestOf DEF Understood
<1>5. Served(p) /\ p \in Clients
  BY <1>1, <1>2, <1>3, <1>4 DEF Served, Clients
<1>6. NobodyStuck => client[p].next # "stuck"
  BY <1>5 DEF NobodyStuck
<1> QED BY <1>6, NobodyEverStuck, PTL

\* A consumer cannot: of ListOffsets it would have to use v0, which is answered in
\* the layout of v1 (sendListOffsetsResponse), so none that negotiates is served.
THEOREM NegotiatingConsumersUnserved ==
  ASSUME NEW c \in Consumers \cap Negotiates
  PROVE  ~Served(c)
<1>1. "ListOffsets" \in Needs(c)
  BY KafkaAssumption DEF Needs
<1>2. Chosen(c, "ListOffsets") \subseteq {0}
  BY DEF Chosen, Advertised
<1>3. Chosen(c, "ListOffsets") # {} => Max(Chosen(c, "ListOffsets")) = 0
  BY <1>2, GreatestOf
<1> QED BY <1>1, <1>3 DEF Served, Understood

-----------------------------------------------------------------------------
(***************************************************************************)
(* What the registry has recorded of the Produce requests.                 *)
(***************************************************************************)
AllBatches == UNION {{Batches[p][i] : i \in DOMAIN Batches[p]} : p \in Producers}

RegistryRight ==
  /\ DOMAIN hits = EventTopics
  /\ \A t \in EventTopics : hits[t] \in [DOMAIN Expects[t] -> Nat]
  /\ produced \in Seq([topic : BatchTopics, batch : AllBatches]) /\ passed \in Seq(BatchTopics)
  /\ IsFiniteSet(Spent)
  /\ EveryProduceAccounted

LEMMA InSpent ==
  ASSUME NEW t, NEW i
  PROVE  <<t, i>> \in Spent <=> t \in EventTopics /\ i \in Positives(t) /\ hits[t][i] = 1
BY DEF Spent

LEMMA SpentPairs ==
  ASSUME NEW x \in Spent
  PROVE  \E t, i : x = <<t, i>>
BY DEF Spent

LEMMA MocksOfATopic ==
  ASSUME NEW t
  PROVE  /\ Negatives(t) \subseteq DOMAIN Mocks(t) /\ Positives(t) \subseteq DOMAIN Mocks(t)
         /\ Negatives(t) \cap Positives(t) = {} /\ DOMAIN Mocks(t) = Negatives(t) \cup Positives(t)
         /\ t \in EventTopics => DOMAIN Mocks(t) = DOMAIN Expects[t] /\ DOMAIN Mocks(t) \subseteq Nat
         /\ t \notin EventTopics => DOMAIN Mocks(t) = {}
<1>1. /\ Negatives(t) \subseteq DOMAIN Mocks(t) /\ Positives(t) \subseteq DOMAIN Mocks(t)
      /\ Negatives(t) \cap Positives(t) = {} /\ DOMAIN Mocks(t) = Negatives(t) \cup Positives(t)
  BY DEF Negatives, Positives
<1>2. t \in EventTopics => DOMAIN Mocks(t) = DOMAIN Expects[t] /\ DOMAIN Mocks(t) \subseteq Nat
  BY ListAssumption DEF Mocks, IsList
<1>3. t \notin EventTopics => DOMAIN Mocks(t) = {}
  BY DEF Mocks
<1> QED BY <1>1, <1>2, <1>3

LEMMA HitOnce ==
  ASSUME NEW h, NEW topic \in DOMAIN h, NEW set
  PROVE  /\ DOMAIN Hit(h, topic, set) = DOMAIN h
         /\ \A t \in DOMAIN h \ {topic} : Hit(h, topic, set)[t] = h[t]
         /\ DOMAIN Hit(h, topic, set)[topic] = DOMAIN h[topic]
         /\ \A i \in DOMAIN h[topic] :
               Hit(h, topic, set)[topic][i] = IF i \in set THEN h[topic][i] + 1 ELSE h[topic][i]
BY DEF Hit

LEMMA HitType ==
  ASSUME NEW h, NEW topic \in DOMAIN h, NEW set, NEW D, h[topic] \in [D -> Nat]
  PROVE  Hit(h, topic, set)[topic] \in [D -> Nat]
BY DEF Hit

\* At most one mock takes a message: one that was not hit yet.
LEMMA OneMockFound ==
  ASSUME NEW h, NEW topic, NEW value
  PROVE  LET found == FindKafkaMockWithBody(h, topic, value) IN
         /\ found # {} => topic \in EventTopics
         /\ found = {} \/ \E m \in Positives(topic) : found = {m} /\ h[topic][m] = 0
<1> DEFINE found == FindKafkaMockWithBody(h, topic, value)
           fits == {i \in DOMAIN Mocks(topic) \ Negatives(topic) : h[topic][i] = 0 /\ Mocks(topic)[i].with \in {"", value}}
<1>1. found = {i \in fits : \A j \in fits : i <= j}
  BY DEF FindKafkaMockWithBody
<1>2. fits \subseteq Positives(topic) /\ \A i \in fits : h[topic][i] = 0
  BY DEF Positives
<1> HIDE DEF found, fits
<1>3. fits # {} => topic \in EventTopics
  BY <1>2, MocksOfATopic
<1>4. fits \subseteq Nat
  BY <1>2, <1>3, MocksOfATopic
<1>5. \A i, j \in found : i = j
  BY <1>1, <1>4
<1>6. found \subseteq fits
  BY <1>1
<1>7. found = {} \/ \E m \in Positives(topic) : found = {m} /\ h[topic][m] = 0
  <2>1. ASSUME NEW m \in found PROVE found = {m} /\ m \in Positives(topic) /\ h[topic][m] = 0
    BY <1>2, <1>5, <1>6
  <2> QED BY <2>1
<1>8. found # {} => topic \in EventTopics
  BY <1>3, <1>6
<1> QED BY <1>7, <1>8 DEF found

LEMMA ProducedFinite ==
  ASSUME RegistryRight, NEW t
  PROVE  IsFiniteSet({i \in DOMAIN produced : produced[i].topic = t}) /\ TimesProduced(t) \in Nat
<1>1. DOMAIN produced = 1..Len(produced) /\ Len(produced) \in Nat
  BY DEF RegistryRight
<1>2. IsFiniteSet(1..Len(produced))
  BY <1>1, FS_Interval
<1>3. IsFiniteSet({i \in DOMAIN produced : produced[i].topic = t})
  BY <1>1, <1>2, FS_Subset
<1> QED BY <1>3, FS_CardinalityType DEF TimesProduced

\* The requests of a topic are counted one by one.
LEMMA ProducedCounted ==
  ASSUME RegistryRight, NEW e \in [topic : BatchTopics, batch : AllBatches], produced' = Append(produced, e), NEW t
  PROVE  TimesProduced(t)' = TimesProduced(t) + (IF e.topic = t THEN 1 ELSE 0)
<1> DEFINE n == Len(produced)
           old == {i \in DOMAIN produced : produced[i].topic = t}
           new == {i \in DOMAIN produced' : produced'[i].topic = t}
<1>1. /\ n \in Nat /\ DOMAIN produced = 1..n /\ DOMAIN produced' = 1..(n + 1) /\ produced'[n + 1] = e
      /\ \A i \in 1..n : produced'[i] = produced[i]
  BY DEF RegistryRight
<1>2. new = IF e.topic = t THEN old \cup {n + 1} ELSE old
  <2> HIDE DEF n
  <2>1. 1..(n + 1) = (1..n) \cup {n + 1} /\ n + 1 \notin 1..n
    BY <1>1
  <2> QED BY <1>1, <2>1
<1>3. n + 1 \notin old
  BY <1>1
<1>4. IsFiniteSet(old) /\ Cardinality(old) \in Nat
  BY ProducedFinite, FS_CardinalityType
<1>5. Cardinality(new) = Cardinality(old) + (IF e.topic = t THEN 1 ELSE 0)
  <2> HIDE DEF old, new, n
  <2>1. CASE e.topic = t
    <3>1. new = old \cup {n + 1}
      BY <1>2, <2>1
    <3>2. Cardinality(old \cup {n + 1}) = Cardinality(old) + 1
      BY <1>3, <1>4, FS_AddElement
    <3> QED BY <2>1, <3>1, <3>2
  <2>2. CASE e.topic # t
    BY <1>2, <1>4, <2>2
  <2> QED BY <2>1, <2>2
<1> QED BY <1>5 DEF TimesProduced

\* What a Produce does to the registry.
Recorded(topic, value, batch) ==
  LET checked == IF topic \in EventTopics THEN Hit(hits, topic, Negatives(topic)) ELSE hits
      found == FindKafkaMockWithBody(checked, topic, value)
  IN  /\ hits' = IF found = {} THEN checked ELSE Hit(checked, topic, found)
      /\ passed' = IF found = {} THEN Append(passed, topic) ELSE passed
      /\ produced' = Append(produced, [topic |-> topic, batch |-> batch])

LEMMA ProduceRecords ==
  ASSUME ClientsRight, NEW c \in Clients, Produce(c)
  PROVE  \E topic \in BatchTopics : \E batch \in AllBatches : \E value : Recorded(topic, value, batch)
<1>1. net[c] # None /\ net[c].kind = "request" /\ net[c].api = "Produce"
  BY DEF Produce, IsRequest
<1>2. Requested(c)
  BY <1>1 DEF ClientsRight, Between, Answered
<1>3. client[c].next = "Produce"
  BY <1>1, <1>2, RequestRead
<1> DEFINE topic == net[c].topic
           value == extractProduceData(net[c].batch)
           checked == IF topic \in EventTopics THEN Hit(hits, topic, Negatives(topic)) ELSE hits
           found == FindKafkaMockWithBody(checked, topic, value)
<1>4. /\ produceTopic(net[c].data, net[c].version) = topic /\ topic # "" /\ topic \in BatchTopics
      /\ net[c].batch \in AllBatches
  <2>1. net[c].batch \in AllBatches
    <3>1. c \in Producers /\ client[c].sent + 1 \in DOMAIN Batches[c] /\ net[c].batch = Batches[c][client[c].sent + 1]
      BY <1>2, <1>3, ProduceAsked, Zenon DEF NextBatch
    <3>2. net[c].batch \in {Batches[c][i] : i \in DOMAIN Batches[c]}
      BY <3>1
    <3> QED BY <3>1, <3>2, Zenon DEF AllBatches
  <2> QED BY <1>2, <1>3, <2>1, ProduceAsked
<1>5. /\ hits' = IF found = {} THEN checked ELSE Hit(checked, topic, found)
      /\ passed' = IF found = {} THEN Append(passed, topic) ELSE passed
      /\ produced' = Append(produced, [topic |-> topic, batch |-> net[c].batch])
  BY <1>4, Zenon DEF Produce
<1>6. Recorded(topic, value, net[c].batch)
  BY <1>5, Zenon DEF Recorded
<1> HIDE DEF value
<1> QED BY <1>4, <1>6

LEMMA ProduceAccounted ==
  ASSUME ClientsRight, RegistryRight, NEW c \in Clients, Produce(c)
  PROVE  RegistryRight'
<1>1. PICK topic \in BatchTopics : \E batch \in AllBatches : \E value : Recorded(topic, value, batch)
  BY ProduceRecords
<1>0. PICK batch \in AllBatches : \E value : Recorded(topic, value, batch)
  BY <1>1
<1>a. PICK value : Recorded(topic, value, batch)
  BY <1>0
<1> DEFINE checked == IF topic \in EventTopics THEN Hit(hits, topic, Negatives(topic)) ELSE hits
           found == FindKafkaMockWithBody(checked, topic, value)
<1>2. /\ hits' = IF found = {} THEN checked ELSE Hit(checked, topic, found)
      /\ passed' = IF found = {} THEN Append(passed, topic) ELSE passed
      /\ produced' = Append(produced, [topic |-> topic, batch |-> batch])
  BY <1>a, Zenon DEF Recorded
<1>3. /\ DOMAIN checked = EventTopics
      /\ \A t \in EventTopics \ {topic} : checked[t] = hits[t]
      /\ topic \in EventTopics => /\ DOMAIN checked[topic] = DOMAIN Expects[topic]
                                  /\ \A i \in DOMAIN Expects[topic] : checked[topic][i] =
                                        IF i \in Negatives(topic) THEN hits[topic][i] + 1 ELSE hits[topic][i]
  BY HitOnce DEF RegistryRight
<1>4. /\ found # {} => topic \in EventTopics
      /\ found = {} \/ \E m \in Positives(topic) : found = {m} /\ checked[topic][m] = 0
  BY OneMockFound
<1> HIDE DEF checked, found
<1>5. /\ DOMAIN hits' = EventTopics
      /\ \A t \in EventTopics \ {topic} : hits'[t] = hits[t]
      /\ topic \in EventTopics => /\ DOMAIN hits'[topic] = DOMAIN Expects[topic]
                                  /\ \A i \in DOMAIN Expects[topic] : hits'[topic][i] =
                                        IF i \in found THEN checked[topic][i] + 1 ELSE checked[topic][i]
  <2>1. CASE found = {}
    BY <1>2, <1>3, <2>1
  <2>2. CASE found # {}
    BY <1>2, <1>3, <1>4, <2>2, HitOnce
  <2> QED BY <2>1, <2>2
<1>6. \A t \in EventTopics : hits[t] \in [DOMAIN Expects[t] -> Nat]
  BY DEF RegistryRight
<1>7. topic \in EventTopics =>
        /\ \A i \in Negatives(topic) : hits'[topic][i] = hits[topic][i] + 1
        /\ \A i \in Positives(topic) \ found : hits'[topic][i] = hits[topic][i]
        /\ \A i \in found : i \in Positives(topic) /\ hits[topic][i] = 0 /\ hits'[topic][i] = 1
  <2> SUFFICES ASSUME topic \in EventTopics
               PROVE  /\ \A i \in Negatives(topic) : hits'[topic][i] = hits[topic][i] + 1
                      /\ \A i \in Positives(topic) \ found : hits'[topic][i] = hits[topic][i]
                      /\ \A i \in found : i \in Positives(topic) /\ hits[topic][i] = 0 /\ hits'[topic][i] = 1
    OBVIOUS
  <2>1. /\ Negatives(topic) \subseteq DOMAIN Expects[topic] /\ Positives(topic) \subseteq DOMAIN Expects[topic]
        /\ Negatives(topic) \cap Positives(topic) = {}
    BY MocksOfATopic
  <2>2. found \subseteq Positives(topic) /\ \A i \in found : checked[topic][i] = 0
    BY <1>4
  <2>3. \A i \in Positives(topic) : checked[topic][i] = hits[topic][i]
    BY <1>3, <2>1
  <2>4. \A i \in Negatives(topic) : i \notin found /\ checked[topic][i] = hits[topic][i] + 1
    BY <1>3, <2>1, <2>2
  <2> QED BY <1>5, <2>1, <2>2, <2>3, <2>4
<1>8. \A t \in EventTopics : hits'[t] \in [DOMAIN Expects[t] -> Nat]
  <2>1. ASSUME topic \in EventTopics PROVE hits'[topic] \in [DOMAIN Expects[topic] -> Nat]
    <3>1. checked[topic] \in [DOMAIN Expects[topic] -> Nat]
      BY <1>6, <2>1, HitType DEF checked, RegistryRight
    <3>2. found # {} => Hit(checked, topic, found)[topic] \in [DOMAIN Expects[topic] -> Nat]
      BY <1>3, <2>1, <3>1, HitType
    <3> QED BY <1>2, <3>1, <3>2
  <2> QED BY <1>5, <1>6, <2>1
<1>9. /\ [topic |-> topic, batch |-> batch] \in [topic : BatchTopics, batch : AllBatches]
      /\ produced' \in Seq([topic : BatchTopics, batch : AllBatches]) /\ passed' \in Seq(BatchTopics)
      /\ Len(produced') = Len(produced) + 1 /\ Len(passed') = Len(passed) + (IF found = {} THEN 1 ELSE 0)
  BY <1>2 DEF RegistryRight
<1>10. IsFiniteSet(Spent') /\ Cardinality(Spent') = Cardinality(Spent) + (IF found = {} THEN 0 ELSE 1)
  <2>0. IsFiniteSet(Spent)
    BY DEF RegistryRight
  <2>1. \A t, i : <<t, i>> \in Spent <=> t \in EventTopics /\ i \in Positives(t) /\ hits[t][i] = 1
    BY InSpent
  <2>2. \A t, i : <<t, i>> \in Spent' <=> t \in EventTopics /\ i \in Positives(t) /\ hits'[t][i] = 1
    BY DEF Spent, Positives, Negatives
  <2>3. (\A x \in Spent : \E t, i : x = <<t, i>>) /\ (\A x \in Spent' : \E t, i : x = <<t, i>>)
    BY DEF Spent
  <2>4. CASE found = {}
    <3>1. ASSUME NEW t, NEW i PROVE <<t, i>> \in Spent' <=> <<t, i>> \in Spent
      <4>1. ASSUME t \in EventTopics, i \in Positives(t) PROVE hits'[t][i] = hits[t][i]
        BY <1>5, <1>7, <2>4, <4>1
      <4> QED BY <2>1, <2>2, <4>1, Zenon
    <3>2. Spent' = Spent
      BY <2>3, <3>1
    <3>3. Cardinality(Spent) \in Nat
      BY <2>0, FS_CardinalityType
    <3> QED BY <2>0, <2>4, <3>2, <3>3
  <2>5. CASE found # {}
    <3>1. PICK m \in Positives(topic) : found = {m}
      BY <1>4, <2>5
    <3>2. topic \in EventTopics /\ hits[topic][m] = 0 /\ hits'[topic][m] = 1
      BY <1>4, <1>7, <2>5, <3>1
    <3>3. ASSUME NEW t, NEW i PROVE <<t, i>> \in Spent' <=> <<t, i>> \in Spent \/ (t = topic /\ i = m)
      <4>1. CASE t = topic /\ i = m
        BY <2>2, <3>2, <4>1
      <4>2. CASE ~(t = topic /\ i = m)
        <5>1. ASSUME t \in EventTopics, i \in Positives(t) PROVE hits'[t][i] = hits[t][i]
          BY <1>5, <1>7, <3>1, <4>2, <5>1
        <5> QED BY <2>1, <2>2, <4>2, <5>1, Zenon
      <4> QED BY <4>1, <4>2
    <3>4. Spent' = Spent \cup {<<topic, m>>} /\ <<topic, m>> \notin Spent
      <4>1. <<topic, m>> \notin Spent
        BY <2>1, <3>2
      <4>2. \A x \in Spent' : x \in Spent \/ x = <<topic, m>>
        BY <2>3, <3>3
      <4>3. \A x \in Spent : x \in Spent'
        BY <2>3, <3>3
      <4>4. <<topic, m>> \in Spent'
        BY <3>3
      <4> QED BY <4>1, <4>2, <4>3, <4>4
    <3> QED BY <2>0, <2>5, <3>4, FS_AddElement
  <2> QED BY <2>4, <2>5
<1>11. EveryProduceAccounted'
  <2>1. \A t \in EventTopics : TimesProduced(t)' = TimesProduced(t) + (IF t = topic THEN 1 ELSE 0) /\ TimesProduced(t) \in Nat
    BY <1>2, <1>9, ProducedCounted, ProducedFinite
  <2>2. EveryProduceAccounted
    BY DEF RegistryRight
  <2>3. \A t \in EventTopics : \A i \in Positives(t) : hits'[t][i] <= 1
    BY <1>5, <1>7, <2>2 DEF EveryProduceAccounted
  <2>4. \A t \in EventTopics : \A i \in Negatives(t) : hits'[t][i] = TimesProduced(t)'
    BY <1>5, <1>7, <2>1, <2>2 DEF EveryProduceAccounted
  <2>5. Len(produced') = Len(passed') + Cardinality(Spent')
    <3>1. Len(produced) = Len(passed) + Cardinality(Spent)
      BY <2>2 DEF EveryProduceAccounted
    <3>2. Len(produced) \in Nat /\ Len(passed) \in Nat /\ Cardinality(Spent) \in Nat
      BY FS_CardinalityType DEF RegistryRight
    <3> QED BY <1>9, <1>10, <3>1, <3>2
  <2> QED BY <2>3, <2>4, <2>5 DEF EveryProduceAccounted, Positives, Negatives
<1> QED BY <1>5, <1>8, <1>9, <1>10, <1>11 DEF RegistryRight

LEMMA InitRegistry == Init => RegistryRight
<1> SUFFICES ASSUME Init PROVE RegistryRight
  OBVIOUS
<1>1. \A t \in EventTopics : hits[t] = [i \in DOMAIN Expects[t] |-> 0]
  BY DEF Init
<1>2. DOMAIN hits = EventTopics /\ produced = << >> /\ passed = << >>
  BY DEF Init
<1>3. \A t \in EventTopics : \A i \in Positives(t) \cup Negatives(t) : hits[t][i] = 0
  BY <1>1, MocksOfATopic
<1>4. Spent = {}
  BY <1>3 DEF Spent
<1>5. \A t : TimesProduced(t) = 0
  BY <1>2, FS_EmptySet DEF TimesProduced
<1>6. EveryProduceAccounted
  BY <1>2, <1>3, <1>4, <1>5, FS_EmptySet DEF EveryProduceAccounted
<1> QED BY <1>1, <1>2, <1>4, <1>6, FS_EmptySet DEF RegistryRight

LEMMA RegistryKept == ClientsRight /\ RegistryRight /\ [Next]_vars => RegistryRight'
<1> SUFFICES ASSUME ClientsRight, RegistryRight, [Next]_vars PROVE RegistryRight'
  OBVIOUS
<1>1. CASE UNCHANGED <<hits, passed, produced>>
  <2>1. hits' = hits /\ passed' = passed /\ produced' = produced
    BY <1>1
  <2>2. Spent' = Spent
    BY <2>1 DEF Spent, Positives, Negatives
  <2>3. EveryProduceAccounted' <=> EveryProduceAccounted
    BY <2>1, <2>2, Zenon DEF EveryProduceAccounted, TimesProduced, Positives, Negatives
  <2> QED BY <2>1, <2>2, <2>3, Zenon DEF RegistryRight
<1>2. CASE \E c \in Clients : Produce(c)
  BY <1>2, ProduceAccounted
<1>3. UNCHANGED <<hits, passed, produced>> \/ \E c \in Clients : Produce(c)
  BY Zenon DEF Next, Turn, Send, handleConn, Receive, Shutdown, Restart, vars
<1> QED BY <1>1, <1>2, <1>3

\* Every Produce that was answered left one trace, whatever the producers and
\* however they interleave: it spent a mock, and no mock twice, or it is recorded
\* as a passthrough, and it hit every EXPECT_NOT of its topic (EveryProduceAccounted).
THEOREM EveryProduceAlwaysAccounted == Spec => []EveryProduceAccounted
<1> DEFINE Inv == ClientsRight /\ RegistryRight
<1>1. Init => Inv
  BY InitClients, InitRegistry
<1>2. Inv /\ [Next]_vars => Inv'
  BY ClientsKept, RegistryKept
<1>3. Inv => EveryProduceAccounted
  BY DEF RegistryRight
<1> QED BY <1>1, <1>2, <1>3, PTL DEF Spec

=============================================================================
