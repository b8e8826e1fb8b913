---------------------------- MODULE SpecRunProofs ----------------------------
(***************************************************************************)
(* A spec runs on what it asked for and on nothing else: its containers,   *)
(* its aliases, its registry, no rows of a spec before it, for any number  *)
(* of runs on the host, any services and specs, on fresh containers and on *)
(* kept ones, whatever fails.                                              *)
(***************************************************************************)
EXTENDS SuiteProofs

-----------------------------------------------------------------------------
(***************************************************************************)
(* Names tell what a container is, and of which spec.                      *)
(***************************************************************************)
SpecPart(n) == IF n[1] = "engine" THEN n[4] ELSE IF n[1] = "proxy" THEN n[3] ELSE n[2]

LEMMA NamesTell ==
  ASSUME NEW r \in Runs
  PROVE  /\ SharedDB(r)[1] = "database" /\ SharedKafka(r)[1] = "kafka"
         /\ \A s : MigrateName(r, s)[1] = "migrate"
         /\ \A f : \A n \in SpecNames(r, f) : n[1] \in {"engine", "proxy", "app"} /\ SpecPart(n) = f.name
<1>1. SharedDB(r)[1] = "database" /\ SharedKafka(r)[1] = "kafka"
  BY DEF SharedDB, SharedKafka, Named
<1>2. ASSUME NEW s PROVE MigrateName(r, s)[1] = "migrate"
  BY DEF MigrateName, Named
<1>3. ASSUME NEW f, NEW n \in SpecNames(r, f)
      PROVE  n[1] \in {"engine", "proxy", "app"} /\ SpecPart(n) = f.name
  <2>1. ASSUME NEW type, n = ProxyName(r, f, type) PROVE n[1] = "proxy" /\ n[3] = f.name
    BY <2>1 DEF ProxyName, Named
  <2>2. ASSUME n = AppName(r, f) PROVE n[1] = "app" /\ n[2] = f.name
    BY <2>2 DEF AppName, Named
  <2>3. ASSUME NEW db, n = EngineName(r, f, db) PROVE n[1] = "engine" /\ n[4] = f.name
    BY <2>3 DEF EngineName
  <2> QED BY <1>3, <2>1, <2>2, <2>3 DEF SpecNames, SpecPart
<1> QED BY <1>1, <1>2, <1>3

LEMMA SpecsApart ==
  ASSUME SpecNamesApart, NEW r \in Runs, NEW f \in Specs(r), NEW g \in Specs(r), f # g
  PROVE  SpecNames(r, f) \cap SpecNames(r, g) = {}
BY NamesTell DEF SpecNamesApart

-----------------------------------------------------------------------------
(***************************************************************************)
(* What a flattened sequence contains.                                     *)
(***************************************************************************)
LEMMA ConcatRange ==
  ASSUME NEW S, NEW a \in Seq(S), NEW b \in Seq(S)
  PROVE  Range(a \o b) = Range(a) \cup Range(b)
<1>1. /\ a \o b \in Seq(S) /\ Len(a \o b) = Len(a) + Len(b) /\ Len(a) \in Nat /\ Len(b) \in Nat
      /\ \A i \in 1..Len(a) : (a \o b)[i] = a[i]
      /\ \A i \in 1..Len(b) : (a \o b)[Len(a) + i] = b[i]
  OBVIOUS
<1>2. DOMAIN a = 1..Len(a) /\ DOMAIN b = 1..Len(b) /\ DOMAIN (a \o b) = 1..(Len(a) + Len(b))
  BY <1>1
<1>3. ASSUME NEW x \in Range(a \o b) PROVE x \in Range(a) \cup Range(b)
  <2>1. PICK i \in 1..(Len(a) + Len(b)) : x = (a \o b)[i]
    BY <1>2, <1>3 DEF Range
  <2>2. CASE i <= Len(a)
    BY <1>1, <1>2, <2>1, <2>2 DEF Range
  <2>3. CASE i > Len(a)
    <3>1. i - Len(a) \in 1..Len(b) /\ Len(a) + (i - Len(a)) = i
      BY <1>1, <2>1, <2>3
    <3>2. x = b[i - Len(a)]
      BY <1>1, <2>1, <3>1
    <3> QED BY <1>2, <3>1, <3>2 DEF Range
  <2> QED BY <1>1, <2>1, <2>2, <2>3
<1>4. ASSUME NEW x \in Range(a) PROVE x \in Range(a \o b)
  <2>1. PICK i \in 1..Len(a) : x = a[i]
    BY <1>2, <1>4 DEF Range
  <2>2. i \in DOMAIN (a \o b) /\ x = (a \o b)[i]
    BY <1>1, <1>2, <2>1
  <2> QED BY <2>2 DEF Range
<1>5. ASSUME NEW x \in Range(b) PROVE x \in Range(a \o b)
  <2>1. PICK i \in 1..Len(b) : x = b[i]
    BY <1>2, <1>5 DEF Range
  <2>2. Len(a) + i \in DOMAIN (a \o b) /\ x = (a \o b)[Len(a) + i]
    BY <1>1, <1>2, <2>1
  <2> QED BY <2>2 DEF Range
<1> QED BY <1>3, <1>4, <1>5

LEMMA Join ==
  ASSUME NEW S, NEW a, NEW b, a \in Seq(S), b \in Seq(S)
  PROVE  a \o b \in Seq(S) /\ Range(a \o b) = Range(a) \cup Range(b)
BY Concat, ConcatRange

LEMMA FlattenHas ==
  ASSUME NEW S, NEW seqs \in Seq(Seq(S)), NEW i \in 1..Len(seqs)
  PROVE  Range(seqs[i]) \subseteq Range(FlattenSeq(seqs))
<1> DEFINE L == Len(seqs)
           flat == CHOOSE f : Flattens(f, seqs, L)
<1>1. L \in Nat /\ L # 0 /\ \A k \in 1..L : seqs[k] \in Seq(S)
  OBVIOUS
<1>2. FlattenSeq(seqs) = flat[L]
  BY <1>1 DEF FlattenSeq, Flattens
<1>3. Flattens(flat, seqs, L)
  BY <1>1, FlattensExists
<1>4. \A k \in 1..L : flat[k] = IF k = 1 THEN seqs[k] ELSE flat[k-1] \o seqs[k]
  BY <1>3 DEF Flattens
<1> HIDE DEF flat
<1> DEFINE Wrong == {n \in Nat : n \in 1..L /\ flat[n] \notin Seq(S)}
<1>5. Wrong = {}
  <2> SUFFICES ASSUME Wrong # {} PROVE FALSE
    OBVIOUS
  <2>1. PICK n \in Wrong : \A m \in Wrong : n <= m
    BY LeastNat
  <2>2. n \in 1..L /\ (n # 1 => n - 1 \in 1..L /\ n - 1 \in Nat /\ ~(n <= n - 1))
    BY <2>1, <1>1
  <2>3. n # 1 => flat[n-1] \in Seq(S)
    BY <2>1, <2>2
  <2>4. seqs[n] \in Seq(S) /\ flat[n] = IF n = 1 THEN seqs[n] ELSE flat[n-1] \o seqs[n]
    BY <1>1, <1>4, <2>2
  <2>5. n # 1 => flat[n-1] \o seqs[n] \in Seq(S)
    BY <2>3, <2>4, Concat
  <2>6. flat[n] \in Seq(S)
    BY <2>4, <2>5
  <2> QED BY <2>1, <2>6
<1> DEFINE Lacks == {n \in Nat : n \in i..L /\ ~(Range(seqs[i]) \subseteq Range(flat[n]))}
<1>6. Lacks = {}
  <2> SUFFICES ASSUME Lacks # {} PROVE FALSE
    OBVIOUS
  <2>1. PICK n \in Lacks : \A m \in Lacks : n <= m
    BY LeastNat
  <2>2. n \in 1..L /\ n \in Nat /\ i \in Nat /\ i <= n
    BY <2>1, <1>1
  <2>3. CASE n = 1
    <3>1. n = i
      BY <2>2, <2>3
    <3> QED BY <1>4, <2>1, <2>2, <2>3, <3>1
  <2>4. CASE n # 1
    <3>1. n - 1 \in 1..L /\ n - 1 \in Nat /\ ~(n <= n - 1)
      BY <2>2, <2>4, <1>1
    <3>2. flat[n] = flat[n-1] \o seqs[n] /\ flat[n-1] \in Seq(S) /\ seqs[n] \in Seq(S)
      BY <1>1, <1>4, <1>5, <2>2, <2>4, <3>1
    <3>3. Range(flat[n]) = Range(flat[n-1]) \cup Range(seqs[n])
      BY <3>2, ConcatRange
    <3>4. i = n \/ i \in 1..(n - 1)
      BY <2>2
    <3>5. CASE i = n
      BY <2>1, <3>3, <3>5
    <3>6. CASE i \in 1..(n - 1)
      <4>1. n - 1 \in i..L /\ n - 1 \notin Lacks
        BY <2>1, <2>2, <3>1, <3>6
      <4> QED BY <2>1, <3>1, <3>3, <4>1
    <3> QED BY <3>4, <3>5, <3>6
  <2> QED BY <2>3, <2>4
<1> QED BY <1>1, <1>2, <1>6

-----------------------------------------------------------------------------
(***************************************************************************)
(* The plans: how they end, and what they start.                           *)
(***************************************************************************)
Inner(r, f) == SpecStarts(r, f) \cup {Does("inspect")} \cup [do : {"migrate"}, service : Services]

Front1(r, f) ==
  DatabaseSteps(r, f) \o HTTPSteps(r, f) \o KafkaSteps(r, f) \o GRPCSteps(r, f) \o RedisSteps(r, f)
    \o <<Does("inspect")>> \o MigrationSteps(f) \o AppSteps(r, f)

LEMMA PartsTyped ==
  ASSUME NEW r \in Runs, NEW f \in Specs(r)
  PROVE  LET S == Inner(r, f) IN
         /\ DatabaseSteps(r, f) \in Seq(S) /\ HTTPSteps(r, f) \in Seq(S) /\ KafkaSteps(r, f) \in Seq(S)
         /\ GRPCSteps(r, f) \in Seq(S) /\ RedisSteps(r, f) \in Seq(S) /\ <<Does("inspect")>> \in Seq(S)
         /\ MigrationSteps(f) \in Seq(S) /\ AppSteps(r, f) \in Seq(S)
<1> DEFINE S == Inner(r, f)
<1>1. DatabaseSteps(r, f) \in Seq(S)
  <2>1. SpecStarts(r, f) \subseteq S
    BY DEF Inner
  <2> HIDE DEF S
  <2> QED BY <2>1, DatabaseStepsTyped, Wider
<1>2. HTTPSteps(r, f) \in Seq(S)
  <2>1. <<Starts(ProxyName(r, f, "http"), Dependencies(Service[f.service].http))>> \in Seq(S)
    BY DEF Starts, Inner, SpecStarts, SpecNames, Aliases
  <2> QED BY <2>1, Conditional DEF HTTPSteps
<1>3. KafkaSteps(r, f) \in Seq(S)
  <2>1. <<Starts(ProxyName(r, f, "kafka"), {At("kafka-proxy")})>> \in Seq(S)
    BY DEF Starts, Inner, SpecStarts, SpecNames, Aliases
  <2> QED BY <2>1, Conditional DEF KafkaSteps
<1>4. GRPCSteps(r, f) \in Seq(S)
  <2>1. <<Starts(ProxyName(r, f, "grpc"), Dependencies({"grpc-proxy"} \cup Service[f.service].grpc))>> \in Seq(S)
    BY DEF Starts, Inner, SpecStarts, SpecNames, Aliases
  <2> QED BY <2>1, Conditional DEF GRPCSteps
<1>5. RedisSteps(r, f) \in Seq(S)
  <2>1. <<Starts(ProxyName(r, f, "redis"), {At("redis-proxy")})>> \in Seq(S)
    BY DEF Starts, Inner, SpecStarts, SpecNames, Aliases
  <2> QED BY <2>1, Conditional DEF RedisSteps
<1>6. MigrationSteps(f) \in Seq(S)
  <2>1. [do |-> "migrate", service |-> f.service] \in S
    BY SpecsTyped DEF Inner
  <2> HIDE DEF S
  <2>2. <<[do |-> "migrate", service |-> f.service]>> \in Seq(S)
    BY <2>1
  <2> QED BY <2>2, Conditional DEF MigrationSteps
<1>7. AppSteps(r, f) \in Seq(S)
  BY DEF AppSteps, Starts, Inner, SpecStarts, SpecNames, Aliases
<1>8. <<Does("inspect")>> \in Seq(S)
  BY DEF Does, Inner
<1> QED BY <1>1, <1>2, <1>3, <1>4, <1>5, <1>6, <1>7, <1>8

LEMMA FrontHas ==
  ASSUME NEW r \in Runs, NEW f \in Specs(r)
  PROVE  /\ Front1(r, f) \in Seq(Inner(r, f))
         /\ Range(Front1(r, f)) =
              Range(DatabaseSteps(r, f)) \cup Range(HTTPSteps(r, f)) \cup Range(KafkaSteps(r, f))
                \cup Range(GRPCSteps(r, f)) \cup Range(RedisSteps(r, f)) \cup Range(<<Does("inspect")>>)
                \cup Range(MigrationSteps(f)) \cup Range(AppSteps(r, f))
<1> DEFINE S == Inner(r, f)
           a == DatabaseSteps(r, f)
           b == HTTPSteps(r, f)
           c == KafkaSteps(r, f)
           d == GRPCSteps(r, f)
           e == RedisSteps(r, f)
           g == <<Does("inspect")>>
           h == MigrationSteps(f)
           i == AppSteps(r, f)
<1>0. a \in Seq(S) /\ b \in Seq(S) /\ c \in Seq(S) /\ d \in Seq(S) /\ e \in Seq(S) /\ g \in Seq(S)
      /\ h \in Seq(S) /\ i \in Seq(S)
  BY PartsTyped
<1> HIDE DEF S, a, b, c, d, e, g, h, i
<1> DEFINE ab == a \o b
           abc == ab \o c
           abcd == abc \o d
           upto == abcd \o e
           inspect == upto \o g
           migrate == inspect \o h
           all == migrate \o i
<1>1. ab \in Seq(S) /\ Range(ab) = Range(a) \cup Range(b)
  BY <1>0, Join
<1> HIDE DEF ab
<1>2. abc \in Seq(S) /\ Range(abc) = Range(ab) \cup Range(c)
  BY <1>0, <1>1, Join
<1> HIDE DEF abc
<1>3. abcd \in Seq(S) /\ Range(abcd) = Range(abc) \cup Range(d)
  BY <1>0, <1>2, Join
<1> HIDE DEF abcd
<1>4. upto \in Seq(S) /\ Range(upto) = Range(abcd) \cup Range(e)
  BY <1>0, <1>3, Join
<1> HIDE DEF upto
<1>5. inspect \in Seq(S) /\ Range(inspect) = Range(upto) \cup Range(g)
  BY <1>0, <1>4, Join
<1> HIDE DEF inspect
<1>6. migrate \in Seq(S) /\ Range(migrate) = Range(inspect) \cup Range(h)
  BY <1>0, <1>5, Join
<1> HIDE DEF migrate
<1>7. all \in Seq(S) /\ Range(all) = Range(migrate) \cup Range(i)
  BY <1>0, <1>6, Join
<1> HIDE DEF all
<1>8. Front1(r, f) = all
  BY DEF Front1, all, migrate, inspect, upto, abcd, abc, ab, a, b, c, d, e, g, h, i
<1>9. Range(all) =
        Range(a) \cup Range(b) \cup Range(c) \cup Range(d) \cup Range(e) \cup Range(g) \cup Range(h) \cup Range(i)
  BY <1>1, <1>2, <1>3, <1>4, <1>5, <1>6, <1>7
<1> QED BY <1>7, <1>8, <1>9 DEF S, a, b, c, d, e, g, h, i

\* The last step of a plan is the test, and the only one.
LEMMA LastStep ==
  ASSUME NEW S, NEW q \in Seq(S), NEW x
  PROVE  LET p == q \o <<x>> IN
         /\ Len(p) = Len(q) + 1 /\ Len(q) \in Nat /\ p[Len(p)] = x /\ DOMAIN p = 1..Len(p)
         /\ \A i \in 1..Len(q) : p[i] = q[i] /\ p[i] \in S
         /\ Range(p) = Range(q) \cup {x}
<1> DEFINE p == q \o <<x>>
<1>1. Len(p) = Len(q) + 1 /\ Len(q) \in Nat /\ p[Len(p)] = x /\ DOMAIN p = 1..Len(p)
  OBVIOUS
<1>2. \A i \in 1..Len(q) : p[i] = q[i] /\ p[i] \in S
  OBVIOUS
<1>3. DOMAIN q = 1..Len(q)
  OBVIOUS
<1>4. Range(p) = Range(q) \cup {x}
  <2> HIDE DEF p
  <2>1. \A i \in 1..Len(p) : i = Len(p) \/ i \in 1..Len(q)
    BY <1>1
  <2>2. 1..Len(q) \subseteq 1..Len(p) /\ Len(p) \in 1..Len(p)
    BY <1>1
  <2> QED BY <1>1, <1>2, <1>3, <2>1, <2>2 DEF Range
<1> QED BY <1>1, <1>2, <1>4

LEMMA PlanShape ==
  ASSUME NEW r \in Runs, NEW f \in Specs(r)
  PROVE  LET plan == SpecPlan(r, f) IN
         /\ Len(plan) \in Nat /\ Len(plan) > 0 /\ DOMAIN plan = 1..Len(plan)
         /\ plan[Len(plan)].do = "test"
         /\ \A i \in 1..(Len(plan) - 1) : plan[i] \in Inner(r, f) /\ plan[i].do \in {"start", "inspect", "migrate"}
         /\ Range(plan) = Range(Front1(r, f)) \cup {Does("test")}
<1> DEFINE q == Front1(r, f)
<1>1. SpecPlan(r, f) = q \o <<Does("test")>>
  BY DEF SpecPlan, Front1
<1>2. q \in Seq(Inner(r, f))
  BY FrontHas
<1>3. ASSUME NEW step \in Inner(r, f) PROVE step.do \in {"start", "inspect", "migrate"}
  <2>1. CASE step \in SpecStarts(r, f)
    BY <2>1 DEF SpecStarts
  <2>2. CASE step = Does("inspect")
    BY <2>2 DEF Does
  <2>3. CASE step \in [do : {"migrate"}, service : Services]
    BY <2>3
  <2> QED BY <2>1, <2>2, <2>3 DEF Inner
<1>4. Does("test").do = "test"
  BY DEF Does
<1> HIDE DEF q
<1>5. LET p == q \o <<Does("test")>> IN
         /\ Len(p) = Len(q) + 1 /\ Len(q) \in Nat /\ p[Len(p)] = Does("test") /\ DOMAIN p = 1..Len(p)
         /\ \A i \in 1..Len(q) : p[i] = q[i] /\ p[i] \in Inner(r, f)
         /\ Range(p) = Range(q) \cup {Does("test")}
  BY <1>2, LastStep
<1> QED BY <1>1, <1>3, <1>4, <1>5 DEF q

\* Each database of the service has its engine and its proxy in the plan.
LEMMA DatabaseInPlan ==
  ASSUME NEW r \in Runs, NEW f \in Specs(r), NEW db \in DatabasesOf(f)
  PROVE  /\ db.type # "mysql" => Starts(EngineName(r, f, db), {Real(db.host)}) \in Range(SpecPlan(r, f))
         /\ db.proxied => Starts(ProxyName(r, f, db.host), {At(db.host)}) \in Range(SpecPlan(r, f))
<1> DEFINE dbs == Service[f.service].dbs
           steps(b) == CASE b.type = "oracle"     -> OracleSteps(r, f, b)
                         [] b.type = "postgresql" -> PostgreSQLSteps(r, f, b)
                         [] b.type = "mysql"      -> MySQLSteps(r, f, b)
                         [] b.type = "mongodb"    -> MongoDBSteps(r, f, b)
           all == [i \in DOMAIN dbs |-> steps(dbs[i])]
           Each == {<<Starts(EngineName(r, f, b), {Real(b.host)})>>
                       \o If(b.proxied, <<Starts(ProxyName(r, f, b.host), {At(b.host)})>>) : b \in DatabasesOf(f)}
           S == UNION {{Starts(EngineName(r, f, b), {Real(b.host)}), Starts(ProxyName(r, f, b.host), {At(b.host)})}
                          : b \in DatabasesOf(f)}
<1>1. ASSUME NEW b \in DatabasesOf(f)
      PROVE  /\ steps(b) \in Seq(S)
             /\ b.type # "mysql" => Starts(EngineName(r, f, b), {Real(b.host)}) \in Range(steps(b))
             /\ b.proxied => Starts(ProxyName(r, f, b.host), {At(b.host)}) \in Range(steps(b))
  <2> DEFINE x == Starts(EngineName(r, f, b), {Real(b.host)})
             y == Starts(ProxyName(r, f, b.host), {At(b.host)})
  <2>1. b.type \in {"oracle", "postgresql", "mysql", "mongodb"}
    BY <1>1, SpecsTyped
  <2>2. x \in S /\ y \in S
    <3>1. x \in {x, y} /\ y \in {x, y}
      OBVIOUS
    <3> HIDE DEF steps
    <3> QED BY <1>1, <3>1
  <2>3. steps(b) = IF b.type = "mysql" THEN If(b.proxied, <<y>>) ELSE <<x>> \o If(b.proxied, <<y>>)
    BY <2>1 DEF OracleSteps, PostgreSQLSteps, MySQLSteps, MongoDBSteps, EngineSteps, ProxySteps
  <2> HIDE DEF steps, x, y, S
  <2>4. <<x>> \in Seq(S) /\ <<y>> \in Seq(S) /\ Range(<<x>>) = {x} /\ Range(<<y>>) = {y}
    <3>1. \A z : DOMAIN <<z>> = {1} /\ <<z>>[1] = z
      OBVIOUS
    <3>2. \A z : Range(<<z>>) = {z}
      BY <3>1 DEF Range
    <3>3. <<x>> \in Seq(S) /\ <<y>> \in Seq(S)
      BY <2>2
    <3> QED BY <3>2, <3>3
  <2>5. If(b.proxied, <<y>>) \in Seq(S) /\ (b.proxied => Range(If(b.proxied, <<y>>)) = {y})
    BY <2>4 DEF If
  <2>6. /\ <<x>> \o If(b.proxied, <<y>>) \in Seq(S)
        /\ Range(<<x>> \o If(b.proxied, <<y>>)) = {x} \cup Range(If(b.proxied, <<y>>))
    <3> DEFINE z == If(b.proxied, <<y>>)
    <3> HIDE DEF z
    <3>0. z \in Seq(S) /\ <<x>> \in Seq(S)
      BY <2>4, <2>5 DEF z
    <3>1. <<x>> \o z \in Seq(S) /\ Range(<<x>> \o z) = Range(<<x>>) \cup Range(z)
      BY <3>0, Join
    <3> QED BY <2>4, <3>1 DEF z
  <2> QED BY <2>3, <2>5, <2>6 DEF x, y
<1>2. dbs \in Seq(DatabasesOf(f)) /\ DatabasesOf(f) = Range(dbs)
  BY SpecsTyped DEF DatabasesOf
<1>3. DatabaseSteps(r, f) = FlattenSeq(all)
  BY DEF DatabaseSteps
<1> HIDE DEF steps, S, dbs
<1>4. Len(dbs) \in Nat /\ DOMAIN dbs = 1..Len(dbs) /\ \A i \in 1..Len(dbs) : dbs[i] \in DatabasesOf(f)
  BY <1>2
<1>5. all \in Seq(Seq(S)) /\ Len(all) = Len(dbs)
  <2>1. all = [i \in 1..Len(dbs) |-> all[i]] /\ \A i \in 1..Len(dbs) : all[i] \in Seq(S)
    BY <1>1, <1>4
  <2> HIDE DEF all
  <2>2. all \in Seq(Seq(S))
    BY <1>4, <2>1, SequenceOf
  <2> QED BY <1>4, <2>1, <2>2
<1>6. PICK i \in 1..Len(dbs) : dbs[i] = db
  BY <1>2, <1>4 DEF Range
<1>7. all[i] = steps(db)
  BY <1>4, <1>6
<1> HIDE DEF all
<1>8. Range(steps(db)) \subseteq Range(DatabaseSteps(r, f))
  BY <1>3, <1>5, <1>6, <1>7, FlattenHas
<1>9. Range(DatabaseSteps(r, f)) \subseteq Range(SpecPlan(r, f))
  BY FrontHas, PlanShape
<1> QED BY <1>1, <1>8, <1>9

-----------------------------------------------------------------------------
(***************************************************************************)
(* The plan of the setup.                                                  *)
(***************************************************************************)
SetupInner(r) ==
  {StartsShared(SharedDB(r), {NetworkAlias}), StartsShared(SharedKafka(r), {At("kafka")}), Does("schema")}
    \cup [do : {"migrate"}, service : Services]

MigratedInSetup == {s \in Services : Service[s].migrates /\ ~HasType(s, NonMySQL)}

LEMMA SetupMigrationsHas ==
  ASSUME NEW r \in Runs
  PROVE  /\ SetupMigrations \in Seq(SetupInner(r))
         /\ Range(SetupMigrations) = {[do |-> "migrate", service |-> s] : s \in MigratedInSetup}
<1> DEFINE M == MigratedInSetup
           now == SetToSeq(M)
           g == [i \in DOMAIN now |-> [do |-> "migrate", service |-> now[i]]]
<1>1. IsFiniteSet(M) /\ Cardinality(M) \in Nat
  BY SuiteAssumption, FS_Subset, FS_CardinalityType DEF MigratedInSetup
<1>2. \E h \in [1..Cardinality(M) -> M] : IsInjective(h)
  <2>1. PICK h \in Bijection(1..Cardinality(M), M) : TRUE
    BY <1>1, FS_CardinalityType DEF ExistsBijection
  <2> QED BY <2>1 DEF Bijection, Injection, IsInjective
<1>3. now \in [1..Cardinality(M) -> M] /\ IsInjective(now)
  BY <1>2 DEF SetToSeq
<1> HIDE DEF now
<1>4. now \in Injection(1..Cardinality(M), M)
  BY <1>3 DEF Injection, IsInjective
<1>5. Cardinality(1..Cardinality(M)) = Cardinality(M)
  BY <1>1, FS_Interval
<1>6. now \in Surjection(1..Cardinality(M), M)
  BY <1>1, <1>4, <1>5, FS_Injection
<1>7. DOMAIN now = 1..Cardinality(M) /\ \A s \in M : \E i \in 1..Cardinality(M) : now[i] = s
  BY <1>3, <1>6 DEF Surjection
<1>8. M \subseteq Services
  BY DEF MigratedInSetup
<1>9. g = [i \in 1..Cardinality(M) |-> g[i]] /\ \A i \in 1..Cardinality(M) : g[i] \in SetupInner(r)
  BY <1>3, <1>8 DEF SetupInner
<1>10. SetupMigrations = g
  BY DEF SetupMigrations, now, MigratedInSetup
<1>11. Range(g) = {[do |-> "migrate", service |-> s] : s \in M}
  BY <1>3, <1>7 DEF Range
<1> HIDE DEF g, M
<1>12. g \in Seq(SetupInner(r))
  BY <1>1, <1>9, SequenceOf
<1> QED BY <1>10, <1>11, <1>12 DEF M

LEMMA SetupShape ==
  ASSUME NEW r \in Runs
  PROVE  LET plan == SetupPlan(r) IN
         /\ Len(plan) \in Nat /\ Len(plan) > 0 /\ DOMAIN plan = 1..Len(plan)
         /\ plan[Len(plan)] = Does("specs")
         /\ \A i \in 1..(Len(plan) - 1) : plan[i] \in SetupInner(r) /\ plan[i].do \in {"start", "schema", "migrate"}
         /\ Range(plan) = Range(SetupDatabase(r)) \cup {[do |-> "migrate", service |-> s] : s \in MigratedInSetup}
              \cup {Does("schema"), StartsShared(SharedKafka(r), {At("kafka")}), Does("specs")}
<1> DEFINE S == SetupInner(r)
           a == SetupDatabase(r)
           b == SetupMigrations
           c == <<Does("schema")>>
           d == SetupKafka(r)
           ab == a \o b
           abc == ab \o c
           q == abc \o d
<1>1. a \in Seq(S)
  <2>1. <<StartsShared(SharedDB(r), {NetworkAlias})>> \in Seq(S)
    BY DEF SetupInner
  <2> QED BY <2>1, Conditional DEF SetupDatabase
<1>2. b \in Seq(S) /\ Range(b) = {[do |-> "migrate", service |-> s] : s \in MigratedInSetup}
  BY SetupMigrationsHas
<1>3. c \in Seq(S) /\ d \in Seq(S)
  BY DEF SetupInner, SetupKafka
<1>4. Range(c) = {Does("schema")} /\ Range(d) = {StartsShared(SharedKafka(r), {At("kafka")})}
  <2>1. \A z : DOMAIN <<z>> = {1} /\ <<z>>[1] = z
    OBVIOUS
  <2> QED BY <2>1 DEF Range, SetupKafka
<1>5. SetupPlan(r) = q \o <<Does("specs")>>
  BY DEF SetupPlan
<1>6. ASSUME NEW step \in SetupInner(r) PROVE step.do \in {"start", "schema", "migrate"}
  BY DEF SetupInner, Does, StartsShared
<1> HIDE DEF S, a, b, c, d
<1>7. ab \in Seq(S) /\ Range(ab) = Range(a) \cup Range(b)
  BY <1>1, <1>2, Join
<1> HIDE DEF ab
<1>8. abc \in Seq(S) /\ Range(abc) = Range(ab) \cup Range(c)
  BY <1>3, <1>7, Join
<1> HIDE DEF abc
<1>9. q \in Seq(S) /\ Range(q) = Range(abc) \cup Range(d)
  BY <1>3, <1>8, Join
<1> HIDE DEF q
<1>10. LET p == q \o <<Does("specs")>> IN
         /\ Len(p) = Len(q) + 1 /\ Len(q) \in Nat /\ p[Len(p)] = Does("specs") /\ DOMAIN p = 1..Len(p)
         /\ \A i \in 1..Len(q) : p[i] = q[i] /\ p[i] \in S
         /\ Range(p) = Range(q) \cup {Does("specs")}
  BY <1>9, LastStep
<1>11. Range(SetupPlan(r)) = Range(a) \cup Range(b) \cup Range(c) \cup Range(d) \cup {Does("specs")}
  BY <1>5, <1>7, <1>8, <1>9, <1>10
<1>12. Range(SetupPlan(r)) = Range(SetupDatabase(r)) \cup {[do |-> "migrate", service |-> s] : s \in MigratedInSetup}
          \cup {Does("schema"), StartsShared(SharedKafka(r), {At("kafka")}), Does("specs")}
  <2> DEFINE X == {[do |-> "migrate", service |-> s] : s \in MigratedInSetup}
  <2> HIDE DEF X
  <2>1. Range(b) = X
    BY <1>2 DEF X
  <2>2. Range(SetupPlan(r)) = Range(a) \cup X \cup {Does("schema"), StartsShared(SharedKafka(r), {At("kafka")}), Does("specs")}
    BY <1>4, <1>11, <2>1
  <2> QED BY <2>2 DEF a, X
<1>13. \A i \in 1..Len(q) : SetupPlan(r)[i] \in SetupInner(r) /\ SetupPlan(r)[i].do \in {"start", "schema", "migrate"}
  BY <1>5, <1>6, <1>10 DEF S
<1>14. /\ Len(SetupPlan(r)) = Len(q) + 1 /\ Len(q) \in Nat /\ DOMAIN SetupPlan(r) = 1..Len(SetupPlan(r))
       /\ SetupPlan(r)[Len(SetupPlan(r))] = Does("specs")
  BY <1>5, <1>10
<1>15. Len(SetupPlan(r)) - 1 = Len(q)
  BY <1>14
<1> QED BY <1>12, <1>13, <1>14, <1>15

\* What a suite with a MySQL service starts.
LEMMA SetupHasDatabase ==
  ASSUME NEW r \in Runs, NEW s \in Services, HasType(s, {"mysql"})
  PROVE  StartsShared(SharedDB(r), {NetworkAlias}) \in Range(SetupPlan(r))
<1>1. SetupDatabase(r) = <<StartsShared(SharedDB(r), {NetworkAlias})>>
  BY DEF SetupDatabase, If
<1>2. \A z : DOMAIN <<z>> = {1} /\ <<z>>[1] = z
  OBVIOUS
<1>3. StartsShared(SharedDB(r), {NetworkAlias}) \in Range(SetupDatabase(r))
  BY <1>1, <1>2 DEF Range
<1> QED BY <1>3, SetupShape

-----------------------------------------------------------------------------
(***************************************************************************)
(* Where the service finds what it was told to use.                        *)
(***************************************************************************)
LEMMA SingleRange == \A x : Range(<<x>>) = {x}
<1>1. \A z : DOMAIN <<z>> = {1} /\ <<z>>[1] = z
  OBVIOUS
<1> QED BY <1>1 DEF Range

LEMMA EnvironmentServed ==
  ASSUME MySQLHostNamed, NEW r \in Runs, NEW f \in Specs(r), NEW alias \in AppEnvironment(f)
  PROVE  \/ \E step \in Range(SpecPlan(r, f)) : step.do = "start" /\ alias \in step.aliases
         \/ \E step \in Range(SetupPlan(r)) : step.do = "start" /\ alias \in step.aliases
<1> DEFINE s == Service[f.service]
<1>1. CASE alias \in DatabaseEnvironment(s)
  <2>1. PICK i \in DOMAIN s.dbs : alias = IF s.dbs[i].proxied THEN At(s.dbs[i].host) ELSE Real(s.dbs[i].host)
    BY <1>1 DEF DatabaseEnvironment
  <2> DEFINE db == s.dbs[i]
  <2>2. db \in DatabasesOf(f) /\ f.service \in Services
    BY SpecsTyped DEF DatabasesOf, Range
  <2> HIDE DEF db
  <2>3. CASE db.proxied
    <3>1. Starts(ProxyName(r, f, db.host), {At(db.host)}) \in Range(SpecPlan(r, f))
      BY <2>2, <2>3, DatabaseInPlan
    <3> QED BY <2>1, <2>3, <3>1 DEF Starts, db
  <2>4. CASE ~db.proxied /\ db.type # "mysql"
    <3>1. Starts(EngineName(r, f, db), {Real(db.host)}) \in Range(SpecPlan(r, f))
      BY <2>2, <2>4, DatabaseInPlan
    <3> QED BY <2>1, <2>4, <3>1 DEF Starts, db
  <2>5. CASE ~db.proxied /\ db.type = "mysql"
    <3>1. db \in Range(Service[f.service].dbs) /\ db.host = "db"
      BY <2>2, <2>5 DEF MySQLHostNamed, DatabasesOf
    <3>2. HasType(f.service, {"mysql"})
      BY <2>5, <2>1 DEF HasType, db
    <3>3. StartsShared(SharedDB(r), {NetworkAlias}) \in Range(SetupPlan(r))
      BY <2>2, <3>2, SetupHasDatabase
    <3> QED BY <2>1, <2>5, <3>1, <3>3 DEF StartsShared, NetworkAlias, db
  <2> QED BY <2>3, <2>4, <2>5
<1>2. CASE alias \in Dependencies(s.http)
  <2>1. s.http # {}
    BY <1>2 DEF Dependencies
  <2>2. HTTPSteps(r, f) = <<Starts(ProxyName(r, f, "http"), Dependencies(s.http))>>
    BY <2>1 DEF HTTPSteps, If
  <2>3. Starts(ProxyName(r, f, "http"), Dependencies(s.http)) \in Range(SpecPlan(r, f))
    BY <2>2, SingleRange, FrontHas, PlanShape
  <2> QED BY <1>2, <2>3 DEF Starts
<1>3. CASE NeedsKafkaProxy(f) /\ alias = At("kafka-proxy")
  <2>1. KafkaSteps(r, f) = <<Starts(ProxyName(r, f, "kafka"), {At("kafka-proxy")})>>
    BY <1>3 DEF KafkaSteps, If
  <2>2. Starts(ProxyName(r, f, "kafka"), {At("kafka-proxy")}) \in Range(SpecPlan(r, f))
    BY <2>1, SingleRange, FrontHas, PlanShape
  <2> QED BY <1>3, <2>2 DEF Starts
<1>4. CASE alias = At("kafka")
  <2>1. StartsShared(SharedKafka(r), {At("kafka")}) \in Range(SetupPlan(r))
    BY SetupShape
  <2> QED BY <1>4, <2>1 DEF StartsShared
<1>5. CASE NeedsGRPC(f) /\ alias \in Dependencies({"grpc-proxy"} \cup s.grpc)
  <2>1. GRPCSteps(r, f) = <<Starts(ProxyName(r, f, "grpc"), Dependencies({"grpc-proxy"} \cup s.grpc))>>
    BY <1>5 DEF GRPCSteps, If
  <2>2. Starts(ProxyName(r, f, "grpc"), Dependencies({"grpc-proxy"} \cup s.grpc)) \in Range(SpecPlan(r, f))
    BY <2>1, SingleRange, FrontHas, PlanShape
  <2> QED BY <1>5, <2>2 DEF Starts
<1>6. CASE s.redis /\ alias = At("redis-proxy")
  <2>1. RedisSteps(r, f) = <<Starts(ProxyName(r, f, "redis"), {At("redis-proxy")})>>
    BY <1>6 DEF RedisSteps, If
  <2>2. Starts(ProxyName(r, f, "redis"), {At("redis-proxy")}) \in Range(SpecPlan(r, f))
    BY <2>1, SingleRange, FrontHas, PlanShape
  <2> QED BY <1>6, <2>2 DEF Starts
<1> QED BY <1>1, <1>2, <1>3, <1>4, <1>5, <1>6 DEF AppEnvironment

-----------------------------------------------------------------------------
(***************************************************************************)
(* The invariant of a run, of its state s and the containers h: how far    *)
(* it is in its plan, and that what it has done of it still stands.        *)
(***************************************************************************)
Runs1(h, r, step) ==
  /\ step.name \in DOMAIN h
  /\ h[step.name].up /\ h[step.name].owner = r /\ h[step.name].aliases = step.aliases

Migrated(h, n) == n \in DOMAIN h /\ h[n].schema # None

\* The first k steps of the plan are done; a migration may be under way.
Follows(todo, plan, k) ==
  /\ Len(todo) = Len(plan) - k
  /\ \A i \in 1..Len(todo) :
       \/ todo[i] = plan[k + i]
       \/ i = 1 /\ plan[k + 1].do = "migrate" /\ todo[1] = [plan[k + 1] EXCEPT !.do = "migrating"]

SetupDone(h, r, step) ==
  /\ step.do = "start" => Runs1(h, r, step)
  /\ step.do = "migrate" => Migrated(h, SharedDB(r))

SetupInv(h, r, s) ==
  s.phase = "setup" =>
    \E k \in 0..Len(SetupPlan(r)) :
      Follows(s.todo, SetupPlan(r), k) /\ \A i \in 1..k : SetupDone(h, r, SetupPlan(r)[i])

OfSpecs == {"next", "reuse", "fresh", "test", "unwind"}

\* What the setup started runs until the cleanup.
SharedInv(h, r, s) == s.phase \in OfSpecs => \A step \in Range(SetupPlan(r)) : SetupDone(h, r, step)

IsFresh(s) == s.phase = "fresh" \/ (s.phase = "test" /\ s.todo # << >>)

\* A container of a fresh spec is guarded, clean, and serves this spec.
StepDone(h, r, s, f, step) ==
  /\ step.do = "start" =>
       /\ Runs1(h, r, step) /\ step.name \in Range(s.undo)
       /\ ~h[step.name].dirty /\ h[step.name].serves = s.at
  /\ step.do = "migrate" => \A n \in Databases(r, f) : Migrated(h, n)

FreshInv(h, r, s) ==
  IsFresh(s) =>
    /\ s.on = SpecAt(r, s)
    /\ \E k \in 0..Len(SpecPlan(r, s.on)) :
         /\ Follows(s.todo, SpecPlan(r, s.on), k)
         /\ \A i \in 1..k : StepDone(h, r, s, s.on, SpecPlan(r, s.on)[i])

\* The containers of a kept spec all run.
Alive(h, r, g) ==
  \A step \in Range(SpecPlan(r, g)) :
    /\ step.do = "start" => Runs1(h, r, step)
    /\ step.do = "migrate" => \A n \in Databases(r, g) : Migrated(h, n)

KeptInv(h, r, s) ==
  s.phase \in OfSpecs => \A v \in Services : s.kept[v] # None =>
    LET g == s.kept[v].spec IN
    g.service = v /\ canUsePersistentContainers(g) /\ Alive(h, r, g)

\* On kept containers the proxies serve this spec, and its engines are clean.
ReusedInv(h, r, s) ==
  s.phase = "test" /\ s.todo = << >> =>
    LET pc == s.kept[SpecAt(r, s).service] IN
    /\ pc # None /\ s.on = pc.spec
    /\ \A n \in ProxiesOf(r, s.on) \ pc.unread : n \in DOMAIN h /\ h[n].serves = s.at
    /\ "truncate" \notin Faults =>
         \A n \in Databases(r, s.on) \ {SharedDB(r)} : n \in DOMAIN h /\ ~h[n].dirty

\* Nothing is kept before the specs; the spec that is unwound is not kept, and
\* one that is reused may be.
PhaseInv(r, s) ==
  /\ s.phase \in {"new", "setup"} => \A v \in Services : s.kept[v] = None
  /\ s.phase = "unwind" => s.kept[SpecAt(r, s).service] = None
  /\ s.phase = "reuse" \/ (s.phase = "test" /\ s.todo = << >>) => canUsePersistentContainers(SpecAt(r, s))

AllRead(s) ==
  "inspect" \notin Faults =>
    s.unread = {} /\ \A v \in Services : s.kept[v] # None => s.kept[v].unread = {}

RunInv(h, r, s) ==
  /\ SetupInv(h, r, s) /\ SharedInv(h, r, s) /\ FreshInv(h, r, s) /\ KeptInv(h, r, s)
  /\ ReusedInv(h, r, s) /\ PhaseInv(r, s) /\ AllRead(s)

-----------------------------------------------------------------------------
(***************************************************************************)
(* What stands still stands when its containers last.                      *)
(***************************************************************************)
Lasts(h, h2, n) ==
  /\ n \in DOMAIN h2
  /\ h2[n].owner = h[n].owner /\ h2[n].up = h[n].up /\ h2[n].aliases = h[n].aliases
  /\ h[n].schema # None => h2[n].schema # None

\* It is neither written to nor given another registry.
Steady(h, h2, n) == Lasts(h, h2, n) /\ (h2[n].dirty => h[n].dirty) /\ h2[n].serves = h[n].serves

LEMMA SetupNames ==
  ASSUME NEW r \in Runs, NEW step \in Range(SetupPlan(r))
  PROVE  step.do = "start" => step.name \in {SharedDB(r), SharedKafka(r)}
<1>1. PICK i \in 1..Len(SetupPlan(r)) : step = SetupPlan(r)[i]
  BY SetupShape DEF Range
<1>2. CASE i = Len(SetupPlan(r))
  BY <1>1, <1>2, SetupShape DEF Does
<1>3. CASE i # Len(SetupPlan(r))
  <2>1. i \in 1..(Len(SetupPlan(r)) - 1)
    BY <1>1, <1>3, SetupShape
  <2>2. step \in SetupInner(r)
    BY <1>1, <2>1, SetupShape
  <2> QED BY <2>2 DEF SetupInner, StartsShared, Does
<1> QED BY <1>2, <1>3

LEMMA SetupLasts ==
  ASSUME NEW r \in Runs, NEW h, NEW h2, NEW step \in Range(SetupPlan(r)), SetupDone(h, r, step),
         \A n \in {SharedDB(r), SharedKafka(r)} : n \in DOMAIN h => Lasts(h, h2, n)
  PROVE  SetupDone(h2, r, step)
BY SetupNames DEF SetupDone, Runs1, Migrated, Lasts

LEMMA SharedLasts ==
  ASSUME NEW r \in Runs, NEW h, NEW h2, NEW s, NEW t, SharedInv(h, r, s), s.phase \in OfSpecs,
         \A n \in {SharedDB(r), SharedKafka(r)} : n \in DOMAIN h => Lasts(h, h2, n)
  PROVE  SharedInv(h2, r, t)
BY SetupLasts DEF SharedInv

\* The containers a spec uses.
Uses(r, f) == StartedBy(r, f) \cup Databases(r, f)

LEMMA PlanStarts ==
  ASSUME NEW r \in Runs, NEW f \in Specs(r)
  PROVE  /\ \A step \in Range(SpecPlan(r, f)) : step.do = "start" => step.name \in StartedBy(r, f)
         /\ \A n \in StartedBy(r, f) : \E step \in Range(SpecPlan(r, f)) : step.do = "start" /\ step.name = n
         /\ Databases(r, f) \subseteq StartedBy(r, f) \cup {SharedDB(r)}
<1>1. \A step \in Range(SpecPlan(r, f)) : step.do = "start" => step.name \in StartedBy(r, f)
  BY DEF Range, StartedBy
<1>2. \A n \in StartedBy(r, f) : \E step \in Range(SpecPlan(r, f)) : step.do = "start" /\ step.name = n
  BY DEF Range, StartedBy
<1>3. ASSUME NEW n \in Databases(r, f), n # SharedDB(r) PROVE n \in StartedBy(r, f)
  <2> DEFINE dbs == Service[f.service].dbs
  <2>1. PICK i \in DOMAIN dbs : n = EngineName(r, f, dbs[i]) /\ dbs[i].type # "mysql"
    BY <1>3 DEF Databases
  <2>2. dbs[i] \in DatabasesOf(f)
    BY <2>1 DEF DatabasesOf, Range
  <2>3. Starts(n, {Real(dbs[i].host)}) \in Range(SpecPlan(r, f))
    BY <2>1, <2>2, DatabaseInPlan
  <2> QED BY <1>1, <2>3 DEF Starts
<1> QED BY <1>1, <1>2, <1>3

LEMMA AliveLasts ==
  ASSUME NEW r \in Runs, NEW h, NEW h2, NEW g \in Specs(r), Alive(h, r, g),
         \A n \in Uses(r, g) : n \in DOMAIN h => Lasts(h, h2, n)
  PROVE  Alive(h2, r, g)
BY PlanStarts DEF Alive, Runs1, Migrated, Lasts, Uses

LEMMA KeptSpec ==
  ASSUME NEW r \in Runs, NEW s, KeptTyped(r, s), NEW v \in Services, s.kept[v] # None
  PROVE  s.kept[v].spec \in Specs(r) /\ s.kept[v] \in KeptEntry(r)
BY DEF KeptTyped, KeptEntry, Specs

LEMMA KeptLasts ==
  ASSUME NEW r \in Runs, NEW h, NEW h2, NEW s, NEW t, KeptInv(h, r, s), s.phase \in OfSpecs, KeptTyped(r, s),
         \A v \in Services : t.kept[v] = None \/ t.kept[v] = s.kept[v],
         \A v \in Services : t.kept[v] # None =>
            \A n \in Uses(r, t.kept[v].spec) : n \in DOMAIN h => Lasts(h, h2, n)
  PROVE  KeptInv(h2, r, t)
BY AliveLasts, KeptSpec DEF KeptInv

LEMMA StepLasts ==
  ASSUME NEW r \in Runs, NEW h, NEW h2, NEW s, NEW t, NEW f \in Specs(r), NEW step \in Range(SpecPlan(r, f)),
         StepDone(h, r, s, f, step), t.at = s.at, Range(s.undo) \subseteq Range(t.undo),
         \A n \in Uses(r, f) : n \in DOMAIN h => Steady(h, h2, n)
  PROVE  StepDone(h2, r, t, f, step)
<1>1. step.do = "start" => step.name \in StartedBy(r, f)
  BY PlanStarts
<1> QED BY <1>1 DEF StepDone, Runs1, Migrated, Lasts, Steady, Uses

LEMMA FreshLasts ==
  ASSUME NEW r \in Runs, NEW h, NEW h2, NEW s, NEW t, FreshInv(h, r, s), IsFresh(s), SpecAt(r, s) \in Specs(r),
         t.todo = s.todo, t.at = s.at, t.on = s.on, t.undo = s.undo,
         \A n \in Uses(r, s.on) : n \in DOMAIN h => Steady(h, h2, n)
  PROVE  FreshInv(h2, r, t)
<1>1. s.on = SpecAt(r, s) /\ s.on \in Specs(r) /\ t.on = SpecAt(r, t)
  BY DEF FreshInv, SpecAt
<1> DEFINE plan == SpecPlan(r, s.on)
<1>2. PICK k \in 0..Len(plan) : Follows(s.todo, plan, k) /\ \A i \in 1..k : StepDone(h, r, s, s.on, plan[i])
  BY DEF FreshInv
<1>3. ASSUME NEW i \in 1..k PROVE StepDone(h2, r, t, t.on, plan[i])
  <2>1. plan[i] \in Range(plan)
    BY <1>1, <1>2, PlanShape DEF Range
  <2> HIDE DEF plan
  <2> QED BY <1>1, <1>2, <2>1, StepLasts DEF plan
<1> QED BY <1>1, <1>2, <1>3 DEF FreshInv

-----------------------------------------------------------------------------
(***************************************************************************)
(* One step further in a plan.                                             *)
(***************************************************************************)
MigratesWell(plan) ==
  \A i \in 1..Len(plan) : plan[i].do = "migrate" => plan[i] \in [do : {"migrate"}, service : Services]

LEMMA PlansMigrate ==
  ASSUME NEW r \in Runs
  PROVE  MigratesWell(SetupPlan(r)) /\ \A f \in Specs(r) : MigratesWell(SpecPlan(r, f))
<1>1. MigratesWell(SetupPlan(r))
  <2>1. ASSUME NEW i \in 1..Len(SetupPlan(r)), SetupPlan(r)[i].do = "migrate"
        PROVE  SetupPlan(r)[i] \in [do : {"migrate"}, service : Services]
    <3>1. i # Len(SetupPlan(r))
      BY <2>1, SetupShape DEF Does
    <3>2. i \in 1..(Len(SetupPlan(r)) - 1)
      BY <2>1, <3>1, SetupShape
    <3>3. SetupPlan(r)[i] \in SetupInner(r)
      BY <3>2, SetupShape
    <3> QED BY <2>1, <3>3 DEF SetupInner, StartsShared, Does
  <2> QED BY <2>1 DEF MigratesWell
<1>2. ASSUME NEW f \in Specs(r) PROVE MigratesWell(SpecPlan(r, f))
  <2>1. ASSUME NEW i \in 1..Len(SpecPlan(r, f)), SpecPlan(r, f)[i].do = "migrate"
        PROVE  SpecPlan(r, f)[i] \in [do : {"migrate"}, service : Services]
    <3>1. i # Len(SpecPlan(r, f))
      BY <2>1, PlanShape
    <3>2. i \in 1..(Len(SpecPlan(r, f)) - 1)
      BY <2>1, <3>1, PlanShape
    <3>3. SpecPlan(r, f)[i] \in Inner(r, f)
      BY <3>2, PlanShape
    <3>4. SpecPlan(r, f)[i] \notin SpecStarts(r, f)
      BY <2>1 DEF SpecStarts
    <3>5. SpecPlan(r, f)[i] # Does("inspect")
      BY <2>1 DEF Does
    <3> QED BY <3>3, <3>4, <3>5 DEF Inner
  <2> QED BY <2>1 DEF MigratesWell
<1> QED BY <1>1, <1>2

\* The step of the plan that the head of the list is about.
IsNow(head, step) ==
  \/ head = step
  \/ step.do = "migrate" /\ head.do = "migrating" /\ head.service = step.service

LEMMA FollowsTail ==
  ASSUME NEW S, NEW todo \in Seq(S), todo # << >>, NEW plan, Len(plan) \in Nat, MigratesWell(plan),
         NEW k \in 0..Len(plan), Follows(todo, plan, k)
  PROVE  /\ k + 1 \in 1..Len(plan) /\ Follows(Tail(todo), plan, k + 1) /\ IsNow(Head(todo), plan[k + 1])
<1>1. Len(todo) \in Nat \ {0} /\ Head(todo) = todo[1]
  BY EmptySeq, LenProperties
<1>2. /\ Tail(todo) \in Seq(S) /\ Len(Tail(todo)) = Len(todo) - 1
      /\ \A i \in 1..(Len(todo) - 1) : Tail(todo)[i] = todo[i + 1]
  BY HeadTailProperties
<1>3. Len(todo) = Len(plan) - k /\ k + 1 \in 1..Len(plan)
  BY <1>1 DEF Follows
<1>4. ASSUME NEW i \in 1..Len(Tail(todo)) PROVE Tail(todo)[i] = plan[(k + 1) + i]
  <2>1. i + 1 \in 1..Len(todo) /\ i + 1 # 1 /\ k + (i + 1) = (k + 1) + i /\ Tail(todo)[i] = todo[i + 1]
    BY <1>1, <1>2
  <2> QED BY <2>1 DEF Follows
<1>5. Follows(Tail(todo), plan, k + 1)
  BY <1>1, <1>2, <1>3, <1>4 DEF Follows
<1>6. todo[1] = plan[k + 1] \/ (plan[k + 1].do = "migrate" /\ todo[1] = [plan[k + 1] EXCEPT !.do = "migrating"])
  BY <1>1 DEF Follows
<1>7. plan[k + 1].do = "migrate" => plan[k + 1] \in [do : {"migrate"}, service : Services]
  BY <1>3 DEF MigratesWell
<1> QED BY <1>1, <1>3, <1>5, <1>6, <1>7 DEF IsNow

LEMMA FollowsBegin ==
  ASSUME NEW S, NEW todo \in Seq(S), todo # << >>, Head(todo).do = "migrate", NEW plan, Len(plan) \in Nat,
         MigratesWell(plan), NEW k \in 0..Len(plan), Follows(todo, plan, k)
  PROVE  Follows(<<[Head(todo) EXCEPT !.do = "migrating"]>> \o Tail(todo), plan, k)
<1> DEFINE x == [Head(todo) EXCEPT !.do = "migrating"]
           rest == Tail(todo)
           new == <<x>> \o rest
<1>1. Len(todo) \in Nat \ {0} /\ Head(todo) = todo[1]
  BY EmptySeq, LenProperties
<1>2. /\ rest \in Seq(S) /\ Len(rest) = Len(todo) - 1
      /\ \A i \in 1..(Len(todo) - 1) : rest[i] = todo[i + 1]
  BY HeadTailProperties
<1>3. Len(todo) = Len(plan) - k /\ k + 1 \in 1..Len(plan)
  BY <1>1 DEF Follows
<1>4. todo[1] = plan[k + 1] \/ (plan[k + 1].do = "migrate" /\ todo[1] = [plan[k + 1] EXCEPT !.do = "migrating"])
  BY <1>1 DEF Follows
<1>5. plan[k + 1].do = "migrate" => plan[k + 1] \in [do : {"migrate"}, service : Services]
  BY <1>3 DEF MigratesWell
<1>6. todo[1] = plan[k + 1] /\ plan[k + 1].do = "migrate" /\ x = [plan[k + 1] EXCEPT !.do = "migrating"]
  BY <1>1, <1>4, <1>5
<1>7. \A i \in 1..Len(rest) : rest[i] = plan[k + (i + 1)]
  <2>1. ASSUME NEW i \in 1..Len(rest) PROVE rest[i] = plan[k + (i + 1)]
    <3>1. i + 1 \in 1..Len(todo) /\ i + 1 # 1 /\ rest[i] = todo[i + 1]
      BY <1>1, <1>2
    <3> QED BY <3>1 DEF Follows
  <2> QED BY <2>1
<1> HIDE DEF x, rest
<1>8. /\ Len(new) = Len(rest) + 1 /\ Len(rest) \in Nat /\ new[1] = x
      /\ \A i \in 1..Len(rest) : new[i + 1] = rest[i]
  <2> DEFINE T == S \cup {x}
  <2>1. rest \in Seq(T) /\ x \in T
    BY <1>2, Wider
  <2> HIDE DEF T
  <2>2. <<x>> \in Seq(T) /\ Len(<<x>>) = 1 /\ <<x>>[1] = x
    BY <2>1
  <2> QED BY <2>1, <2>2
<1>9. ASSUME NEW i \in 1..Len(new) PROVE new[i] = plan[k + i] \/ (i = 1 /\ new[i] = x)
  <2>1. CASE i = 1
    BY <1>8, <2>1
  <2>2. CASE i # 1
    <3>1. i - 1 \in 1..Len(rest) /\ (i - 1) + 1 = i
      BY <1>8, <2>2
    <3> QED BY <1>7, <1>8, <3>1
  <2> QED BY <2>1, <2>2
<1>10. Len(new) = Len(plan) - k
  BY <1>2, <1>3, <1>8, <1>1
<1>11. Follows(new, plan, k)
  BY <1>6, <1>9, <1>10 DEF Follows
<1> QED BY <1>11 DEF x, rest

LEMMA FollowsNone ==
  ASSUME NEW plan, Len(plan) \in Nat
  PROVE  Follows(plan, plan, 0)
BY DEF Follows

LEMMA SetupSame ==
  ASSUME NEW r \in Runs, NEW h, NEW h2, NEW s, NEW t, SetupInv(h, r, s), s.phase = "setup", t.todo = s.todo,
         \A n \in {SharedDB(r), SharedKafka(r)} : n \in DOMAIN h => Lasts(h, h2, n)
  PROVE  SetupInv(h2, r, t)
<1> DEFINE plan == SetupPlan(r)
<1>1. PICK k \in 0..Len(plan) : Follows(s.todo, plan, k) /\ \A i \in 1..k : SetupDone(h, r, plan[i])
  BY DEF SetupInv
<1>2. ASSUME NEW i \in 1..k PROVE SetupDone(h2, r, plan[i])
  <2>1. plan[i] \in Range(plan)
    BY <1>1, SetupShape DEF Range
  <2> HIDE DEF plan
  <2> QED BY <1>1, <2>1, SetupLasts DEF plan
<1> QED BY <1>1, <1>2 DEF SetupInv

LEMMA SetupAdvance ==
  ASSUME NEW r \in Runs, NEW h, NEW h2, NEW s, NEW t, SetupInv(h, r, s), s.phase = "setup",
         NEW S, s.todo \in Seq(S), s.todo # << >>, t.todo = Tail(s.todo),
         \A n \in {SharedDB(r), SharedKafka(r)} : n \in DOMAIN h => Lasts(h, h2, n),
         \A step \in Range(SetupPlan(r)) : IsNow(Head(s.todo), step) => SetupDone(h2, r, step)
  PROVE  SetupInv(h2, r, t)
<1> DEFINE plan == SetupPlan(r)
<1>0. Len(plan) \in Nat /\ DOMAIN plan = 1..Len(plan) /\ MigratesWell(plan)
  BY SetupShape, PlansMigrate
<1>1. PICK k \in 0..Len(plan) : Follows(s.todo, plan, k) /\ \A i \in 1..k : SetupDone(h, r, plan[i])
  BY DEF SetupInv
<1> HIDE DEF plan
<1>2. k + 1 \in 1..Len(plan) /\ Follows(t.todo, plan, k + 1) /\ IsNow(Head(s.todo), plan[k + 1])
  BY <1>0, <1>1, FollowsTail
<1>3. ASSUME NEW i \in 1..(k + 1) PROVE SetupDone(h2, r, plan[i])
  <2>1. plan[i] \in Range(plan)
    BY <1>0, <1>2 DEF Range
  <2>2. CASE i = k + 1
    BY <1>2, <2>1, <2>2 DEF plan
  <2>3. CASE i # k + 1
    <3>1. i \in 1..k
      BY <2>3, <1>1
    <3> QED BY <1>1, <2>1, <3>1, SetupLasts DEF plan
  <2> QED BY <2>2, <2>3
<1>4. k + 1 \in 0..Len(plan)
  BY <1>2
<1> QED BY <1>2, <1>3, <1>4 DEF SetupInv, plan

LEMMA FreshAdvance ==
  ASSUME NEW r \in Runs, NEW h, NEW h2, NEW s, NEW t, FreshInv(h, r, s), IsFresh(s), SpecAt(r, s) \in Specs(r),
         NEW S, s.todo \in Seq(S), s.todo # << >>, t.todo = Tail(s.todo),
         t.at = s.at, t.on = s.on, Range(s.undo) \subseteq Range(t.undo),
         \A n \in Uses(r, s.on) : n \in DOMAIN h => Steady(h, h2, n),
         \A step \in Range(SpecPlan(r, s.on)) : IsNow(Head(s.todo), step) => StepDone(h2, r, t, s.on, step)
  PROVE  FreshInv(h2, r, t)
<1>1. s.on = SpecAt(r, s) /\ s.on \in Specs(r) /\ t.on = SpecAt(r, t)
  BY DEF FreshInv, SpecAt
<1> DEFINE plan == SpecPlan(r, s.on)
<1>0. Len(plan) \in Nat /\ DOMAIN plan = 1..Len(plan) /\ MigratesWell(plan)
  BY <1>1, PlanShape, PlansMigrate
<1>2. PICK k \in 0..Len(plan) : Follows(s.todo, plan, k) /\ \A i \in 1..k : StepDone(h, r, s, s.on, plan[i])
  BY DEF FreshInv
<1> HIDE DEF plan
<1>3. k + 1 \in 1..Len(plan) /\ Follows(t.todo, plan, k + 1) /\ IsNow(Head(s.todo), plan[k + 1])
  BY <1>0, <1>2, FollowsTail
<1>4. ASSUME NEW i \in 1..(k + 1) PROVE StepDone(h2, r, t, t.on, plan[i])
  <2>1. plan[i] \in Range(plan)
    BY <1>0, <1>3 DEF Range
  <2>2. CASE i = k + 1
    BY <1>3, <2>1, <2>2 DEF plan
  <2>3. CASE i # k + 1
    <3>1. i \in 1..k
      BY <2>3, <1>2
    <3> QED BY <1>1, <1>2, <2>1, <3>1, StepLasts DEF plan
  <2> QED BY <2>2, <2>3
<1>5. k + 1 \in 0..Len(plan)
  BY <1>3
<1> QED BY <1>1, <1>3, <1>4, <1>5 DEF FreshInv, plan

LEMMA FreshBegins ==
  ASSUME NEW r \in Runs, NEW h, NEW h2, NEW s, NEW t, FreshInv(h, r, s), IsFresh(s), SpecAt(r, s) \in Specs(r),
         NEW S, s.todo \in Seq(S), s.todo # << >>, Head(s.todo).do = "migrate",
         t.todo = <<[Head(s.todo) EXCEPT !.do = "migrating"]>> \o Tail(s.todo),
         t.at = s.at, t.on = s.on, t.undo = s.undo,
         \A n \in Uses(r, s.on) : n \in DOMAIN h => Steady(h, h2, n)
  PROVE  FreshInv(h2, r, t)
<1>1. s.on = SpecAt(r, s) /\ s.on \in Specs(r) /\ t.on = SpecAt(r, t)
  BY DEF FreshInv, SpecAt
<1> DEFINE plan == SpecPlan(r, s.on)
<1>0. Len(plan) \in Nat /\ DOMAIN plan = 1..Len(plan) /\ MigratesWell(plan)
  BY <1>1, PlanShape, PlansMigrate
<1>2. PICK k \in 0..Len(plan) : Follows(s.todo, plan, k) /\ \A i \in 1..k : StepDone(h, r, s, s.on, plan[i])
  BY DEF FreshInv
<1> HIDE DEF plan
<1>3. Follows(t.todo, plan, k)
  BY <1>0, <1>2, FollowsBegin
<1>4. ASSUME NEW i \in 1..k PROVE StepDone(h2, r, t, t.on, plan[i])
  <2>1. plan[i] \in Range(plan)
    BY <1>0, <1>2 DEF Range
  <2> QED BY <1>1, <1>2, <2>1, StepLasts DEF plan
<1> QED BY <1>1, <1>2, <1>3, <1>4 DEF FreshInv, plan

LEMMA SetupBegins ==
  ASSUME NEW r \in Runs, NEW h, NEW h2, NEW s, NEW t, SetupInv(h, r, s), s.phase = "setup",
         NEW S, s.todo \in Seq(S), s.todo # << >>, Head(s.todo).do = "migrate",
         t.todo = <<[Head(s.todo) EXCEPT !.do = "migrating"]>> \o Tail(s.todo),
         \A n \in {SharedDB(r), SharedKafka(r)} : n \in DOMAIN h => Lasts(h, h2, n)
  PROVE  SetupInv(h2, r, t)
<1> DEFINE plan == SetupPlan(r)
<1>0. Len(plan) \in Nat /\ DOMAIN plan = 1..Len(plan) /\ MigratesWell(plan)
  BY SetupShape, PlansMigrate
<1>1. PICK k \in 0..Len(plan) : Follows(s.todo, plan, k) /\ \A i \in 1..k : SetupDone(h, r, plan[i])
  BY DEF SetupInv
<1> HIDE DEF plan
<1>2. Follows(t.todo, plan, k)
  BY <1>0, <1>1, FollowsBegin
<1>3. ASSUME NEW i \in 1..k PROVE SetupDone(h2, r, plan[i])
  <2>1. plan[i] \in Range(plan)
    BY <1>0, <1>1 DEF Range
  <2> QED BY <1>1, <2>1, SetupLasts DEF plan
<1> QED BY <1>1, <1>2, <1>3 DEF SetupInv, plan

-----------------------------------------------------------------------------
(***************************************************************************)
(* What the invariant looks at lasts.                                      *)
(***************************************************************************)
ServingNames(r) == {SharedDB(r), SharedKafka(r)} \cup UNION {SpecNames(r, f) : f \in Specs(r)}

Unharmed(h, h2, r) == \A n \in ServingNames(r) : n \in DOMAIN h => Steady(h, h2, n)

LEMMA ServingNamesOf ==
  ASSUME NEW r \in Runs
  PROVE  /\ ServingNames(r) \subseteq NamesOf(r)
         /\ \A f \in Specs(r) : StartedBy(r, f) \subseteq ServingNames(r) /\ Uses(r, f) \subseteq ServingNames(r)
         /\ \A v : MigrateName(r, v) \notin ServingNames(r)
<1>1. ServingNames(r) \subseteq NamesOf(r)
  BY DEF ServingNames, NamesOf
<1>2. ASSUME NEW f \in Specs(r) PROVE StartedBy(r, f) \subseteq ServingNames(r) /\ Uses(r, f) \subseteq ServingNames(r)
  <2>1. StartedBy(r, f) \subseteq SpecNames(r, f) /\ Databases(r, f) \subseteq StartedBy(r, f) \cup {SharedDB(r)}
    BY StartedByPlan, PlanStarts
  <2> QED BY <2>1 DEF ServingNames, Uses
<1>3. ASSUME NEW v PROVE MigrateName(r, v) \notin ServingNames(r)
  <2>1. MigrateName(r, v)[1] = "migrate" /\ SharedDB(r)[1] = "database" /\ SharedKafka(r)[1] = "kafka"
    BY NamesTell
  <2>2. \A f : \A n \in SpecNames(r, f) : n[1] # "migrate"
    BY NamesTell
  <2> QED BY <2>1, <2>2 DEF ServingNames
<1> QED BY <1>1, <1>2, <1>3

LEMMA ReadLasts ==
  ASSUME NEW s, NEW t, AllRead(s), t.unread = s.unread \/ t.unread = {},
         \A v \in Services : t.kept[v] = None \/ t.kept[v] = s.kept[v]
  PROVE  AllRead(t)
BY DEF AllRead

LEMMA OverInv ==
  ASSUME NEW r \in Runs, NEW h, NEW t, t.phase \in {"cleanup", "done"}, AllRead(t)
  PROVE  RunInv(h, r, t)
BY DEF RunInv, SetupInv, SharedInv, FreshInv, IsFresh, KeptInv, ReusedInv, PhaseInv, OfSpecs

LEMMA SpecsCarried ==
  ASSUME NEW r \in Runs, NEW h, NEW h2, NEW s, NEW t, RunOK(r, s), SharedInv(h, r, s), KeptInv(h, r, s),
         s.phase \in OfSpecs, \A v \in Services : t.kept[v] = None \/ t.kept[v] = s.kept[v],
         \A n \in {SharedDB(r), SharedKafka(r)} : n \in DOMAIN h => Lasts(h, h2, n),
         \A v \in Services : t.kept[v] # None =>
            \A n \in SpecNames(r, t.kept[v].spec) : n \in DOMAIN h => Lasts(h, h2, n)
  PROVE  SharedInv(h2, r, t) /\ KeptInv(h2, r, t)
<1>1. KeptTyped(r, s)
  BY DEF RunOK
<1>2. ASSUME NEW v \in Services, t.kept[v] # None, NEW n \in Uses(r, t.kept[v].spec), n \in DOMAIN h
      PROVE  Lasts(h, h2, n)
  <2> DEFINE g == t.kept[v].spec
  <2>1. g \in Specs(r)
    BY <1>1, <1>2, KeptSpec
  <2>2. n \in SpecNames(r, g) \cup {SharedDB(r)}
    BY <1>2, <2>1, PlanStarts, StartedByPlan DEF Uses
  <2> QED BY <1>2, <2>2
<1> QED BY <1>1, <1>2, SharedLasts, KeptLasts

LEMMA SpecsUnharmed ==
  ASSUME NEW r \in Runs, NEW h, NEW h2, NEW s, NEW t, RunOK(r, s), SharedInv(h, r, s), KeptInv(h, r, s),
         s.phase \in OfSpecs, \A v \in Services : t.kept[v] = None \/ t.kept[v] = s.kept[v], Unharmed(h, h2, r)
  PROVE  SharedInv(h2, r, t) /\ KeptInv(h2, r, t)
<1>1. \A n \in ServingNames(r) : n \in DOMAIN h => Lasts(h, h2, n)
  BY DEF Unharmed, Steady
<1>2. ASSUME NEW v \in Services, t.kept[v] # None
      PROVE  SpecNames(r, t.kept[v].spec) \subseteq ServingNames(r)
  BY <1>2, KeptSpec DEF RunOK, ServingNames
<1> HIDE DEF Lasts
<1>3. {SharedDB(r), SharedKafka(r)} \subseteq ServingNames(r)
  BY DEF ServingNames
<1> QED BY <1>1, <1>2, <1>3, SpecsCarried

LEMMA ReusedLasts ==
  ASSUME NEW r \in Runs, NEW h, NEW h2, NEW s, RunOK(r, s), ReusedInv(h, r, s), Unharmed(h, h2, r)
  PROVE  ReusedInv(h2, r, s)
<1> SUFFICES ASSUME s.phase = "test" /\ s.todo = << >>
             PROVE  LET pc == s.kept[SpecAt(r, s).service] IN
                    /\ pc # None /\ s.on = pc.spec
                    /\ \A n \in ProxiesOf(r, s.on) \ pc.unread : n \in DOMAIN h2 /\ h2[n].serves = s.at
                    /\ "truncate" \notin Faults =>
                         \A n \in Databases(r, s.on) \ {SharedDB(r)} : n \in DOMAIN h2 /\ ~h2[n].dirty
  BY DEF ReusedInv
<1> DEFINE pc == s.kept[SpecAt(r, s).service]
<1>1. /\ pc # None /\ s.on = pc.spec
      /\ \A n \in ProxiesOf(r, s.on) \ pc.unread : n \in DOMAIN h /\ h[n].serves = s.at
      /\ "truncate" \notin Faults =>
           \A n \in Databases(r, s.on) \ {SharedDB(r)} : n \in DOMAIN h /\ ~h[n].dirty
  BY DEF ReusedInv
<1>2. SpecAt(r, s).service \in Services
  BY AtSpec DEF RunOK, StateTyped, OfASpec
<1>3. s.on \in Specs(r)
  BY <1>1, <1>2, KeptSpec DEF RunOK
<1>4. ProxiesOf(r, s.on) \subseteq ServingNames(r) /\ Databases(r, s.on) \subseteq ServingNames(r)
  BY <1>3, ServingNamesOf DEF ProxiesOf, Uses
<1> HIDE DEF pc
<1>5. \A n \in ServingNames(r) : n \in DOMAIN h =>
         n \in DOMAIN h2 /\ h2[n].serves = h[n].serves /\ (~h[n].dirty => ~h2[n].dirty)
  BY DEF Unharmed, Steady, Lasts
<1> QED BY <1>1, <1>4, <1>5 DEF pc

\* The containers of a run are left alone and so is its state.
LEMMA RunLasts ==
  ASSUME NEW r \in Runs, NEW h, NEW h2, NEW s, RunOK(r, s), RunInv(h, r, s), Unharmed(h, h2, r)
  PROVE  RunInv(h2, r, s)
<1>1. /\ SetupInv(h, r, s) /\ SharedInv(h, r, s) /\ FreshInv(h, r, s) /\ KeptInv(h, r, s)
      /\ ReusedInv(h, r, s) /\ PhaseInv(r, s) /\ AllRead(s)
  BY DEF RunInv
<1>2. \A n \in {SharedDB(r), SharedKafka(r)} : n \in DOMAIN h => Lasts(h, h2, n)
  BY DEF Unharmed, Steady, ServingNames
<1>3. SetupInv(h2, r, s)
  <2>1. CASE s.phase = "setup"
    BY <1>1, <1>2, <2>1, SetupSame
  <2>2. CASE s.phase # "setup"
    BY <2>2 DEF SetupInv
  <2> QED BY <2>1, <2>2
<1>4. SharedInv(h2, r, s) /\ KeptInv(h2, r, s)
  <2>1. CASE s.phase \in OfSpecs
    BY <1>1, <2>1, SpecsUnharmed
  <2>2. CASE s.phase \notin OfSpecs
    BY <2>2 DEF SharedInv, KeptInv
  <2> QED BY <2>1, <2>2
<1>5. FreshInv(h2, r, s)
  <2>1. CASE IsFresh(s)
    <3>1. SpecAt(r, s) \in Specs(r)
      BY <2>1, AtSpec DEF IsFresh, RunOK, StateTyped, OfASpec
    <3>2. s.on \in Specs(r)
      BY <1>1, <2>1, <3>1 DEF FreshInv
    <3>3. \A n \in Uses(r, s.on) : n \in DOMAIN h => Steady(h, h2, n)
      BY <3>2, ServingNamesOf DEF Unharmed
    <3> QED BY <1>1, <2>1, <3>1, <3>3, FreshLasts
  <2>2. CASE ~IsFresh(s)
    BY <2>2 DEF FreshInv
  <2> QED BY <2>1, <2>2
<1>6. ReusedInv(h2, r, s)
  BY <1>1, ReusedLasts
<1> QED BY <1>1, <1>3, <1>4, <1>5, <1>6 DEF RunInv

LEMMA RunSame ==
  ASSUME NEW r \in Runs, NEW h, NEW s, NEW t, RunInv(h, r, s), t.phase = s.phase, t.todo = s.todo, t.at = s.at,
         t.on = s.on, t.undo = s.undo, t.kept = s.kept, t.unread = s.unread
  PROVE  RunInv(h, r, t)
<1>1. SpecAt(r, t) = SpecAt(r, s)
  BY DEF SpecAt
<1>2. SetupInv(h, r, t) /\ SharedInv(h, r, t) /\ KeptInv(h, r, t) /\ AllRead(t) /\ PhaseInv(r, t) /\ ReusedInv(h, r, t)
  BY <1>1 DEF RunInv, SetupInv, SharedInv, KeptInv, AllRead, PhaseInv, ReusedInv
<1>3. FreshInv(h, r, t)
  BY <1>1 DEF RunInv, FreshInv, IsFresh, StepDone
<1> QED BY <1>2, <1>3 DEF RunInv

LEMMA AbortInv ==
  ASSUME NEW r \in Runs, NEW h, NEW h2, NEW s, NEW t, RunOK(r, s), RunInv(h, r, s), s.phase \in {"setup", "fresh"},
         Unharmed(h, h2, r), t.phase = (IF s.phase = "setup" THEN "cleanup" ELSE "unwind"), t.at = s.at,
         t.kept = s.kept, t.unread = s.unread
  PROVE  RunInv(h2, r, t)
<1>1. AllRead(t)
  BY ReadLasts DEF RunInv
<1>2. CASE s.phase = "setup"
  BY <1>1, <1>2, OverInv
<1>3. CASE s.phase = "fresh"
  <2>1. SharedInv(h2, r, t) /\ KeptInv(h2, r, t)
    BY <1>3, SpecsUnharmed DEF RunInv, OfSpecs
  <2>2. s.kept[SpecAt(r, s).service] = None
    BY <1>3 DEF RunOK, KeptTyped
  <2>3. PhaseInv(r, t)
    BY <1>3, <2>2 DEF PhaseInv, SpecAt
  <2>4. SetupInv(h2, r, t) /\ FreshInv(h2, r, t) /\ ReusedInv(h2, r, t)
    BY <1>3 DEF SetupInv, FreshInv, IsFresh, ReusedInv
  <2> QED BY <1>1, <2>1, <2>3, <2>4 DEF RunInv
<1> QED BY <1>2, <1>3

LEMMA Untouched ==
  ASSUME NEW r \in Runs, NEW h
  PROVE  Unharmed(h, h, r)
BY DEF Unharmed, Steady, Lasts

-----------------------------------------------------------------------------
(***************************************************************************)
(* The steps of a run.                                                     *)
(***************************************************************************)
Others(r) == \A n \in DOMAIN containers : n \notin NamesOf(r) => Steady(containers, containers', n)

StillRuns(r) == RunInv(containers', r, run'[r]) /\ Others(r)

LEMMA NobodyTouched ==
  ASSUME NEW r \in Runs, containers' = containers
  PROVE  Others(r)
BY DEF Others, Steady, Lasts

LEMMA CreateNetworkRuns ==
  ASSUME RunsOK, NEW r \in Runs, RunInv(containers, r, run[r]), CreateNetwork(r)
  PROVE  StillRuns(r)
<1> DEFINE s == run[r]
           t == run'[r]
<1>1. containers' = containers /\ s.phase = "new" /\ RunOK(r, s)
  BY DEF CreateNetwork, RunsOK
<1>2. \/ run' = [run EXCEPT ![r].phase = "setup", ![r].network = TRUE, ![r].todo = SetupPlan(r)]
      \/ run' = [run EXCEPT ![r].phase = "cleanup"]
  BY DEF CreateNetwork, Goes
<1>3. /\ t.kept = s.kept /\ t.unread = s.unread
      /\ t.phase = "cleanup" \/ (t.phase = "setup" /\ t.todo = SetupPlan(r))
  BY <1>1, <1>2 DEF RunsOK, RunOK, StateTyped, NewRun
<1> HIDE DEF t
<1>4. AllRead(t)
  BY <1>3, ReadLasts DEF RunInv
<1>5. ASSUME t.phase = "cleanup" PROVE RunInv(containers', r, t)
  BY <1>4, <1>5, OverInv
<1>6. ASSUME t.phase = "setup" /\ t.todo = SetupPlan(r) PROVE RunInv(containers', r, t)
  <2>1. SetupInv(containers', r, t)
    <3>1. Follows(t.todo, SetupPlan(r), 0) /\ 0 \in 0..Len(SetupPlan(r))
      BY <1>6, SetupShape, FollowsNone
    <3> QED BY <3>1 DEF SetupInv
  <2>2. PhaseInv(r, t)
    BY <1>1, <1>3, <1>6 DEF RunInv, PhaseInv
  <2>3. /\ SharedInv(containers', r, t) /\ FreshInv(containers', r, t) /\ KeptInv(containers', r, t)
        /\ ReusedInv(containers', r, t)
    BY <1>6 DEF SharedInv, FreshInv, IsFresh, KeptInv, ReusedInv, OfSpecs
  <2> QED BY <1>4, <2>1, <2>2, <2>3 DEF RunInv
<1> QED BY <1>1, <1>3, <1>5, <1>6, NobodyTouched DEF StillRuns, t

LEMMA FailsRuns ==
  ASSUME RunsOK, NEW r \in Runs, RunInv(containers, r, run[r]), Fails(r)
  PROVE  StillRuns(r)
<1> DEFINE s == run[r]
           t == Abort(r, s)
<1>1. containers' = containers /\ s.phase \in {"setup", "fresh"} /\ RunOK(r, s) /\ run'[r] = t
  BY DEF Fails, RunsOK
<1>2. t.phase = (IF s.phase = "setup" THEN "cleanup" ELSE "unwind") /\ t.at = s.at /\ t.kept = s.kept /\ t.unread = s.unread
  BY <1>1 DEF Abort, RunOK, StateTyped, NewRun
<1> QED BY <1>1, <1>2, AbortInv, Untouched, NobodyTouched DEF StillRuns

\* Staying in the setup.
LEMMA SetupOnly ==
  ASSUME NEW r \in Runs, NEW h, NEW h2, NEW s, NEW t, RunInv(h, r, s), s.phase = "setup", t.phase = "setup",
         SetupInv(h2, r, t), t.kept = s.kept, t.unread = s.unread
  PROVE  RunInv(h2, r, t)
<1>1. AllRead(t)
  BY ReadLasts DEF RunInv
<1>2. PhaseInv(r, t)
  BY DEF RunInv, PhaseInv
<1>3. SharedInv(h2, r, t) /\ FreshInv(h2, r, t) /\ KeptInv(h2, r, t) /\ ReusedInv(h2, r, t)
  BY DEF SharedInv, FreshInv, IsFresh, KeptInv, ReusedInv, OfSpecs
<1> QED BY <1>1, <1>2, <1>3 DEF RunInv

\* Staying on the way to the test of fresh containers.
LEMMA FreshOnly ==
  ASSUME NEW r \in Runs, NEW h, NEW h2, NEW s, NEW t, RunOK(r, s), RunInv(h, r, s), s.phase = "fresh",
         t.phase = "fresh", FreshInv(h2, r, t), t.kept = s.kept, AllRead(t), Unharmed(h, h2, r)
  PROVE  RunInv(h2, r, t)
<1>1. SharedInv(h2, r, t) /\ KeptInv(h2, r, t)
  BY SpecsUnharmed DEF RunInv, OfSpecs
<1>2. PhaseInv(r, t)
  BY DEF PhaseInv
<1>3. SetupInv(h2, r, t) /\ ReusedInv(h2, r, t)
  BY DEF SetupInv, ReusedInv
<1> QED BY <1>1, <1>2, <1>3 DEF RunInv

\* Where a fresh spec is, before its next step.
LEMMA FreshHere ==
  ASSUME NEW r \in Runs, NEW h, NEW s, RunOK(r, s), RunInv(h, r, s), IsFresh(s)
  PROVE  /\ FreshInv(h, r, s) /\ SpecAt(r, s) \in Specs(r) /\ s.on = SpecAt(r, s) /\ s.on \in Specs(r)
         /\ s.todo \in Seq(FreshSteps(r, SpecAt(r, s)))
         /\ \A h2 : Unharmed(h, h2, r) => \A n \in Uses(r, s.on) : n \in DOMAIN h => Steady(h, h2, n)
<1>1. SpecAt(r, s) \in Specs(r)
  BY AtSpec DEF IsFresh, RunOK, StateTyped, OfASpec
<1>2. FreshInv(h, r, s) /\ s.on = SpecAt(r, s)
  BY DEF RunInv, FreshInv
<1>3. s.todo \in Seq(FreshSteps(r, SpecAt(r, s)))
  BY DEF IsFresh, RunOK, PlanTyped
<1>4. Uses(r, s.on) \subseteq ServingNames(r)
  BY <1>1, <1>2, ServingNamesOf
<1> QED BY <1>1, <1>2, <1>3, <1>4 DEF Unharmed

LEMMA FetchSchemaRuns ==
  ASSUME RunsOK, NEW r \in Runs, RunInv(containers, r, run[r]), FetchSchema(r)
  PROVE  StillRuns(r)
<1> DEFINE s == run[r]
<1>1. RunOK(r, s) /\ containers' = containers /\ s.todo # << >> /\ Head(s.todo).do = "schema" /\ Doing(r, "schema")
  BY DEF RunsOK, FetchSchema, Doing
<1>2. s.phase = "setup"
  <2>1. s.phase = "setup" \/ (s.phase = "fresh" /\ Head(s.todo) \in FreshSteps(r, SpecAt(r, s)))
    BY <1>1, DoingPhase
  <2>2. Head(s.todo) \notin FreshSteps(r, SpecAt(r, s))
    BY <1>1 DEF FreshSteps, SpecSteps, SpecStarts, Migrations
  <2> QED BY <2>1, <2>2
<1>3. PICK schema : run' = [run EXCEPT ![r] = [Advance(s) EXCEPT !.schema = schema]]
  <2>1. [Advance(s) EXCEPT !.schema = Advance(s).schema] = Advance(s)
    BY DEF Advance
  <2> QED BY <2>1 DEF FetchSchema
<1> DEFINE t == [Advance(s) EXCEPT !.schema = schema]
<1>4. t.phase = "setup" /\ t.todo = Tail(s.todo) /\ t.kept = s.kept /\ t.unread = s.unread
  BY <1>1, <1>2 DEF Advance, RunOK, StateTyped, NewRun
<1>5. run'[r] = t
  BY <1>3 DEF RunsOK
<1> HIDE DEF t
<1>6. s.todo \in Seq(SetupSteps(r))
  BY <1>1, <1>2 DEF RunOK, PlanTyped
<1>7. \A n \in {SharedDB(r), SharedKafka(r)} : n \in DOMAIN containers => Lasts(containers, containers', n)
  BY <1>1 DEF Lasts
<1>8. \A step : IsNow(Head(s.todo), step) => SetupDone(containers', r, step)
  BY <1>1 DEF IsNow, SetupDone
<1>9. SetupInv(containers', r, t)
  BY <1>1, <1>2, <1>4, <1>6, <1>7, <1>8, SetupAdvance DEF RunInv
<1>10. RunInv(containers', r, t)
  BY <1>2, <1>4, <1>9, SetupOnly
<1> QED BY <1>1, <1>5, <1>10, NobodyTouched DEF StillRuns

LEMMA EndSetupRuns ==
  ASSUME RunsOK, NEW r \in Runs, RunInv(containers, r, run[r]), EndSetup(r)
  PROVE  StillRuns(r)
<1> DEFINE s == run[r]
           t == [s EXCEPT !.phase = "next", !.todo = << >>]
           plan == SetupPlan(r)
<1>1. RunOK(r, s) /\ containers' = containers /\ s.todo # << >> /\ Head(s.todo).do = "specs" /\ Doing(r, "specs")
  BY DEF RunsOK, EndSetup, Doing
<1>2. s.phase = "setup" /\ s.todo \in Seq(SetupSteps(r))
  BY <1>1, DoingPhase DEF RunOK, PlanTyped
<1>3. run'[r] = t
  BY DEF EndSetup, RunsOK
<1>4. t.phase = "next" /\ t.kept = s.kept /\ t.unread = s.unread
  BY <1>1 DEF RunOK, StateTyped, NewRun
<1> HIDE DEF t
<1>5. /\ Len(plan) \in Nat /\ Len(plan) > 0 /\ DOMAIN plan = 1..Len(plan) /\ MigratesWell(plan)
      /\ plan[Len(plan)] = Does("specs") /\ \A i \in 1..(Len(plan) - 1) : plan[i].do # "specs"
  BY SetupShape, PlansMigrate
<1>6. PICK k \in 0..Len(plan) : Follows(s.todo, plan, k) /\ \A i \in 1..k : SetupDone(containers, r, plan[i])
  BY <1>2 DEF RunInv, SetupInv
<1> HIDE DEF plan
<1>7. k + 1 \in 1..Len(plan) /\ IsNow(Head(s.todo), plan[k + 1])
  BY <1>1, <1>2, <1>5, <1>6, FollowsTail
<1>8. plan[k + 1].do = "specs"
  BY <1>1, <1>7 DEF IsNow
<1>9. k + 1 = Len(plan)
  BY <1>5, <1>7, <1>8
<1>10. ASSUME NEW step \in Range(plan) PROVE SetupDone(containers', r, step)
  <2>1. PICK i \in 1..Len(plan) : step = plan[i]
    BY <1>5, <1>10 DEF Range
  <2>2. CASE i = Len(plan)
    BY <1>5, <2>1, <2>2 DEF SetupDone, Does
  <2>3. CASE i # Len(plan)
    <3>1. i \in 1..k
      BY <1>9, <2>3, <1>6
    <3> QED BY <1>1, <1>6, <2>1, <3>1
  <2> QED BY <2>2, <2>3
<1>11. SharedInv(containers', r, t)
  BY <1>10 DEF SharedInv, plan
<1>12. \A v \in Services : t.kept[v] = None
  BY <1>2, <1>4 DEF RunInv, PhaseInv
<1>13. KeptInv(containers', r, t)
  BY <1>12 DEF KeptInv
<1>14. SetupInv(containers', r, t) /\ FreshInv(containers', r, t) /\ ReusedInv(containers', r, t) /\ PhaseInv(r, t)
  BY <1>4 DEF SetupInv, FreshInv, IsFresh, ReusedInv, PhaseInv
<1>15. AllRead(t)
  BY <1>4, ReadLasts DEF RunInv
<1> QED BY <1>1, <1>3, <1>11, <1>13, <1>14, <1>15, NobodyTouched DEF StillRuns, RunInv

\* Between two specs.
LEMMA NextOnly ==
  ASSUME NEW r \in Runs, NEW h, NEW h2, NEW s, NEW t, RunOK(r, s), RunInv(h, r, s), s.phase \in OfSpecs,
         t.phase = "next", t.kept = s.kept, t.unread = s.unread, Unharmed(h, h2, r)
  PROVE  RunInv(h2, r, t)
<1>1. SharedInv(h2, r, t) /\ KeptInv(h2, r, t)
  BY SpecsUnharmed DEF RunInv
<1>2. SetupInv(h2, r, t) /\ FreshInv(h2, r, t) /\ ReusedInv(h2, r, t) /\ PhaseInv(r, t)
  BY DEF SetupInv, FreshInv, IsFresh, ReusedInv, PhaseInv
<1>3. AllRead(t)
  BY ReadLasts DEF RunInv
<1> QED BY <1>1, <1>2, <1>3 DEF RunInv

LEMMA NextSpecUnreadableRuns ==
  ASSUME RunsOK, NEW r \in Runs, RunInv(containers, r, run[r]), NextSpecUnreadable(r)
  PROVE  StillRuns(r)
<1> DEFINE s == run[r]
           t == [s EXCEPT !.at = @ + 1, !.failed = @ \cup {s.at + 1}]
<1>1. RunOK(r, s) /\ containers' = containers /\ s.phase = "next" /\ run'[r] = t
  BY DEF RunsOK, NextSpecUnreadable
<1>2. t.phase = "next" /\ t.kept = s.kept /\ t.unread = s.unread
  BY <1>1 DEF RunOK, StateTyped, NewRun
<1> HIDE DEF t
<1>3. RunInv(containers', r, t)
  BY <1>1, <1>2, Untouched, NextOnly DEF OfSpecs
<1> QED BY <1>1, <1>3, NobodyTouched DEF StillRuns

LEMMA InspectProxiesRuns ==
  ASSUME RunsOK, NEW r \in Runs, RunInv(containers, r, run[r]), InspectProxies(r)
  PROVE  StillRuns(r)
<1> DEFINE s == run[r]
<1>1. RunOK(r, s) /\ containers' = containers /\ s.todo # << >> /\ Head(s.todo).do = "inspect" /\ Doing(r, "inspect")
  BY DEF RunsOK, InspectProxies, Doing
<1>2. s.phase = "fresh"
  BY <1>1, DoingPhase
<1>3. PICK unread : /\ run' = [run EXCEPT ![r] = [Advance(s) EXCEPT !.unread = unread]]
                    /\ unread = s.unread \/ "inspect" \in Faults
  <2>1. [Advance(s) EXCEPT !.unread = s.unread] = Advance(s)
    BY <1>1 DEF Advance, RunOK, StateTyped, NewRun
  <2> QED BY <2>1 DEF InspectProxies, Fault
<1> DEFINE t == [Advance(s) EXCEPT !.unread = unread]
<1>4. /\ t.phase = "fresh" /\ t.todo = Tail(s.todo) /\ t.kept = s.kept /\ t.unread = unread
      /\ t.at = s.at /\ t.on = s.on /\ t.undo = s.undo
  BY <1>1, <1>2 DEF Advance, RunOK, StateTyped, NewRun
<1>5. run'[r] = t
  BY <1>3 DEF RunsOK
<1> HIDE DEF t
<1>6. AllRead(t)
  BY <1>3, <1>4 DEF RunInv, AllRead
<1>7. /\ FreshInv(containers, r, s) /\ IsFresh(s) /\ SpecAt(r, s) \in Specs(r)
      /\ s.todo \in Seq(FreshSteps(r, SpecAt(r, s)))
      /\ \A n \in Uses(r, s.on) : n \in DOMAIN containers => Steady(containers, containers, n)
  BY <1>1, <1>2, FreshHere, Untouched DEF IsFresh
<1>8. \A step : IsNow(Head(s.todo), step) => StepDone(containers, r, t, s.on, step)
  BY <1>1 DEF IsNow, StepDone
<1>9. FreshInv(containers, r, t)
  BY <1>1, <1>4, <1>7, <1>8, FreshAdvance
<1>10. RunInv(containers', r, t)
  BY <1>1, <1>2, <1>4, <1>6, <1>9, FreshOnly, Untouched
<1> QED BY <1>1, <1>5, <1>10, NobodyTouched DEF StillRuns

LEMMA BeginTestRuns ==
  ASSUME RunsOK, NEW r \in Runs, RunInv(containers, r, run[r]), BeginTest(r)
  PROVE  StillRuns(r)
<1> DEFINE s == run[r]
           t == [s EXCEPT !.phase = "test"]
<1>1. RunOK(r, s) /\ containers' = containers /\ s.phase = "fresh" /\ s.todo # << >> /\ run'[r] = t
  BY DEF RunsOK, BeginTest, Doing
<1>2. /\ t.phase = "test" /\ t.todo = s.todo /\ t.kept = s.kept /\ t.unread = s.unread
      /\ t.at = s.at /\ t.on = s.on /\ t.undo = s.undo
  BY <1>1 DEF RunOK, StateTyped, NewRun
<1> HIDE DEF t
<1>3. /\ FreshInv(containers, r, s) /\ IsFresh(s) /\ SpecAt(r, s) \in Specs(r)
      /\ \A n \in Uses(r, s.on) : n \in DOMAIN containers => Steady(containers, containers, n)
  BY <1>1, FreshHere, Untouched DEF IsFresh
<1>4. FreshInv(containers', r, t)
  BY <1>1, <1>2, <1>3, FreshLasts
<1>5. SharedInv(containers', r, t) /\ KeptInv(containers', r, t)
  BY <1>1, <1>2, SpecsUnharmed, Untouched DEF RunInv, OfSpecs
<1>6. SetupInv(containers', r, t) /\ ReusedInv(containers', r, t) /\ PhaseInv(r, t)
  BY <1>1, <1>2 DEF SetupInv, ReusedInv, PhaseInv
<1>7. AllRead(t)
  BY <1>2, ReadLasts DEF RunInv
<1> QED BY <1>1, <1>4, <1>5, <1>6, <1>7, NobodyTouched DEF StillRuns, RunInv

LEMMA InterruptRuns ==
  ASSUME RunsOK, NEW r \in Runs, RunInv(containers, r, run[r]), Interrupt(r)
  PROVE  StillRuns(r)
<1> DEFINE s == run[r]
           t == [s EXCEPT !.cancelled = TRUE]
<1>1. RunOK(r, s) /\ containers' = containers /\ run'[r] = t
  BY DEF RunsOK, Interrupt
<1>2. /\ t.phase = s.phase /\ t.todo = s.todo /\ t.kept = s.kept /\ t.unread = s.unread
      /\ t.at = s.at /\ t.on = s.on /\ t.undo = s.undo
  BY <1>1 DEF RunOK, StateTyped, NewRun
<1> HIDE DEF t
<1> QED BY <1>1, <1>2, RunSame, NobodyTouched DEF StillRuns

LEMMA RemoveNetworkRuns ==
  ASSUME RunsOK, NEW r \in Runs, RunInv(containers, r, run[r]), removeNetworkWithRetry(r)
  PROVE  StillRuns(r)
<1> DEFINE s == run[r]
           t == run'[r]
<1>1. RunOK(r, s) /\ containers' = containers /\ s.phase = "cleanup"
  BY DEF RunsOK, removeNetworkWithRetry
<1>2. \/ run' = [run EXCEPT ![r].phase = "done"]
      \/ run' = [run EXCEPT ![r].tries = @ + 1]
  BY DEF removeNetworkWithRetry, Goes
<1>3. t.kept = s.kept /\ t.unread = s.unread /\ t.phase \in {"cleanup", "done"}
  BY <1>1, <1>2 DEF RunsOK, RunOK, StateTyped, NewRun
<1> HIDE DEF t
<1>4. AllRead(t)
  BY <1>3, ReadLasts DEF RunInv
<1> QED BY <1>1, <1>3, <1>4, OverInv, NobodyTouched DEF StillRuns, t

\* A container is added under a name nobody has.
LEMMA NewOne ==
  ASSUME NEW r \in Runs, NEW name, ~Exists(name), NEW x, containers' = With(containers, name, x)
  PROVE  /\ Unharmed(containers, containers', r) /\ Others(r)
         /\ name \in DOMAIN containers' /\ containers'[name] = x
<1>1. /\ DOMAIN containers' = DOMAIN containers \cup {name} /\ containers'[name] = x
      /\ \A n \in DOMAIN containers : n # name /\ containers'[n] = containers[n]
  BY DEF With, Exists
<1> QED BY <1>1 DEF Unharmed, Others, Steady, Lasts

LEMMA StartContainerRuns ==
  ASSUME RunsOK, NEW r \in Runs, RunInv(containers, r, run[r]), StartContainer(r)
  PROVE  StillRuns(r)
<1> DEFINE s == run[r]
           step == Head(s.todo)
           a == Tracked(s, step)
           b == Guarded(a, step)
           h2 == containers'
<1>1. /\ RunOK(r, s) /\ Doing(r, "start") /\ step.do = "start" /\ s.todo # << >>
      /\ s.phase \in {"setup", "fresh"}
  BY DEF RunsOK, StartContainer, Doing
<1>2. /\ s.phase = "setup" => step.shared = TRUE
      /\ s.phase = "fresh" => step.shared = FALSE /\ step.name \in StartedBy(r, SpecAt(r, s))
  BY <1>1, StartStep
<1>3. /\ a.phase = s.phase /\ a.at = s.at /\ a.kept = s.kept /\ a.unread = s.unread
      /\ b.phase = s.phase /\ b.at = s.at /\ b.kept = s.kept /\ b.unread = s.unread /\ b.todo = s.todo /\ b.on = s.on
      /\ s.phase = "fresh" => b.undo = Append(s.undo, step.name)
      /\ DOMAIN a = DOMAIN s /\ DOMAIN b = DOMAIN s
  <2>1. CASE s.phase = "setup"
    <3>1. a = [s EXCEPT !.owned = Append(@, step.name)] /\ b = a
      BY <1>2, <2>1 DEF Tracked, Guarded
    <3> QED BY <1>1, <2>1, <3>1 DEF RunOK, StateTyped, NewRun
  <2>2. CASE s.phase = "fresh"
    <3>1. a = s /\ b = [s EXCEPT !.undo = Append(@, step.name)]
      BY <1>2, <2>2 DEF Tracked, Guarded
    <3> QED BY <1>1, <2>2, <3>1 DEF RunOK, StateTyped, NewRun
  <2> QED BY <1>1, <2>1, <2>2
<1>4. \/ /\ ~Exists(step.name) /\ containers' = With(containers, step.name, NewContainer(r, TRUE, step.aliases))
         /\ run'[r] = Advance(b)
      \/ containers' = containers /\ run'[r] = Abort(r, a)
      \/ /\ ~Exists(step.name) /\ containers' = With(containers, step.name, NewContainer(r, FALSE, step.aliases))
         /\ run'[r] = [Abort(r, a) EXCEPT !.lost = IF step.shared THEN @ ELSE @ \cup {step.name}]
  BY DEF StartContainer, RunsOK
<1>5. DOMAIN NewRun \subseteq DOMAIN a /\ DOMAIN NewRun \subseteq DOMAIN b
  BY <1>1, <1>3 DEF RunOK, StateTyped
<1> HIDE DEF a, b, step
<1>6. CASE /\ ~Exists(step.name) /\ containers' = With(containers, step.name, NewContainer(r, TRUE, step.aliases))
           /\ run'[r] = Advance(b)
  <2> DEFINE t == Advance(b)
  <2>1. /\ t.phase = s.phase /\ t.todo = Tail(s.todo) /\ t.at = s.at /\ t.kept = s.kept /\ t.unread = s.unread
        /\ t.on = s.on
        /\ s.phase = "fresh" => t.undo = Append(s.undo, step.name)
    BY <1>3, <1>5 DEF Advance, NewRun
  <2> HIDE DEF t
  <2>2. /\ Unharmed(containers, h2, r) /\ Others(r)
        /\ step.name \in DOMAIN h2 /\ h2[step.name] = NewContainer(r, TRUE, step.aliases)
    BY <1>6, NewOne
  <2>3. Runs1(h2, r, step) /\ ~h2[step.name].dirty /\ h2[step.name].serves = s.at
    BY <2>2 DEF Runs1, NewContainer
  <2>4. \A now : IsNow(step, now) => now = step
    BY <1>1 DEF IsNow, step
  <2>5. CASE s.phase = "setup"
    <3>1. \A n \in {SharedDB(r), SharedKafka(r)} : n \in DOMAIN containers => Lasts(containers, h2, n)
      BY <2>2 DEF Unharmed, Steady, ServingNames
    <3>2. SetupDone(h2, r, step)
      BY <1>1, <2>3 DEF SetupDone, step
    <3>3. s.todo \in Seq(SetupSteps(r))
      BY <1>1, <2>5 DEF RunOK, PlanTyped
    <3>4. SetupInv(h2, r, t)
      BY <1>1, <2>1, <2>4, <2>5, <3>1, <3>2, <3>3, SetupAdvance DEF RunInv, step
    <3>5. RunInv(h2, r, t)
      BY <2>1, <2>5, <3>4, SetupOnly
    <3> QED BY <1>6, <2>2, <3>5 DEF StillRuns, t
  <2>6. CASE s.phase = "fresh"
    <3>1. /\ FreshInv(containers, r, s) /\ IsFresh(s) /\ SpecAt(r, s) \in Specs(r)
          /\ s.todo \in Seq(FreshSteps(r, SpecAt(r, s)))
          /\ \A n \in Uses(r, s.on) : n \in DOMAIN containers => Steady(containers, h2, n)
      BY <1>1, <2>2, <2>6, FreshHere DEF IsFresh
    <3>2. Range(t.undo) = Range(s.undo) \cup {step.name}
      <4>1. s.undo \in Seq(StartedBy(r, SpecAt(r, s))) /\ step.name \in StartedBy(r, SpecAt(r, s))
        BY <1>1, <1>2, <2>6 DEF RunOK, GuardsTyped
      <4>2. t.undo = Append(s.undo, step.name)
        BY <2>1, <2>6
      <4> QED BY <4>1, <4>2, Appended
    <3>3. StepDone(h2, r, t, s.on, step)
      BY <1>1, <2>1, <2>3, <3>2 DEF StepDone, step
    <3>4. FreshInv(h2, r, t)
      BY <1>1, <2>1, <2>4, <3>1, <3>2, <3>3, FreshAdvance DEF step
    <3>5. AllRead(t)
      BY <2>1, ReadLasts DEF RunInv
    <3>6. RunInv(h2, r, t)
      BY <1>1, <2>1, <2>2, <2>6, <3>4, <3>5, FreshOnly
    <3> QED BY <1>6, <2>2, <3>6 DEF StillRuns, t
  <2> QED BY <1>1, <2>5, <2>6
<1>7. CASE containers' = containers /\ run'[r] = Abort(r, a)
  <2> DEFINE t == Abort(r, a)
  <2>1. t.phase = (IF s.phase = "setup" THEN "cleanup" ELSE "unwind") /\ t.at = s.at /\ t.kept = s.kept /\ t.unread = s.unread
    BY <1>3, <1>5 DEF Abort, NewRun
  <2> HIDE DEF t
  <2>2. RunInv(h2, r, t)
    BY <1>1, <1>7, <2>1, Untouched, AbortInv
  <2> QED BY <1>7, <2>2, NobodyTouched DEF StillRuns, t
<1>8. CASE /\ ~Exists(step.name) /\ containers' = With(containers, step.name, NewContainer(r, FALSE, step.aliases))
           /\ run'[r] = [Abort(r, a) EXCEPT !.lost = IF step.shared THEN @ ELSE @ \cup {step.name}]
  <2> DEFINE t == [Abort(r, a) EXCEPT !.lost = IF step.shared THEN @ ELSE @ \cup {step.name}]
  <2>1. t.phase = (IF s.phase = "setup" THEN "cleanup" ELSE "unwind") /\ t.at = s.at /\ t.kept = s.kept /\ t.unread = s.unread
    BY <1>3, <1>5 DEF Abort, NewRun
  <2> HIDE DEF t
  <2>2. Unharmed(containers, h2, r) /\ Others(r)
    BY <1>8, NewOne
  <2>3. RunInv(h2, r, t)
    BY <1>1, <2>1, <2>2, AbortInv
  <2> QED BY <1>8, <2>2, <2>3 DEF StillRuns, t
<1> QED BY <1>4, <1>6, <1>7, <1>8

LEMMA BeginMigrationRuns ==
  ASSUME RunsOK, NEW r \in Runs, RunInv(containers, r, run[r]), BeginMigration(r)
  PROVE  StillRuns(r)
<1> DEFINE s == run[r]
           name == MigrateName(r, Head(s.todo).service)
           t == [s EXCEPT !.todo = <<[Head(@) EXCEPT !.do = "migrating"]>> \o Tail(@)]
           h2 == containers'
<1>1. RunOK(r, s) /\ Doing(r, "migrate") /\ Head(s.todo).do = "migrate" /\ s.todo # << >>
  BY DEF RunsOK, BeginMigration, Doing
<1>2. s.phase \in {"setup", "fresh"} /\ Head(s.todo).service \in Services
  BY <1>1, DoingPhase
<1>3. run'[r] = t /\ h2 = With(containers, name, NewContainer(r, TRUE, {}))
  BY DEF RunsOK, BeginMigration
<1>4. name \in NamesOf(r) /\ name \notin ServingNames(r)
  BY <1>2, ServingNamesOf DEF NamesOf
<1>5. \A n \in DOMAIN containers : n # name => n \in DOMAIN h2 /\ h2[n] = containers[n]
  BY <1>3 DEF With
<1>6. Unharmed(containers, h2, r) /\ Others(r)
  BY <1>4, <1>5 DEF Unharmed, Others, Steady, Lasts
<1>7. /\ t.phase = s.phase /\ t.todo = <<[Head(s.todo) EXCEPT !.do = "migrating"]>> \o Tail(s.todo)
      /\ t.at = s.at /\ t.kept = s.kept /\ t.unread = s.unread /\ t.on = s.on /\ t.undo = s.undo
  BY <1>1 DEF RunOK, StateTyped, NewRun
<1> HIDE DEF t, name, h2
<1>8. CASE s.phase = "setup"
  <2>1. \A n \in {SharedDB(r), SharedKafka(r)} : n \in DOMAIN containers => Lasts(containers, h2, n)
    BY <1>6 DEF Unharmed, Steady, ServingNames
  <2>2. s.todo \in Seq(SetupSteps(r))
    BY <1>1, <1>8 DEF RunOK, PlanTyped
  <2>3. SetupInv(h2, r, t)
    BY <1>1, <1>7, <1>8, <2>1, <2>2, SetupBegins DEF RunInv
  <2>4. RunInv(h2, r, t)
    BY <1>7, <1>8, <2>3, SetupOnly
  <2> QED BY <1>3, <1>6, <2>4 DEF StillRuns, h2
<1>9. CASE s.phase = "fresh"
  <2>1. /\ FreshInv(containers, r, s) /\ IsFresh(s) /\ SpecAt(r, s) \in Specs(r)
        /\ s.todo \in Seq(FreshSteps(r, SpecAt(r, s)))
        /\ \A n \in Uses(r, s.on) : n \in DOMAIN containers => Steady(containers, h2, n)
    BY <1>1, <1>6, <1>9, FreshHere DEF IsFresh
  <2>2. FreshInv(h2, r, t)
    BY <1>1, <1>7, <2>1, FreshBegins
  <2>3. AllRead(t)
    BY <1>7, ReadLasts DEF RunInv
  <2>4. RunInv(h2, r, t)
    BY <1>1, <1>6, <1>7, <1>9, <2>2, <2>3, FreshOnly
  <2> QED BY <1>3, <1>6, <2>4 DEF StillRuns, h2
<1> QED BY <1>2, <1>8, <1>9

\* The schema the source tree gives is one.
TreeOK == tree \in [tables : Nat, columns : Nat]

LEMMA EndMigrationRuns ==
  ASSUME RunsOK, HostOK, TreeOK, NEW r \in Runs, RunInv(containers, r, run[r]), EndMigration(r)
  PROVE  StillRuns(r)
<1> DEFINE s == run[r]
           v == Head(s.todo).service
           name == MigrateName(r, v)
           after == Without(containers, {name})
           h2 == containers'
           by == MigratedBy(r, v)
<1>1. RunOK(r, s) /\ Doing(r, "migrating") /\ Head(s.todo).do = "migrating" /\ s.todo # << >>
  BY DEF RunsOK, EndMigration, Doing
<1>2. s.phase \in {"setup", "fresh"} /\ v \in Services
  BY <1>1, DoingPhase
<1>3. tree # None
  BY NoneAssumption DEF TreeOK
<1>4. \/ /\ \A n \in by : Up(n)
         /\ h2 = [n \in DOMAIN after |-> IF n \in by THEN [after[n] EXCEPT !.schema = tree] ELSE after[n]]
         /\ run'[r] = Advance(s)
      \/ h2 = after /\ run'[r] = Abort(r, s)
  BY DEF EndMigration, RunsOK
<1>5. name \in NamesOf(r) /\ name \notin ServingNames(r)
  BY <1>2, ServingNamesOf DEF NamesOf
<1>6. DOMAIN after = DOMAIN containers \ {name} /\ \A n \in DOMAIN after : after[n] = containers[n]
  BY DEF Without
<1>7. \A n \in DOMAIN containers : "schema" \in DOMAIN containers[n]
  BY DEF HostOK
<1> HIDE DEF name, by, after
<1>8. \A n \in DOMAIN containers : n # name => Steady(containers, h2, n)
  <2>1. SUFFICES ASSUME NEW n \in DOMAIN containers, n # name
                 PROVE  Steady(containers, h2, n)
    OBVIOUS
  <2>2. h2[n] = containers[n] \/ h2[n] = [containers[n] EXCEPT !.schema = tree]
    BY <1>4, <1>6, <2>1
  <2>3. n \in DOMAIN h2
    BY <1>4, <1>6, <2>1
  <2> HIDE DEF h2
  <2>4. CASE h2[n] = containers[n]
    BY <2>3, <2>4 DEF Steady, Lasts
  <2>5. CASE h2[n] = [containers[n] EXCEPT !.schema = tree]
    <3>1. h2[n].schema = tree
      BY <1>7, <2>1, <2>5
    <3>2. /\ h2[n].owner = containers[n].owner /\ h2[n].up = containers[n].up /\ h2[n].aliases = containers[n].aliases
          /\ h2[n].dirty = containers[n].dirty /\ h2[n].serves = containers[n].serves
      BY <2>1, <2>5 DEF HostOK
    <3> QED BY <1>3, <2>3, <3>1, <3>2 DEF Steady, Lasts
  <2> QED BY <2>2, <2>4, <2>5
<1>9. Unharmed(containers, h2, r) /\ Others(r)
  BY <1>5, <1>8 DEF Unharmed, Others
<1>10. CASE h2 = after /\ run'[r] = Abort(r, s)
  <2> DEFINE t == Abort(r, s)
  <2>1. t.phase = (IF s.phase = "setup" THEN "cleanup" ELSE "unwind") /\ t.at = s.at /\ t.kept = s.kept /\ t.unread = s.unread
    BY <1>1 DEF Abort, RunOK, StateTyped, NewRun
  <2> HIDE DEF t
  <2>2. RunInv(h2, r, t)
    BY <1>1, <1>2, <1>9, <2>1, AbortInv
  <2> QED BY <1>9, <1>10, <2>2 DEF StillRuns, t
<1>11. CASE /\ \A n \in by : Up(n)
            /\ h2 = [n \in DOMAIN after |-> IF n \in by THEN [after[n] EXCEPT !.schema = tree] ELSE after[n]]
            /\ run'[r] = Advance(s)
  <2> DEFINE t == Advance(s)
  <2>1. /\ t.phase = s.phase /\ t.todo = Tail(s.todo) /\ t.at = s.at /\ t.kept = s.kept /\ t.unread = s.unread
        /\ t.on = s.on /\ t.undo = s.undo
    BY <1>1 DEF Advance, RunOK, StateTyped, NewRun
  <2>2. ASSUME NEW n \in by, n # name PROVE Migrated(h2, n)
    <3>1. n \in DOMAIN containers
      BY <1>11, <2>2 DEF Up, Exists
    <3>2. n \in DOMAIN h2 /\ h2[n] = [containers[n] EXCEPT !.schema = tree]
      BY <1>6, <1>11, <2>2, <3>1
    <3> QED BY <1>3, <1>7, <3>1, <3>2 DEF Migrated
  <2> HIDE DEF t, h2
  <2>3. CASE s.phase = "setup"
    <3>1. by = {SharedDB(r)} /\ SharedDB(r) # name
      BY <1>5, <2>3 DEF by, MigratedBy, ServingNames
    <3>2. \A n \in {SharedDB(r), SharedKafka(r)} : n \in DOMAIN containers => Lasts(containers, h2, n)
      BY <1>9 DEF Unharmed, Steady, ServingNames
    <3>3. \A step : IsNow(Head(s.todo), step) => SetupDone(h2, r, step)
      BY <1>1, <2>2, <3>1 DEF IsNow, SetupDone
    <3>4. s.todo \in Seq(SetupSteps(r))
      BY <1>1, <2>3 DEF RunOK, PlanTyped
    <3>5. SetupInv(h2, r, t)
      BY <1>1, <2>1, <2>3, <3>2, <3>3, <3>4, SetupAdvance DEF RunInv
    <3>6. RunInv(h2, r, t)
      BY <2>1, <2>3, <3>5, SetupOnly
    <3> QED BY <1>9, <1>11, <3>6 DEF StillRuns, t, h2
  <2>4. CASE s.phase = "fresh"
    <3>1. /\ FreshInv(containers, r, s) /\ IsFresh(s) /\ SpecAt(r, s) \in Specs(r)
          /\ s.on = SpecAt(r, s) /\ s.on \in Specs(r)
          /\ s.todo \in Seq(FreshSteps(r, SpecAt(r, s)))
          /\ \A n \in Uses(r, s.on) : n \in DOMAIN containers => Steady(containers, h2, n)
      BY <1>1, <1>9, <2>4, FreshHere DEF IsFresh
    <3>2. by = Databases(r, s.on)
      BY <2>4, <3>1 DEF by, MigratedBy, SpecOf, SpecAt
    <3>3. by \subseteq ServingNames(r)
      BY <3>1, <3>2, ServingNamesOf DEF Uses
    <3>4. \A n \in Databases(r, s.on) : Migrated(h2, n)
      BY <1>5, <2>2, <3>2, <3>3
    <3>5. \A step : IsNow(Head(s.todo), step) => StepDone(h2, r, t, s.on, step)
      BY <1>1, <3>4 DEF IsNow, StepDone
    <3>6. FreshInv(h2, r, t)
      BY <1>1, <2>1, <3>1, <3>5, FreshAdvance
    <3>7. AllRead(t)
      BY <2>1, ReadLasts DEF RunInv
    <3>8. RunInv(h2, r, t)
      BY <1>1, <1>9, <2>1, <2>4, <3>6, <3>7, FreshOnly
    <3> QED BY <1>9, <1>11, <3>8 DEF StillRuns, t, h2
  <2> QED BY <1>2, <2>3, <2>4
<1> QED BY <1>4, <1>10, <1>11

-----------------------------------------------------------------------------
(***************************************************************************)
(* Removals take containers of one service, and nothing of that service is *)
(* kept any more.                                                          *)
(***************************************************************************)
NamesOfService(r, w) == UNION {SpecNames(r, g) : g \in {f \in Specs(r) : f.service = w}}

LEMMA SpecNamesNotShared ==
  ASSUME NEW r \in Runs, NEW f
  PROVE  SharedDB(r) \notin SpecNames(r, f) /\ SharedKafka(r) \notin SpecNames(r, f)
BY NamesTell

LEMMA StillThere ==
  ASSUME NEW names, NEW left, StopAndRemove(names, left)
  PROVE  \A n \in DOMAIN containers : n \notin names => Steady(containers, containers', n)
<1>1. /\ DOMAIN containers' = DOMAIN containers \ (names \ left)
      /\ \A n \in DOMAIN containers' : containers'[n] = containers[n]
  BY DEF StopAndRemove, Without
<1> QED BY <1>1 DEF Steady, Lasts

LEMMA OthersStay ==
  ASSUME NEW r \in Runs, NEW names, names \subseteq NamesOf(r), NEW left, StopAndRemove(names, left)
  PROVE  Others(r)
BY StillThere DEF Others

LEMMA OneServiceStopped ==
  ASSUME SpecNamesApart, NEW r \in Runs, NEW s, RunOK(r, s), RunInv(containers, r, s), s.phase \in OfSpecs,
         NEW w \in Services, NEW names, names \subseteq NamesOfService(r, w),
         NEW left, StopAndRemove(names, left),
         NEW t, t.kept[w] = None, \A v \in Services : t.kept[v] = None \/ t.kept[v] = s.kept[v]
  PROVE  SharedInv(containers', r, t) /\ KeptInv(containers', r, t) /\ Others(r)
<1>1. names \subseteq NamesOf(r)
  BY DEF NamesOfService, NamesOf
<1>2. SharedDB(r) \notin names /\ SharedKafka(r) \notin names
  BY SpecNamesNotShared DEF NamesOfService
<1>3. ASSUME NEW v \in Services, t.kept[v] # None, NEW n \in SpecNames(r, t.kept[v].spec), n \in DOMAIN containers
      PROVE  Lasts(containers, containers', n)
  <2> DEFINE g == t.kept[v].spec
  <2>1. g \in Specs(r) /\ g.service = v /\ v # w
    BY <1>3, KeptSpec DEF RunOK, RunInv, KeptInv
  <2>2. n \notin names
    <3>1. SUFFICES ASSUME NEW f \in Specs(r), f.service = w, n \in SpecNames(r, f)
                   PROVE  FALSE
      BY DEF NamesOfService
    <3>2. f # g
      BY <2>1, <3>1
    <3> QED BY <1>3, <2>1, <3>1, <3>2, SpecsApart
  <2> QED BY <1>3, <2>2, StillThere DEF Steady
<1>4. \A n \in {SharedDB(r), SharedKafka(r)} : n \in DOMAIN containers => Lasts(containers, containers', n)
  BY <1>2, StillThere DEF Steady
<1>5. SharedInv(containers, r, s) /\ KeptInv(containers, r, s)
  BY DEF RunInv
<1> QED BY <1>1, <1>3, <1>4, <1>5, SpecsCarried, OthersStay

LEMMA StartFreshRuns ==
  ASSUME SpecNamesApart, RunsOK, NEW r \in Runs, RunInv(containers, r, run[r]), NEW s, s = run[r],
         s.phase \in {"next", "reuse"}, NEW u, NEW stop, NEW left, StartFresh(r, u, stop, left),
         DOMAIN u = DOMAIN s, u.at \in 1..Len(Files[r]), u.kept = [s.kept EXCEPT ![SpecAt(r, u).service] = None],
         stop \subseteq NamesOfService(r, SpecAt(r, u).service)
  PROVE  StillRuns(r)
<1> DEFINE f == SpecAt(r, u)
           t == [u EXCEPT !.phase = "fresh", !.todo = SpecPlan(r, f), !.undo = << >>, !.on = f,
                          !.unread = {}, !.lost = @ \cup left]
           names == stop \cup PreCleanupNames(r, f)
<1>1. RunOK(r, s)
  BY DEF RunsOK
<1>2. f \in Specs(r) /\ f.service \in Services
  <2>1. u.at \in DOMAIN Files[r]
    BY SuiteAssumption
  <2> QED BY <2>1, SuiteAssumption DEF SpecAt, Specs, Range
<1>3. StopAndRemove(names, left) /\ run'[r] = t
  BY DEF StartFresh, SpecAt, RunsOK
<1>4. t.phase = "fresh" /\ t.todo = SpecPlan(r, f) /\ t.at = u.at /\ t.unread = {} /\ t.kept = u.kept /\ t.on = f
  BY <1>1 DEF RunOK, StateTyped, NewRun
<1>5. SpecAt(r, t) = f
  BY <1>4 DEF SpecAt
<1>6. /\ t.kept[f.service] = None
      /\ \A v \in Services : t.kept[v] = None \/ t.kept[v] = s.kept[v]
  BY <1>1, <1>2, <1>4 DEF RunOK, KeptTyped
<1>7. names \subseteq NamesOfService(r, f.service)
  <2>1. PreCleanupNames(r, f) \subseteq SpecNames(r, f)
    BY DEF PreCleanupNames, SpecNames
  <2> QED BY <1>2, <2>1 DEF NamesOfService
<1> HIDE DEF t, f, names
<1>8. SharedInv(containers', r, t) /\ KeptInv(containers', r, t) /\ Others(r)
  <2> DEFINE w == f.service
  <2> HIDE DEF w
  <2>1. w \in Services /\ t.kept[w] = None /\ names \subseteq NamesOfService(r, w)
    BY <1>2, <1>6, <1>7 DEF w
  <2>2. RunInv(containers, r, s) /\ s.phase \in OfSpecs /\ StopAndRemove(names, left)
    BY <1>3 DEF OfSpecs
  <2>3. \A v \in Services : t.kept[v] = None \/ t.kept[v] = s.kept[v]
    BY <1>6
  <2> QED BY ONLY SpecNamesApart, r \in Runs, <1>1, <2>1, <2>2, <2>3, OneServiceStopped
<1>9. FreshInv(containers', r, t)
  <2>1. Follows(t.todo, SpecPlan(r, f), 0) /\ 0 \in 0..Len(SpecPlan(r, f))
    BY <1>2, <1>4, PlanShape, FollowsNone
  <2> QED BY <1>4, <1>5, <2>1 DEF FreshInv
<1>10. SetupInv(containers', r, t) /\ ReusedInv(containers', r, t) /\ PhaseInv(r, t)
  BY <1>4 DEF SetupInv, ReusedInv, PhaseInv
<1>11. AllRead(t)
  BY <1>4, <1>6, ReadLasts DEF RunInv
<1> QED BY <1>3, <1>8, <1>9, <1>10, <1>11 DEF StillRuns, RunInv

LEMMA FallBackRuns ==
  ASSUME SpecNamesApart, RunsOK, NEW r \in Runs, RunInv(containers, r, run[r]), FallBack(r)
  PROVE  StillRuns(r)
<1> DEFINE s == run[r]
           v == SpecAt(r, s).service
           u == Forget(s, r, v)
<1>1. RunOK(r, s) /\ s.phase = "reuse"
  BY DEF RunsOK, FallBack
<1>2. StartFresh(r, u, {}, {})
  BY DEF FallBack, SpecOf, SpecAt
<1>3. DOMAIN u = DOMAIN s /\ u.at = s.at /\ u.kept = [s.kept EXCEPT ![v] = None]
  BY <1>1 DEF Forget, RunOK, StateTyped, NewRun
<1>4. SpecAt(r, u).service = v
  BY <1>3 DEF SpecAt
<1> HIDE DEF u, v
<1>5. s.at \in 1..Len(Files[r])
  <2>1. Len(Files[r]) \in Nat
    BY SuiteAssumption
  <2> QED BY <1>1, <2>1 DEF RunOK, StateTyped, OfASpec
<1> QED BY <1>1, <1>2, <1>3, <1>4, <1>5, StartFreshRuns

LEMMA NextSpecRuns ==
  ASSUME SpecNamesApart, RunsOK, NEW r \in Runs, RunInv(containers, r, run[r]), NextSpec(r)
  PROVE  StillRuns(r)
<1> DEFINE s == run[r]
           next == [s EXCEPT !.at = @ + 1]
           f == Files[r][next.at]
           pc == next.kept[f.service]
<1>1. RunOK(r, s) /\ s.phase = "next"
  BY DEF RunsOK, NextSpec
<1>2. Len(Files[r]) \in Nat /\ s.at \in 0..Len(Files[r])
  BY <1>1, SuiteAssumption DEF RunOK, StateTyped
<1>3. CASE s.cancelled \/ s.at = Len(Files[r])
  <2> DEFINE t == [s EXCEPT !.phase = "cleanup"]
  <2>1. run'[r] = t /\ containers' = containers
    BY <1>3 DEF NextSpec, Goes, RunsOK
  <2>2. t.phase = "cleanup" /\ t.kept = s.kept /\ t.unread = s.unread
    BY <1>1 DEF RunOK, StateTyped, NewRun
  <2>3. AllRead(t)
    BY <2>2, ReadLasts DEF RunInv
  <2> HIDE DEF t
  <2>4. RunInv(containers', r, t)
    BY <2>2, <2>3, OverInv
  <2> QED BY <2>1, <2>4, NobodyTouched DEF StillRuns
<1>4. CASE ~(s.cancelled \/ s.at = Len(Files[r]))
  <2>1. /\ DOMAIN next = DOMAIN s /\ next.at = s.at + 1 /\ next.kept = s.kept
        /\ next.todo = s.todo /\ next.unread = s.unread /\ next.phase = s.phase
    BY <1>1 DEF RunOK, StateTyped, NewRun
  <2>2. next.at \in 1..Len(Files[r])
    BY <1>2, <1>4, <2>1
  <2>3. f.service \in Services /\ f = SpecAt(r, next)
    BY <2>2, SuiteAssumption DEF SpecAt
  <2>4. CASE canUsePersistentContainers(f) /\ pc # None
    <3> DEFINE t == [next EXCEPT !.phase = "reuse"]
    <3>1. run'[r] = t /\ containers' = containers
      BY <1>4, <2>4 DEF NextSpec, RunsOK
    <3>2. t.at = next.at /\ t.kept = s.kept /\ t.unread = s.unread /\ t.phase = "reuse"
      BY <1>1, <2>1 DEF RunOK, StateTyped, NewRun
    <3>3. SpecAt(r, t) = f
      BY <2>3, <3>2 DEF SpecAt
    <3> HIDE DEF t, next, f
    <3>4. SharedInv(containers', r, t) /\ KeptInv(containers', r, t)
      BY <1>1, <3>1, <3>2, SpecsUnharmed, Untouched DEF RunInv, OfSpecs
    <3>5. PhaseInv(r, t)
      BY <2>4, <3>2, <3>3 DEF PhaseInv
    <3>6. SetupInv(containers', r, t) /\ FreshInv(containers', r, t) /\ ReusedInv(containers', r, t)
      BY <3>2 DEF SetupInv, FreshInv, IsFresh, ReusedInv
    <3>7. AllRead(t)
      BY <3>2, ReadLasts DEF RunInv
    <3> QED BY <3>1, <3>4, <3>5, <3>6, <3>7, NobodyTouched DEF StillRuns, RunInv
  <2>5. CASE ~(canUsePersistentContainers(f) /\ pc # None)
    <3> DEFINE stop == IF pc = None THEN {} ELSE PersistentNames(r, pc.spec)
               u == [next EXCEPT !.kept[f.service] = None]
    <3>1. PICK left : StartFresh(r, u, stop, left)
      BY <1>4, <2>5 DEF NextSpec
    <3>2. DOMAIN u = DOMAIN s /\ u.at = next.at /\ u.kept = [s.kept EXCEPT ![f.service] = None]
      BY <1>1, <2>1 DEF RunOK, StateTyped, NewRun
    <3>3. SpecAt(r, u) = f /\ pc = s.kept[f.service]
      BY <2>1, <2>3, <3>2 DEF SpecAt
    <3> HIDE DEF u, next, f, pc
    <3>4. stop \subseteq NamesOfService(r, f.service)
      <4>1. CASE pc = None
        BY <4>1
      <4>2. CASE pc # None
        <5> DEFINE g == pc.spec
        <5>1. g \in Specs(r) /\ g.service = f.service
          BY <1>1, <2>3, <3>3, <4>2, KeptSpec DEF RunOK, RunInv, KeptInv, OfSpecs
        <5>2. PersistentNames(r, g) \subseteq SpecNames(r, g)
          BY <5>1, StartedByPlan DEF PersistentNames, SpecNames
        <5> QED BY <4>2, <5>1, <5>2 DEF NamesOfService
      <4> QED BY <4>1, <4>2
    <3> HIDE DEF stop
    <3> QED BY <1>1, <2>2, <3>1, <3>2, <3>3, <3>4, StartFreshRuns
  <2> QED BY <2>4, <2>5
<1> QED BY <1>3, <1>4

LEMMA UnwindRuns ==
  ASSUME SpecNamesApart, RunsOK, NEW r \in Runs, RunInv(containers, r, run[r]), Unwind(r)
  PROVE  StillRuns(r)
<1> DEFINE s == run[r]
<1>1. RunOK(r, s) /\ s.phase = "unwind"
  BY DEF RunsOK, Unwind
<1>2. CASE s.undo = << >>
  <2> DEFINE t == [s EXCEPT !.phase = "next"]
  <2>1. run'[r] = t /\ containers' = containers
    BY <1>2 DEF Unwind, Goes, RunsOK
  <2>2. t.phase = "next" /\ t.kept = s.kept /\ t.unread = s.unread
    BY <1>1 DEF RunOK, StateTyped, NewRun
  <2> HIDE DEF t
  <2>3. RunInv(containers', r, t)
    BY <1>1, <2>1, <2>2, Untouched, NextOnly DEF OfSpecs
  <2> QED BY <2>1, <2>3, NobodyTouched DEF StillRuns
<1>3. CASE s.undo # << >>
  <2> DEFINE f == SpecAt(r, s)
             names == {Last(s.undo)}
  <2>1. f \in Specs(r) /\ f.service \in Services
    BY <1>1, AtSpec DEF RunOK, StateTyped, OfASpec
  <2>2. PICK left : /\ StopAndRemove(names, left)
                    /\ run'[r] = [s EXCEPT !.undo = Front(@), !.lost = @ \cup left]
    BY <1>3 DEF Unwind, RunsOK
  <2> DEFINE t == [s EXCEPT !.undo = Front(@), !.lost = @ \cup left]
  <2>3. Last(s.undo) \in StartedBy(r, f)
    <3>1. s.undo \in Seq(StartedBy(r, f))
      BY <1>1 DEF RunOK, GuardsTyped
    <3> QED BY <1>3, <3>1, Shortened
  <2>4. t.phase = "unwind" /\ t.at = s.at /\ t.unread = s.unread /\ t.kept = s.kept
    BY <1>1 DEF RunOK, StateTyped, NewRun
  <2> HIDE DEF t
  <2>5. names \subseteq NamesOfService(r, f.service)
    BY <2>1, <2>3, StartedByPlan DEF NamesOfService
  <2>6. s.kept[f.service] = None
    BY <1>1 DEF RunInv, PhaseInv
  <2> HIDE DEF names
  <2>7. SharedInv(containers', r, t) /\ KeptInv(containers', r, t) /\ Others(r)
    BY <1>1, <2>1, <2>2, <2>4, <2>5, <2>6, OneServiceStopped DEF OfSpecs
  <2>8. PhaseInv(r, t)
    BY <2>4, <2>6 DEF PhaseInv, SpecAt
  <2>9. SetupInv(containers', r, t) /\ FreshInv(containers', r, t) /\ ReusedInv(containers', r, t)
    BY <2>4 DEF SetupInv, FreshInv, IsFresh, ReusedInv
  <2>10. AllRead(t)
    BY <2>4, ReadLasts DEF RunInv
  <2> QED BY <2>2, <2>7, <2>8, <2>9, <2>10 DEF StillRuns, RunInv, t
<1> QED BY <1>2, <1>3

LEMMA CleanupRuns ==
  ASSUME RunsOK, NEW r \in Runs, RunInv(containers, r, run[r]), CleanupOwned(r) \/ CleanupPersistent(r)
  PROVE  StillRuns(r)
<1> DEFINE s == run[r]
<1>1. RunOK(r, s) /\ s.phase = "cleanup"
  BY DEF RunsOK, CleanupOwned, CleanupPersistent
<1>2. CASE CleanupOwned(r)
  <2>1. PICK left : /\ StopAndRemove({Head(s.owned)}, left)
                    /\ run'[r] = [s EXCEPT !.owned = Tail(@), !.lost = @ \cup left]
    BY <1>2 DEF CleanupOwned, RunsOK
  <2> DEFINE t == [s EXCEPT !.owned = Tail(@), !.lost = @ \cup left]
  <2>2. Head(s.owned) \in {SharedDB(r), SharedKafka(r)}
    <3>1. s.owned \in Seq({SharedDB(r), SharedKafka(r)}) /\ s.owned # << >>
      BY <1>1, <1>2 DEF RunOK, GuardsTyped, CleanupOwned
    <3> QED BY <3>1, Shortened
  <2>3. t.phase = s.phase /\ t.unread = s.unread /\ t.kept = s.kept
    BY <1>1 DEF RunOK, StateTyped, NewRun
  <2> HIDE DEF t
  <2>4. Others(r)
    <3>1. {Head(s.owned)} \subseteq NamesOf(r)
      BY <2>2 DEF NamesOf
    <3> QED BY <2>1, <3>1, OthersStay
  <2>5. AllRead(t)
    BY <2>3, ReadLasts DEF RunInv
  <2>6. RunInv(containers', r, t)
    BY <1>1, <2>3, <2>5, OverInv
  <2> QED BY <2>1, <2>4, <2>6 DEF StillRuns, t
<1>3. CASE CleanupPersistent(r)
  <2>1. PICK left : /\ StopAndRemove(AllKept(r), left)
                    /\ run'[r] = [s EXCEPT !.kept = [v \in Services |-> None], !.lost = @ \cup left]
    BY <1>3 DEF CleanupPersistent, RunsOK
  <2> DEFINE t == [s EXCEPT !.kept = [v \in Services |-> None], !.lost = @ \cup left]
  <2>2. t.phase = s.phase /\ t.unread = s.unread /\ t.kept = [v \in Services |-> None]
    BY <1>1 DEF RunOK, StateTyped, NewRun
  <2> HIDE DEF t
  <2>3. Others(r)
    <3>1. AllKept(r) \subseteq NamesOf(r)
      BY <1>1, KeptNames DEF AllKept
    <3> QED BY <2>1, <3>1, OthersStay
  <2>4. AllRead(t)
    BY <2>2, ReadLasts DEF RunInv
  <2>5. RunInv(containers', r, t)
    BY <1>1, <2>2, <2>4, OverInv
  <2> QED BY <2>1, <2>3, <2>5 DEF StillRuns, t
<1> QED BY <1>2, <1>3

-----------------------------------------------------------------------------
(***************************************************************************)
(* Reuse, the test and the containers that are kept.                       *)
(***************************************************************************)
LEMMA EnginesOf ==
  ASSUME NEW r \in Runs, NEW f \in Specs(r), NEW n \in Databases(r, f), n # SharedDB(r)
  PROVE  n \in StartedBy(r, f) /\ n \in Truncated(r, f)
<1>1. n \in StartedBy(r, f)
  BY PlanStarts
<1>2. n \in Truncated(r, f)
  BY DEF Databases, Truncated
<1> QED BY <1>1, <1>2

LEMMA AliveStarted ==
  ASSUME NEW r \in Runs, NEW f \in Specs(r), NEW h, Alive(h, r, f), NEW n \in StartedBy(r, f)
  PROVE  /\ n \in DOMAIN h /\ h[n].up /\ h[n].owner = r
         /\ \E step \in Range(SpecPlan(r, f)) : step.do = "start" /\ step.name = n /\ h[n].aliases = step.aliases
<1>1. PICK step \in Range(SpecPlan(r, f)) : step.do = "start" /\ step.name = n
  BY PlanStarts
<1>2. Runs1(h, r, step)
  BY <1>1 DEF Alive
<1> QED BY <1>1, <1>2 DEF Runs1

\* When a fresh spec is tested its plan is done.
LEMMA FreshDone ==
  ASSUME NEW r \in Runs, NEW h, NEW s, RunOK(r, s), RunInv(h, r, s), s.phase = "test", s.todo # << >>
  PROVE  /\ \A step \in Range(SpecPlan(r, s.on)) : StepDone(h, r, s, s.on, step)
         /\ Alive(h, r, s.on)
<1> DEFINE plan == SpecPlan(r, s.on)
<1>1. s.on \in Specs(r) /\ s.todo \in Seq(FreshSteps(r, SpecAt(r, s))) /\ FreshInv(h, r, s) /\ IsFresh(s)
  BY FreshHere DEF IsFresh
<1>2. /\ Len(plan) \in Nat /\ DOMAIN plan = 1..Len(plan) /\ MigratesWell(plan) /\ plan[Len(plan)].do = "test"
      /\ \A i \in 1..(Len(plan) - 1) : plan[i].do # "test"
  BY <1>1, PlanShape, PlansMigrate
<1>3. PICK k \in 0..Len(plan) : Follows(s.todo, plan, k) /\ \A i \in 1..k : StepDone(h, r, s, s.on, plan[i])
  BY <1>1 DEF FreshInv
<1>4. Head(s.todo).do = "test"
  BY DEF RunOK, PlanTyped
<1> HIDE DEF plan
<1>5. k + 1 \in 1..Len(plan) /\ IsNow(Head(s.todo), plan[k + 1])
  BY <1>1, <1>2, <1>3, FollowsTail
<1>6. plan[k + 1].do = "test"
  BY <1>4, <1>5 DEF IsNow
<1>7. k + 1 = Len(plan)
  <2>1. k + 1 \notin 1..(Len(plan) - 1)
    BY <1>2, <1>6
  <2>2. Len(plan) \in Nat
    BY <1>2
  <2> HIDE <1>2
  <2> QED BY <1>5, <2>1, <2>2
<1>8. ASSUME NEW step \in Range(plan) PROVE StepDone(h, r, s, s.on, step)
  <2>1. PICK i \in 1..Len(plan) : step = plan[i]
    BY <1>2, <1>8 DEF Range
  <2>2. CASE i = Len(plan)
    BY <1>2, <2>1, <2>2 DEF StepDone
  <2>3. CASE i # Len(plan)
    <3>1. i \in 1..k
      BY <1>3, <1>7, <2>3
    <3> QED BY <1>3, <2>1, <3>1
  <2> QED BY <2>2, <2>3
<1>9. Alive(h, r, s.on)
  BY <1>8 DEF Alive, StepDone, plan
<1> QED BY <1>8, <1>9 DEF plan

LEMMA PrepareForReuseRuns ==
  ASSUME RunsOK, HostOK, NEW r \in Runs, RunInv(containers, r, run[r]), prepareForReuse(r)
  PROVE  StillRuns(r)
<1> DEFINE s == run[r]
           pc == s.kept[SpecAt(r, s).service]
           t == [s EXCEPT !.phase = "test", !.on = pc.spec]
           h2 == containers'
           g == pc.spec
<1>1. /\ RunOK(r, s) /\ s.phase = "reuse" /\ s.todo = << >> /\ run'[r] = t /\ pc # None
      /\ SpecAt(r, s).service \in Services
  <2>1. RunOK(r, s) /\ s.phase = "reuse" /\ run'[r] = t
    BY DEF RunsOK, prepareForReuse, SpecOf, SpecAt
  <2>2. s.todo = << >> /\ pc # None
    BY <2>1 DEF RunOK, PlanTyped, KeptTyped
  <2>3. SpecAt(r, s).service \in Services
    BY <2>1, AtSpec DEF RunOK, StateTyped, OfASpec
  <2> QED BY <2>1, <2>2, <2>3
<1>2. g \in Specs(r) /\ g.service = SpecAt(r, s).service /\ Alive(containers, r, g)
  BY <1>1, KeptSpec DEF RunOK, RunInv, KeptInv, OfSpecs
<1>3. PICK emptied \in {Truncated(r, g), OracleEngines(r, g)} :
         /\ emptied = Truncated(r, g) \/ "truncate" \in Faults
         /\ h2 = [n \in DOMAIN containers |->
                    [containers[n] EXCEPT !.dirty = @ /\ n \notin emptied,
                                          !.serves = IF n \in Reloaded(r, pc) THEN s.at ELSE @]]
  BY DEF prepareForReuse, SpecOf, SpecAt, Fault
<1>4. \A n \in Reloaded(r, pc) : n \in DOMAIN containers
  BY DEF prepareForReuse, SpecOf, SpecAt, Answers, Up, Exists
<1>5. /\ t.phase = "test" /\ t.on = g /\ t.todo = << >> /\ t.at = s.at /\ t.kept = s.kept /\ t.unread = s.unread
  BY <1>1 DEF RunOK, StateTyped, NewRun
<1>6. ASSUME NEW n \in DOMAIN containers
      PROVE  /\ n \in DOMAIN h2 /\ Lasts(containers, h2, n)
             /\ h2[n].dirty = (containers[n].dirty /\ n \notin emptied)
             /\ h2[n].serves = IF n \in Reloaded(r, pc) THEN s.at ELSE containers[n].serves
  <2>1. {"owner", "net", "up", "aliases", "schema", "dirty", "serves"} \subseteq DOMAIN containers[n]
    BY DEF HostOK
  <2>2. /\ n \in DOMAIN h2
        /\ h2[n] = [containers[n] EXCEPT !.dirty = @ /\ n \notin emptied,
                                         !.serves = IF n \in Reloaded(r, pc) THEN s.at ELSE @]
    BY <1>3
  <2> HIDE DEF h2
  <2>3. /\ h2[n].owner = containers[n].owner /\ h2[n].up = containers[n].up
        /\ h2[n].aliases = containers[n].aliases /\ h2[n].schema = containers[n].schema
    BY <2>1, <2>2
  <2>4. h2[n].dirty = (containers[n].dirty /\ n \notin emptied)
    BY <2>1, <2>2
  <2>5. h2[n].serves = IF n \in Reloaded(r, pc) THEN s.at ELSE containers[n].serves
    BY <2>1, <2>2
  <2> QED BY <2>2, <2>3, <2>4, <2>5 DEF Lasts
<1> HIDE DEF t, pc, g, h2
<1>7. Reloaded(r, pc) = ProxiesOf(r, g) \ pc.unread /\ ProxiesOf(r, g) \subseteq StartedBy(r, g)
  BY DEF Reloaded, ProxiesOf, g
<1>8. Others(r)
  <2>1. Reloaded(r, pc) \subseteq NamesOf(r)
    BY <1>2, <1>7, NamesOfSpec
  <2> QED BY <1>6, <2>1 DEF Others, Steady, h2
<1>9. SharedInv(h2, r, t) /\ KeptInv(h2, r, t)
  BY <1>1, <1>5, <1>6, SpecsCarried DEF RunInv, OfSpecs
<1>10. ReusedInv(h2, r, t)
  <2>1. t.kept[SpecAt(r, t).service] = pc
    BY <1>5 DEF SpecAt, pc
  <2>2. \A n \in ProxiesOf(r, g) \ pc.unread : n \in DOMAIN h2 /\ h2[n].serves = t.at
    BY <1>4, <1>5, <1>6, <1>7
  <2>3. ASSUME "truncate" \notin Faults, NEW n \in Databases(r, g) \ {SharedDB(r)}
        PROVE  n \in DOMAIN h2 /\ ~h2[n].dirty
    <3>1. n \in StartedBy(r, g) /\ n \in emptied
      BY <1>2, <1>3, <2>3, EnginesOf
    <3>2. n \in DOMAIN containers
      BY <1>2, <3>1, AliveStarted
    <3> QED BY <1>6, <3>1, <3>2
  <2> QED BY <1>1, <1>5, <2>1, <2>2, <2>3 DEF ReusedInv, g
<1>11. PhaseInv(r, t)
  BY <1>1, <1>5 DEF RunInv, PhaseInv, SpecAt
<1>12. SetupInv(h2, r, t) /\ FreshInv(h2, r, t)
  BY <1>5 DEF SetupInv, FreshInv, IsFresh
<1>13. AllRead(t)
  BY <1>5, ReadLasts DEF RunInv
<1> QED BY <1>1, <1>8, <1>9, <1>10, <1>11, <1>12, <1>13 DEF StillRuns, RunInv, h2

\* The service writes to the databases it uses and to nothing else.
LEMMA TestWrites ==
  ASSUME HostOK, NEW r \in Runs, EndTest(r), NEW n \in DOMAIN containers
  PROVE  /\ Lasts(containers, containers', n)
         /\ n \notin Databases(r, run[r].on) => Steady(containers, containers', n)
<1>1. CASE containers' = containers
  BY <1>1 DEF Lasts, Steady
<1>2. CASE containers' = Dirtied(Databases(r, run[r].on))
  <2> DEFINE D == Databases(r, run[r].on)
  <2>1. /\ n \in DOMAIN containers'
        /\ containers'[n] = IF n \in D THEN [containers[n] EXCEPT !.dirty = TRUE] ELSE containers[n]
    BY <1>2 DEF Dirtied
  <2> HIDE DEF D
  <2>2. CASE n \in D
    <3>1. /\ containers'[n].owner = containers[n].owner /\ containers'[n].up = containers[n].up
          /\ containers'[n].aliases = containers[n].aliases /\ containers'[n].schema = containers[n].schema
      BY <2>1, <2>2 DEF HostOK
    <3> QED BY <2>1, <2>2, <3>1 DEF Lasts, D
  <2>3. CASE n \notin D
    BY <2>1, <2>3 DEF Lasts, Steady
  <2> QED BY <2>2, <2>3
<1> QED BY <1>1, <1>2 DEF EndTest

\* The spec whose containers a test uses.
LEMMA TestOn ==
  ASSUME NEW r \in Runs, NEW h, NEW s, RunOK(r, s), RunInv(h, r, s), s.phase = "test"
  PROVE  /\ s.on \in Specs(r) /\ Databases(r, s.on) \subseteq NamesOf(r)
         /\ SpecAt(r, s) \in Specs(r) /\ SpecAt(r, s).service \in Services
         /\ s.on.service = SpecAt(r, s).service /\ Alive(h, r, s.on)
<1>1. SpecAt(r, s) \in Specs(r) /\ SpecAt(r, s).service \in Services
  BY AtSpec DEF RunOK, StateTyped, OfASpec
<1>2. s.on \in Specs(r) /\ s.on.service = SpecAt(r, s).service /\ Alive(h, r, s.on)
  <2>1. CASE s.todo = << >>
    <3> DEFINE pc == s.kept[SpecAt(r, s).service]
    <3>1. pc # None /\ s.on = pc.spec
      BY <2>1 DEF RunInv, ReusedInv
    <3>2. pc.spec \in Specs(r)
      BY <1>1, <3>1, KeptSpec DEF RunOK
    <3>3. pc.spec.service = SpecAt(r, s).service /\ Alive(h, r, pc.spec)
      BY <1>1, <3>1 DEF RunInv, KeptInv, OfSpecs
    <3> QED BY <3>1, <3>2, <3>3
  <2>2. CASE s.todo # << >>
    <3>1. s.on = SpecAt(r, s)
      BY <2>2, FreshHere DEF IsFresh
    <3> QED BY <1>1, <2>2, <3>1, FreshDone
  <2> QED BY <2>1, <2>2
<1>3. Databases(r, s.on) \subseteq NamesOf(r)
  BY <1>2, ServingNamesOf DEF Uses
<1> QED BY <1>1, <1>2, <1>3

\* A spec whose containers are not kept.
LEMMA TestOverRuns ==
  ASSUME RunsOK, HostOK, NEW r \in Runs, RunInv(containers, r, run[r]), EndTest(r), NEW t,
         t.phase = (IF run[r].todo = << >> THEN "next" ELSE "unwind"), t.at = run[r].at,
         t.kept = run[r].kept, t.unread = run[r].unread
  PROVE  RunInv(containers', r, t)
<1> DEFINE s == run[r]
<1>1. RunOK(r, s) /\ s.phase = "test"
  BY DEF RunsOK, EndTest
<1>2. \A n \in DOMAIN containers : Lasts(containers, containers', n)
  BY TestWrites
<1> HIDE DEF Lasts
<1>3. SharedInv(containers', r, t) /\ KeptInv(containers', r, t)
  BY <1>1, <1>2, SpecsCarried DEF RunInv, OfSpecs
<1>4. PhaseInv(r, t)
  <2>1. s.todo # << >> => s.kept[SpecAt(r, s).service] = None
    BY <1>1 DEF RunOK, KeptTyped
  <2> QED BY <2>1 DEF PhaseInv, SpecAt
<1>5. AllRead(t)
  BY ReadLasts DEF RunInv
<1>6. SetupInv(containers', r, t) /\ FreshInv(containers', r, t) /\ ReusedInv(containers', r, t)
  BY DEF SetupInv, FreshInv, IsFresh, ReusedInv
<1> QED BY <1>3, <1>4, <1>5, <1>6 DEF RunInv

\* The containers of a spec that passed are kept.
LEMMA TestKeptRuns ==
  ASSUME RunsOK, HostOK, NEW r \in Runs, RunInv(containers, r, run[r]), EndTest(r), run[r].todo # << >>, NEW t,
         canUsePersistentContainers(SpecAt(r, run[r])), t.phase = "next", t.at = run[r].at,
         t.kept = [run[r].kept EXCEPT ![SpecAt(r, run[r]).service] =
                     [spec |-> SpecAt(r, run[r]), unread |-> run[r].unread]],
         t.unread = run[r].unread
  PROVE  RunInv(containers', r, t)
<1> DEFINE s == run[r]
           f == SpecAt(r, s)
           h2 == containers'
<1>1. RunOK(r, s) /\ s.phase = "test" /\ s.on = f /\ f \in Specs(r) /\ f.service \in Services /\ Alive(containers, r, f)
  <2>1. RunOK(r, s) /\ s.phase = "test"
    BY DEF RunsOK, EndTest
  <2>2. s.on = f
    BY <2>1, FreshHere DEF IsFresh
  <2> QED BY <2>1, <2>2, TestOn
<1>2. \A n \in DOMAIN containers : Lasts(containers, h2, n)
  BY TestWrites
<1>3. /\ t.kept[f.service] = [spec |-> f, unread |-> s.unread]
      /\ \A v \in Services : v # f.service => t.kept[v] = s.kept[v]
  BY <1>1 DEF RunOK, KeptTyped
<1> HIDE DEF f, h2, Lasts
<1>4. SharedInv(h2, r, s) /\ KeptInv(h2, r, s)
  BY <1>1, <1>2, SpecsCarried DEF RunInv, OfSpecs
<1>5. Alive(h2, r, f)
  BY <1>1, <1>2, AliveLasts
<1>6. KeptInv(h2, r, t)
  <2>1. ASSUME NEW v \in Services, t.kept[v] # None
        PROVE  /\ t.kept[v].spec.service = v /\ canUsePersistentContainers(t.kept[v].spec)
               /\ Alive(h2, r, t.kept[v].spec)
    <3>1. CASE v = f.service
      BY <1>3, <1>5, <3>1 DEF f
    <3>2. CASE v # f.service
      BY <1>1, <1>3, <1>4, <2>1, <3>2 DEF KeptInv, OfSpecs
    <3> QED BY <3>1, <3>2
  <2> QED BY <2>1 DEF KeptInv
<1>7. SharedInv(h2, r, t)
  BY <1>1, <1>4 DEF SharedInv, OfSpecs
<1>8. AllRead(t)
  BY <1>3 DEF RunInv, AllRead
<1>9. SetupInv(h2, r, t) /\ FreshInv(h2, r, t) /\ ReusedInv(h2, r, t) /\ PhaseInv(r, t)
  BY DEF SetupInv, FreshInv, IsFresh, ReusedInv, PhaseInv
<1> QED BY <1>6, <1>7, <1>8, <1>9 DEF RunInv, h2

LEMMA EndTestRuns ==
  ASSUME RunsOK, HostOK, NEW r \in Runs, RunInv(containers, r, run[r]), EndTest(r)
  PROVE  StillRuns(r)
<1> DEFINE s == run[r]
           t == run'[r]
           f == SpecAt(r, s)
           rest == [s EXCEPT !.todo = << >>, !.on = None]
           failed == [rest EXCEPT !.failed = @ \cup {s.at}]
           entry == [spec |-> f, unread |-> s.unread]
<1>1. RunOK(r, s) /\ s.phase = "test" /\ DOMAIN run = Runs
  BY DEF RunsOK, EndTest
<1>2. SpecOf(r) = f
  BY DEF SpecOf, SpecAt
<1>3. \/ s.todo = << >> /\ t = [failed EXCEPT !.phase = "next"]
      \/ s.todo = << >> /\ t = [rest EXCEPT !.phase = "next"]
      \/ s.todo # << >> /\ t = [failed EXCEPT !.phase = "unwind"]
      \/ s.todo # << >> /\ t = [rest EXCEPT !.phase = "unwind"]
      \/ /\ s.todo # << >> /\ canUsePersistentContainers(f)
         /\ t = [rest EXCEPT !.phase = "next", !.undo = << >>, !.kept[f.service] = entry]
  BY <1>1, <1>2 DEF EndTest, Reused
<1>4. {"todo", "on", "failed", "phase", "undo", "kept", "at", "unread"} \subseteq DOMAIN s
  BY <1>1 DEF RunOK, StateTyped, NewRun
<1>5. RunInv(containers', r, t)
  <2>1. CASE \/ s.todo = << >> /\ t = [failed EXCEPT !.phase = "next"]
             \/ s.todo = << >> /\ t = [rest EXCEPT !.phase = "next"]
             \/ s.todo # << >> /\ t = [failed EXCEPT !.phase = "unwind"]
             \/ s.todo # << >> /\ t = [rest EXCEPT !.phase = "unwind"]
    <3>1. t.phase = (IF s.todo = << >> THEN "next" ELSE "unwind") /\ t.at = s.at /\ t.kept = s.kept /\ t.unread = s.unread
      BY <1>4, <2>1
    <3> HIDE DEF t
    <3>2. RunInv(containers', r, t)
      BY <3>1, TestOverRuns
    <3> QED BY <3>2
  <2>2. CASE /\ s.todo # << >> /\ canUsePersistentContainers(f)
             /\ t = [rest EXCEPT !.phase = "next", !.undo = << >>, !.kept[f.service] = entry]
    <3>1. /\ t.phase = "next" /\ t.at = s.at /\ t.unread = s.unread
          /\ t.kept = [s.kept EXCEPT ![f.service] = entry]
      BY <1>4, <2>2
    <3> HIDE DEF t
    <3>2. RunInv(containers', r, t)
      BY <2>2, <3>1, TestKeptRuns
    <3> QED BY <3>2
  <2> QED BY <1>3, <2>1, <2>2
<1>6. Others(r)
  <2>1. Databases(r, s.on) \subseteq NamesOf(r)
    BY <1>1, TestOn
  <2> QED BY <2>1, TestWrites DEF Others
<1> QED BY <1>5, <1>6 DEF StillRuns

-----------------------------------------------------------------------------
(***************************************************************************)
(* The invariant of the runs of a host.                                    *)
(***************************************************************************)
\* A container has a name that a plan of its run starts.
OwnStarted == \A n \in DOMAIN containers : n \in Startable(containers[n].owner)

SpecInv == TreeOK /\ OwnStarted /\ \A r \in Runs : RunInv(containers, r, run[r])

LEMMA StepRuns ==
  ASSUME SpecNamesApart, RunsOK, HostOK, TreeOK, NEW r \in Runs, RunInv(containers, r, run[r]), Step(r) \/ Interrupt(r)
  PROVE  StillRuns(r)
<1>1. CASE CreateNetwork(r) \/ StartContainer(r) \/ Fails(r) \/ BeginMigration(r) \/ EndMigration(r)
            \/ FetchSchema(r) \/ EndSetup(r) \/ Interrupt(r)
  BY <1>1, CreateNetworkRuns, StartContainerRuns, FailsRuns, BeginMigrationRuns, EndMigrationRuns,
     FetchSchemaRuns, EndSetupRuns, InterruptRuns
<1>2. CASE NextSpec(r) \/ NextSpecUnreadable(r) \/ prepareForReuse(r) \/ FallBack(r)
            \/ InspectProxies(r) \/ BeginTest(r) \/ EndTest(r)
  BY <1>2, NextSpecRuns, NextSpecUnreadableRuns, PrepareForReuseRuns, FallBackRuns,
     InspectProxiesRuns, BeginTestRuns, EndTestRuns
<1>3. CASE Unwind(r) \/ CleanupOwned(r) \/ CleanupPersistent(r) \/ removeNetworkWithRetry(r)
  BY <1>3, UnwindRuns, CleanupRuns, RemoveNetworkRuns
<1> QED BY <1>1, <1>2, <1>3 DEF Step

LEMMA StepKeepsTree ==
  ASSUME NEW r \in Runs, Step(r) \/ Interrupt(r)
  PROVE  tree' = tree
<1>1. CASE CreateNetwork(r) \/ StartContainer(r) \/ Fails(r) \/ BeginMigration(r) \/ EndMigration(r)
            \/ FetchSchema(r) \/ EndSetup(r) \/ Interrupt(r)
  BY <1>1 DEF CreateNetwork, StartContainer, Fails, BeginMigration, EndMigration, FetchSchema, EndSetup, Interrupt
<1>2. CASE NextSpec(r) \/ FallBack(r)
  BY <1>2 DEF NextSpec, FallBack, StartFresh
<1>3. CASE NextSpecUnreadable(r) \/ prepareForReuse(r) \/ InspectProxies(r) \/ BeginTest(r) \/ EndTest(r)
  BY <1>3 DEF NextSpecUnreadable, prepareForReuse, InspectProxies, BeginTest, EndTest
<1>4. CASE Unwind(r) \/ CleanupOwned(r) \/ CleanupPersistent(r) \/ removeNetworkWithRetry(r)
  BY <1>4 DEF Unwind, CleanupOwned, CleanupPersistent, removeNetworkWithRetry
<1> QED BY <1>1, <1>2, <1>3, <1>4 DEF Step

LEMMA SpecInit == Init => SpecInv
<1> SUFFICES ASSUME Init PROVE SpecInv
  OBVIOUS
<1>1. TreeOK /\ OwnStarted
  BY DEF Init, TreeOK, OwnStarted
<1>2. ASSUME NEW r \in Runs PROVE RunInv(containers, r, NewRun)
  BY DEF RunInv, SetupInv, SharedInv, FreshInv, IsFresh, KeptInv, ReusedInv, PhaseInv, AllRead, NewRun, OfSpecs
<1> QED BY <1>1, <1>2 DEF Init, SpecInv

LEMMA SpecNext ==
  ASSUME NamesApart, SpecNamesApart, HostInv, SpecInv, [Next]_vars
  PROVE  SpecInv'
<1>1. CASE \E r \in Runs : Step(r) \/ Interrupt(r)
  <2>1. PICK r \in Runs : Step(r) \/ Interrupt(r)
    BY <1>1
  <2>2. /\ RunsOK /\ HostOK /\ TreeOK /\ RunInv(containers, r, run[r]) /\ Accounts(r)
        /\ \A q \in Runs : RunOK(q, run[q]) /\ RunInv(containers, q, run[q])
    BY DEF HostInv, SpecInv, RunsOK
  <2>3. StillRuns(r)
    BY <2>1, <2>2, StepRuns
  <2>4. RunStep(r) /\ (HostStep(r) \/ containers' = containers)
    BY <2>1, <2>2, StepOK
  <2>5. ASSUME NEW q \in Runs PROVE RunInv(containers', q, run'[q])
    <3>1. CASE q = r
      BY <2>3, <3>1 DEF StillRuns
    <3>2. CASE q # r
      <4>1. NamesOf(q) \cap NamesOf(r) = {}
        BY <3>2 DEF NamesApart
      <4>2. Unharmed(containers, containers', q)
        BY <2>3, <4>1, ServingNamesOf DEF StillRuns, Others, Unharmed
      <4>3. run'[q] = run[q]
        BY <2>4, <3>2 DEF RunStep
      <4>4. RunInv(containers', q, run[q])
        BY <2>2, <4>2, RunLasts
      <4> QED BY <4>3, <4>4
    <3> QED BY <3>1, <3>2
  <2>6. OwnStarted'
    <3>1. OwnStarted
      BY DEF SpecInv
    <3>2. CASE HostStep(r)
      <4>1. ASSUME NEW n \in DOMAIN containers' PROVE n \in Startable(containers'[n].owner)
        BY <3>1, <3>2 DEF HostStep, ContainerStep, Stays, Starting, OwnStarted
      <4> QED BY <4>1 DEF OwnStarted
    <3>3. CASE containers' = containers
      BY <3>1, <3>3 DEF OwnStarted
    <3> QED BY <2>4, <3>2, <3>3
  <2>7. TreeOK'
    BY <2>1, <2>2, StepKeepsTree DEF TreeOK
  <2> QED BY <2>5, <2>6, <2>7 DEF SpecInv
<1>2. CASE EditMigrations \/ UNCHANGED vars
  <2>1. containers' = containers /\ run' = run
    BY <1>2 DEF EditMigrations, vars
  <2>2. TreeOK'
    BY <1>2, SuiteAssumption DEF SpecInv, TreeOK, EditMigrations, vars
  <2>3. OwnStarted' /\ \A r \in Runs : RunInv(containers', r, run'[r])
    BY <2>1 DEF SpecInv, OwnStarted
  <2> QED BY <2>2, <2>3 DEF SpecInv
<1> QED BY <1>1, <1>2 DEF Next, AllDone

-----------------------------------------------------------------------------
(***************************************************************************)
(* What a spec that is tested runs on.                                     *)
(***************************************************************************)
LEMMA SharedIfMySQL ==
  ASSUME NEW r \in Runs, NEW f \in Specs(r), SharedDB(r) \in Databases(r, f)
  PROVE  HasType(f.service, {"mysql"})
<1> DEFINE dbs == Service[f.service].dbs
<1>1. PICK i \in DOMAIN dbs :
         SharedDB(r) = IF dbs[i].type = "mysql" THEN SharedDB(r) ELSE EngineName(r, f, dbs[i])
  BY DEF Databases
<1>2. EngineName(r, f, dbs[i])[1] = "engine" /\ SharedDB(r)[1] = "database"
  BY NamesTell DEF EngineName
<1>3. dbs[i].type = "mysql"
  BY <1>1, <1>2
<1> QED BY <1>3 DEF HasType

LEMMA DatabasesUp ==
  ASSUME NEW r \in Runs, NEW s, SharedInv(containers, r, s), s.phase = "test", NEW f \in Specs(r),
         Alive(containers, r, f), NEW n \in StartedBy(r, f) \cup Databases(r, f)
  PROVE  Up(n)
<1>1. CASE n \in StartedBy(r, f)
  BY <1>1, AliveStarted DEF Up, Exists
<1>2. CASE n = SharedDB(r) /\ n \in Databases(r, f)
  <2>1. f.service \in Services /\ HasType(f.service, {"mysql"})
    BY <1>2, SpecsTyped, SharedIfMySQL
  <2>2. StartsShared(SharedDB(r), {NetworkAlias}) \in Range(SetupPlan(r))
    BY <2>1, SetupHasDatabase
  <2>3. SetupDone(containers, r, StartsShared(SharedDB(r), {NetworkAlias}))
    BY <2>2 DEF SharedInv, OfSpecs
  <2> QED BY <1>2, <2>3 DEF SetupDone, StartsShared, Runs1, Up, Exists
<1> QED BY <1>1, <1>2, PlanStarts

LEMMA DatabasesMigrated ==
  ASSUME NEW r \in Runs, NEW s, SharedInv(containers, r, s), s.phase = "test", NEW f \in Specs(r),
         Alive(containers, r, f), Service[f.service].migrates, NEW n \in Databases(r, f)
  PROVE  containers[n].schema # None
<1> DEFINE v == f.service
           step == [do |-> "migrate", service |-> v]
<1>0. v \in Services
  BY SpecsTyped
<1>1. CASE HasType(v, NonMySQL)
  <2>1. MigrationSteps(f) = <<step>>
    BY <1>1 DEF MigrationSteps, If
  <2>2. step \in Range(SpecPlan(r, f))
    BY <2>1, SingleRange, FrontHas, PlanShape
  <2>3. Migrated(containers, n)
    BY <2>2 DEF Alive
  <2> QED BY <2>3 DEF Migrated
<1>2. CASE ~HasType(v, NonMySQL)
  <2>1. v \in MigratedInSetup
    BY <1>0, <1>2 DEF MigratedInSetup
  <2>2. step \in Range(SetupPlan(r))
    BY <2>1, SetupShape
  <2>3. SetupDone(containers, r, step)
    BY <2>2 DEF SharedInv, OfSpecs
  <2>4. Migrated(containers, SharedDB(r))
    BY <2>3 DEF SetupDone
  <2>5. n = SharedDB(r)
    <3>1. PICK i \in DOMAIN Service[v].dbs :
             n = IF Service[v].dbs[i].type = "mysql" THEN SharedDB(r) ELSE EngineName(r, f, Service[v].dbs[i])
      BY DEF Databases
    <3>2. Service[v].dbs[i].type \in {"oracle", "postgresql", "mysql", "mongodb"}
      BY <1>0, SuiteAssumption
    <3>3. Service[v].dbs[i].type \notin NonMySQL
      BY <1>2 DEF HasType
    <3> QED BY <3>1, <3>2, <3>3 DEF NonMySQL
  <2> QED BY <2>4, <2>5 DEF Migrated
<1> QED BY <1>1, <1>2

\* The service was told to use what a spec is told that runs on its containers.
LEMMA SameEnvironment ==
  ASSUME GRPCAlike, NEW r \in Runs, NEW s, RunOK(r, s), RunInv(containers, r, s), s.phase = "test"
  PROVE  AppEnvironment(SpecAt(r, s)) = AppEnvironment(s.on)
<1> DEFINE f == SpecAt(r, s)
           g == s.on
<1>1. CASE s.todo # << >>
  BY <1>1, FreshHere DEF IsFresh
<1>2. CASE s.todo = << >>
  <2>1. f \in Specs(r) /\ g \in Specs(r) /\ g.service = f.service /\ f.service \in Services
    BY TestOn
  <2>2. canUsePersistentContainers(f)
    BY <1>2 DEF RunInv, PhaseInv
  <2>3. canUsePersistentContainers(g)
    BY <1>2, <2>1 DEF RunInv, ReusedInv, KeptInv, OfSpecs
  <2> HIDE DEF f, g
  <2>4. NeedsGRPC(f) = NeedsGRPC(g)
    BY <2>1, <2>2, <2>3 DEF GRPCAlike
  <2>5. ~NeedsKafkaProxy(f) /\ ~NeedsKafkaProxy(g)
    BY <2>2, <2>3 DEF canUsePersistentContainers, NeedsKafkaProxy
  <2> QED BY <2>1, <2>4, <2>5 DEF AppEnvironment, f, g
<1> QED BY <1>1, <1>2

\* Each alias leads to a container that was started for it.
LEMMA AliasHeld ==
  ASSUME MySQLHostNamed, HostOK, NEW r \in Runs, NEW s, SharedInv(containers, r, s), s.phase = "test",
         NEW f \in Specs(r), Alive(containers, r, f), NEW alias \in AppEnvironment(f)
  PROVE  Holders(r, alias) \cap (StartedBy(r, f) \cup {SharedDB(r), SharedKafka(r)}) # {}
<1>1. ASSUME NEW step, alias \in step.aliases, Runs1(containers, r, step)
      PROVE  step.name \in Holders(r, alias)
  BY <1>1 DEF Runs1, HostOK, Holders, Up, Exists
<1>2. CASE \E step \in Range(SpecPlan(r, f)) : step.do = "start" /\ alias \in step.aliases
  <2>1. PICK step \in Range(SpecPlan(r, f)) : step.do = "start" /\ alias \in step.aliases
    BY <1>2
  <2>2. Runs1(containers, r, step) /\ step.name \in StartedBy(r, f)
    BY <2>1, PlanStarts DEF Alive
  <2> QED BY <1>1, <2>1, <2>2
<1>3. CASE \E step \in Range(SetupPlan(r)) : step.do = "start" /\ alias \in step.aliases
  <2>1. PICK step \in Range(SetupPlan(r)) : step.do = "start" /\ alias \in step.aliases
    BY <1>3
  <2>2. Runs1(containers, r, step) /\ step.name \in {SharedDB(r), SharedKafka(r)}
    BY <2>1, SetupNames DEF SharedInv, OfSpecs, SetupDone
  <2> QED BY <1>1, <2>1, <2>2
<1> QED BY <1>2, <1>3, EnvironmentServed

\* What a run started under the names of one of its specs, its plan starts.
LEMMA StartedForSpec ==
  ASSUME SpecNamesApart, NEW r \in Runs, NEW g \in Specs(r), NEW n \in SpecNames(r, g) \cap Startable(r)
  PROVE  n \in StartedBy(r, g)
<1>1. n[1] \in {"engine", "proxy", "app"}
  BY NamesTell
<1>2. n \notin {SharedDB(r), SharedKafka(r)} \cup {MigrateName(r, v) : v \in Services}
  BY <1>1, NamesTell
<1>3. PICK f \in Specs(r) : n \in StartedBy(r, f)
  BY <1>2 DEF Startable
<1>4. f = g
  BY <1>3, StartedByPlan, SpecsApart
<1> QED BY <1>3, <1>4

\* And to no container of another spec, unless the code lost sight of it.
LEMMA AliasOwn ==
  ASSUME SpecNamesApart, AliasesApart, HostInv, SpecInv, NEW r \in Runs, run[r].phase = "test",
         NEW alias \in AppEnvironment(run[r].on), NEW n \in Holders(r, alias)
  PROVE  n \in StartedBy(r, run[r].on) \cup {SharedDB(r), SharedKafka(r)} \cup run[r].lost
<1> DEFINE s == run[r]
           on == s.on
<1>1. RunOK(r, s) /\ RunInv(containers, r, s) /\ HasNetwork(r) /\ Accounts(r) /\ OwnStarted
  BY DEF HostInv, RunsOK, SpecInv
<1>2. on \in Specs(r) /\ on.service = SpecAt(r, s).service
  BY <1>1, TestOn
<1>3. n \in DOMAIN containers /\ containers[n].up /\ containers[n].net = NetworkName(r) /\ alias \in containers[n].aliases
  BY DEF Holders, Up
<1>4. OwnNetwork(r)
  BY <1>1 DEF RunOK, StateTyped, HasNetwork, OwnNetwork, Phases
<1>5. containers[n].owner = r /\ n \in Startable(r)
  BY <1>1, <1>3, <1>4, AttachedOwn DEF OwnStarted
<1>6. ~Migrating(s)
  BY <1>1 DEF Migrating, RunOK, PlanTyped
<1>7. n \in Held(r, s)
  BY <1>1, <1>3, <1>5, <1>6 DEF Accounts, Known
<1>8. CASE n \in Range(s.owned)
  <2>1. s.owned \in Seq({SharedDB(r), SharedKafka(r)})
    BY <1>1 DEF RunOK, GuardsTyped
  <2> QED BY <1>8, <2>1 DEF Range
<1>9. CASE n \in Range(s.undo)
  <2>1. s.undo # << >> /\ s.undo \in Seq(StartedBy(r, SpecAt(r, s)))
    BY <1>1, <1>9 DEF RunOK, GuardsTyped, Range
  <2>2. s.todo # << >>
    BY <1>1, <2>1 DEF RunOK, GuardsTyped
  <2>3. on = SpecAt(r, s)
    BY <1>1, <2>2, FreshHere DEF IsFresh
  <2> QED BY <1>9, <2>1, <2>3 DEF Range
<1>10. ASSUME NEW v \in Services, s.kept[v] # None, n \in PersistentNames(r, s.kept[v].spec)
       PROVE  n \in StartedBy(r, on)
  <2> DEFINE g == s.kept[v].spec
  <2>1. g \in Specs(r)
    BY <1>1, <1>10, KeptSpec DEF RunOK
  <2>2. g.service = v /\ canUsePersistentContainers(g) /\ Alive(containers, r, g)
    BY <1>1, <1>10 DEF RunInv, KeptInv, OfSpecs
  <2>3. PersistentNames(r, g) \subseteq SpecNames(r, g)
    BY <2>1, StartedByPlan DEF PersistentNames, SpecNames
  <2>4. n \in StartedBy(r, g)
    BY <1>5, <1>10, <2>1, <2>3, StartedForSpec
  <2>5. CASE v = on.service
    <3>1. s.todo = << >>
      BY <1>1, <1>2, <1>10, <2>5 DEF RunOK, KeptTyped
    <3>2. on = g
      BY <1>1, <1>2, <2>5, <3>1 DEF RunInv, ReusedInv
    <3> QED BY <2>4, <3>2
  <2>6. CASE v # on.service
    <3>1. PICK step \in Range(SpecPlan(r, g)) : step.do = "start" /\ containers[n].aliases = step.aliases
      BY <2>1, <2>2, <2>4, AliveStarted
    <3>2. step.aliases \cap AppEnvironment(on) = {}
      BY <1>2, <2>1, <2>2, <2>6, <3>1 DEF AliasesApart
    <3> QED BY <1>3, <3>1, <3>2
  <2> QED BY <2>5, <2>6
<1> QED BY <1>7, <1>8, <1>9, <1>10 DEF Held

\* Whatever fails, whatever another run does, on fresh containers and on kept
\* ones: when a spec is triggered its containers run, its databases are migrated
\* and every alias its service was told to use leads to containers of this very
\* spec, provided that configurations name containers apart, that no two services
\* of a run want one alias, that a MySQL without a proxy is called db, and that
\* the specs of a service agree on gRPC (run(), prepareForReuse).
THEOREM ServiceAlwaysReady ==
  NamesApart /\ SpecNamesApart /\ AliasesApart /\ GRPCAlike /\ MySQLHostNamed => (Spec => []ServiceReady)
<1> SUFFICES ASSUME NamesApart, SpecNamesApart, AliasesApart, GRPCAlike, MySQLHostNamed
             PROVE  Spec => []ServiceReady
  OBVIOUS
<1>1. HostInv /\ SpecInv /\ [Next]_vars => SpecInv'
  BY SpecNext
<1>2. HostInv /\ SpecInv => ServiceReady
  <2> SUFFICES ASSUME HostInv, SpecInv, NEW r \in Runs, run[r].phase = "test"
               PROVE  LET f == run[r].on
                          mine == StartedBy(r, f) \cup {SharedDB(r), SharedKafka(r)} IN
                      /\ \A n \in StartedBy(r, f) \cup Databases(r, f) : Up(n)
                      /\ Service[f.service].migrates => \A n \in Databases(r, f) : containers[n].schema # None
                      /\ \A alias \in AppEnvironment(SpecOf(r)) :
                            Holders(r, alias) \cap mine # {} /\ Holders(r, alias) \subseteq mine \cup run[r].lost
    BY DEF ServiceReady
  <2> DEFINE s == run[r]
             f == s.on
  <2>1. RunOK(r, s) /\ RunInv(containers, r, s) /\ HostOK /\ SharedInv(containers, r, s)
    BY DEF HostInv, RunsOK, SpecInv, RunInv
  <2>2. f \in Specs(r) /\ Alive(containers, r, f)
    BY <2>1, TestOn
  <2>3. \A n \in StartedBy(r, f) \cup Databases(r, f) : Up(n)
    BY <2>1, <2>2, DatabasesUp
  <2>4. Service[f.service].migrates => \A n \in Databases(r, f) : containers[n].schema # None
    BY <2>1, <2>2, DatabasesMigrated
  <2>5. AppEnvironment(SpecOf(r)) = AppEnvironment(f)
    BY <2>1, SameEnvironment DEF SpecOf, SpecAt
  <2> HIDE DEF f, s
  <2>6. ASSUME NEW alias \in AppEnvironment(f)
        PROVE  Holders(r, alias) \cap (StartedBy(r, f) \cup {SharedDB(r), SharedKafka(r)}) # {}
    BY <2>1, <2>2, AliasHeld DEF s
  <2>7. ASSUME NEW alias \in AppEnvironment(f), NEW n \in Holders(r, alias)
        PROVE  n \in StartedBy(r, f) \cup {SharedDB(r), SharedKafka(r)} \cup run[r].lost
    BY AliasOwn DEF f, s
  <2> QED BY <2>3, <2>4, <2>5, <2>6, <2>7 DEF f, s
<1> QED BY <1>1, <1>2, SpecInit, Invariant, PTL DEF Spec

\* And it runs on nothing else: its proxies answer from its registry and its
\* engines hold no row of a spec before it, provided moreover that no truncation
\* fails and that every verify port is published in time, the two failures the
\* code tolerates (reloadProxy, the truncate functions).
THEOREM SpecAlwaysRunsOnItsOwn ==
  NamesApart /\ SpecNamesApart /\ AliasesApart /\ GRPCAlike /\ MySQLHostNamed
    /\ "truncate" \notin Faults /\ "inspect" \notin Faults
    => (Spec => []SpecRunsOnItsOwn)
<1> SUFFICES ASSUME NamesApart, SpecNamesApart, AliasesApart, GRPCAlike, MySQLHostNamed,
                    "truncate" \notin Faults, "inspect" \notin Faults
             PROVE  Spec => []SpecRunsOnItsOwn
  OBVIOUS
<1>1. HostInv /\ SpecInv /\ [Next]_vars => SpecInv'
  BY SpecNext
<1>2. HostInv /\ SpecInv => ProxiesServeTheSpec /\ EnginesStartClean
  <2> SUFFICES ASSUME HostInv, SpecInv, NEW r \in Runs, run[r].phase = "test"
               PROVE  /\ \A n \in ProxiesOf(r, run[r].on) : containers[n].serves = run[r].at
                      /\ \A n \in Databases(r, run[r].on) \ {SharedDB(r)} : ~containers[n].dirty
    BY DEF ProxiesServeTheSpec, EnginesStartClean
  <2> DEFINE s == run[r]
             f == s.on
  <2>1. RunOK(r, s) /\ RunInv(containers, r, s)
    BY DEF HostInv, RunsOK, SpecInv
  <2>2. f \in Specs(r) /\ SpecAt(r, s).service \in Services
    BY <2>1, TestOn
  <2>3. CASE s.todo # << >>
    <3>1. \A step \in Range(SpecPlan(r, f)) : StepDone(containers, r, s, f, step)
      BY <2>1, <2>3, FreshDone
    <3>2. \A n \in StartedBy(r, f) : containers[n].serves = s.at /\ ~containers[n].dirty
      BY <2>2, <3>1, PlanStarts DEF StepDone
    <3> QED BY <2>2, <3>2, PlanStarts DEF ProxiesOf
  <2>4. CASE s.todo = << >>
    <3> DEFINE pc == s.kept[SpecAt(r, s).service]
    <3>1. /\ pc # None
          /\ \A n \in ProxiesOf(r, f) \ pc.unread : containers[n].serves = s.at
          /\ \A n \in Databases(r, f) \ {SharedDB(r)} : ~containers[n].dirty
      BY <2>1, <2>4 DEF RunInv, ReusedInv
    <3>2. pc.unread = {}
      BY <2>1, <2>2, <3>1 DEF RunInv, AllRead
    <3> QED BY <3>1, <3>2
  <2> QED BY <2>3, <2>4
<1>3. Spec => []ServiceReady
  BY ServiceAlwaysReady
<1>4. ServiceReady /\ ProxiesServeTheSpec /\ EnginesStartClean => SpecRunsOnItsOwn
  BY DEF SpecRunsOnItsOwn
<1> QED BY <1>1, <1>2, <1>3, <1>4, SpecInit, Invariant, PTL DEF Spec
=============================================================================
