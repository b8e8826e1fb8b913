----------------------------- MODULE SuiteProofs -----------------------------
(***************************************************************************)
(* Theorems about the Docker host of suites, for any number of runs, any   *)
(* services, specs and databases, any faults and any interleaving.         *)
(***************************************************************************)
EXTENDS SuiteProperties, SequenceTheorems, FiniteSetTheorems, NaturalsInduction, WellFoundedInduction, TLAPS

-----------------------------------------------------------------------------
(***************************************************************************)
(* Sequences of sequences.  What FlattenSeq builds is a sequence, by the   *)
(* least index at which it would not be.                                   *)
(***************************************************************************)
LEMMA LeastNat ==
  ASSUME NEW T \in SUBSET Nat, T # {}
  PROVE  \E n \in T : \A m \in T : n <= m
<1>1. \E n \in T : \A m \in T : ~ (<<m, n>> \in OpToRel(<, Nat))
  BY NatLessThanWellFounded, WFMin
<1>2. PICK n \in T : \A m \in T : ~ (<<m, n>> \in OpToRel(<, Nat))
  BY <1>1
<1>3. \A m \in T : ~(m < n)
  BY <1>2 DEF OpToRel
<1> QED BY <1>3

Flattens(f, seqs, n) ==
  f = [i \in 1..n |-> IF i = 1 THEN seqs[i] ELSE f[i-1] \o seqs[i]]

LEMMA FlattensExists ==
  ASSUME NEW seqs, NEW L \in Nat
  PROVE  \E f : Flattens(f, seqs, L)
<1> DEFINE Bad == {n \in Nat : ~ \E f : Flattens(f, seqs, n)}
<1> SUFFICES ASSUME Bad # {} PROVE FALSE
  OBVIOUS
<1>1. PICK n \in Bad : \A m \in Bad : n <= m
  BY LeastNat
<1>2. CASE n = 0
  <2>1. Flattens([i \in 1..0 |-> 0], seqs, 0)
    BY DEF Flattens
  <2> QED BY <2>1, <1>1, <1>2
<1>3. CASE n # 0
  <2>1. n \in Nat /\ n - 1 \in Nat /\ n - 1 \notin Bad
    BY <1>1, <1>3
  <2>2. PICK f : Flattens(f, seqs, n - 1)
    BY <2>1
  <2> DEFINE v == IF n = 1 THEN seqs[n] ELSE f[n-1] \o seqs[n]
             g == [i \in 1..n |-> IF i = n THEN v ELSE f[i]]
  <2>3. ASSUME NEW i \in 1..n PROVE g[i] = IF i = 1 THEN seqs[i] ELSE g[i-1] \o seqs[i]
    <3>1. CASE i = n
      BY <3>1, <2>1
    <3>2. CASE i # n
      <4>1. i \in 1..(n-1)
        BY <3>2, <2>1
      <4>2. f[i] = IF i = 1 THEN seqs[i] ELSE f[i-1] \o seqs[i]
        BY <2>2, <4>1 DEF Flattens
      <4> QED BY <4>1, <4>2, <2>1
    <3> QED BY <3>1, <3>2
  <2>4. Flattens(g, seqs, n)
    <3> HIDE DEF v
    <3>1. g = [i \in 1..n |-> g[i]]
      OBVIOUS
    <3> HIDE DEF g
    <3> QED BY <3>1, <2>3 DEF Flattens
  <2> QED BY <2>4, <1>1
<1> QED BY <1>2, <1>3

LEMMA FlattenType ==
  ASSUME NEW S, NEW seqs \in Seq(Seq(S))
  PROVE  FlattenSeq(seqs) \in Seq(S)
<1> DEFINE L == Len(seqs)
<1>0. L \in Nat /\ \A i \in 1..L : seqs[i] \in Seq(S)
  OBVIOUS
<1>2. CASE L = 0
  BY <1>2 DEF FlattenSeq
<1>3. CASE L # 0
  <2> DEFINE flat == CHOOSE f : Flattens(f, seqs, L)
  <2>1. FlattenSeq(seqs) = flat[L]
    BY <1>3 DEF FlattenSeq, Flattens
  <2>2. Flattens(flat, seqs, L)
    BY <1>0, FlattensExists
  <2> HIDE DEF flat
  <2> DEFINE Wrong == {n \in Nat : n \in 1..L /\ flat[n] \notin Seq(S)}
  <2>3. Wrong = {}
    <3>1. SUFFICES ASSUME Wrong # {} PROVE FALSE
      OBVIOUS
    <3>2. PICK n \in Wrong : \A m \in Wrong : n <= m
      BY <3>1, LeastNat
    <3>3. flat[n] = IF n = 1 THEN seqs[n] ELSE flat[n-1] \o seqs[n]
      BY <3>2, <2>2 DEF Flattens
    <3>4. n # 1 => flat[n-1] \in Seq(S)
      <4>1. n \in Nat /\ n \in 1..L
        BY <3>2
      <4>2. n # 1 => n - 1 \in Nat /\ n - 1 \in 1..L /\ ~(n <= n - 1)
        BY <4>1, <1>0
      <4> QED BY <4>2, <3>2
    <3>5. flat[n] \in Seq(S)
      BY <3>3, <3>4, <3>2, <1>0
    <3> QED BY <3>5, <3>2
  <2> QED BY <2>1, <2>3, <1>0, <1>3
<1> QED BY <1>2, <1>3

-----------------------------------------------------------------------------
(***************************************************************************)
(* The steps of the plans.                                                 *)
(***************************************************************************)
Aliases(f) ==
  {{Real(h)} : h \in HostsOf(f)} \cup {{At(h)} : h \in HostsOf(f)}
    \cup {Dependencies(Service[f.service].http), {At("kafka-proxy")}, {At("redis-proxy")}, {},
          Dependencies({"grpc-proxy"} \cup Service[f.service].grpc)}

Migrations == [do : {"migrate", "migrating"}, service : Services]

SpecStarts(r, f) == [do : {"start"}, name : SpecNames(r, f), aliases : Aliases(f), shared : {FALSE}]

SpecSteps(r, f) == SpecStarts(r, f) \cup [do : {"inspect", "test"}] \cup Migrations

SetupSteps(r) ==
  [do : {"start"}, name : {SharedDB(r), SharedKafka(r)}, aliases : {{NetworkAlias}, {At("kafka")}}, shared : {TRUE}]
    \cup [do : {"schema", "specs"}] \cup Migrations

LEMMA SpecsTyped ==
  ASSUME NEW r \in Runs, NEW f \in Specs(r)
  PROVE  /\ f.service \in Services
         /\ Service[f.service].dbs \in Seq(DatabasesOf(f))
         /\ \A db \in DatabasesOf(f) : /\ db.type \in {"oracle", "postgresql", "mysql", "mongodb"}
                                       /\ db.host \in HostsOf(f)
BY SuiteAssumption DEF Specs, Range, DatabasesOf, HostsOf

LEMMA Concat ==
  ASSUME NEW S, NEW a \in Seq(S), NEW b \in Seq(S)
  PROVE  a \o b \in Seq(S)
OBVIOUS

LEMMA Conditional ==
  ASSUME NEW S, NEW cond, NEW steps \in Seq(S)
  PROVE  If(cond, steps) \in Seq(S)
BY DEF If

LEMMA SequenceOf ==
  ASSUME NEW T, NEW n \in Nat, NEW g, g = [i \in 1..n |-> g[i]], \A i \in 1..n : g[i] \in T
  PROVE  g \in Seq(T)
OBVIOUS

LEMMA Wider ==
  ASSUME NEW S, NEW T, S \subseteq T, NEW q \in Seq(S)
  PROVE  q \in Seq(T)
OBVIOUS

LEMMA DatabaseStepsTyped ==
  ASSUME NEW r \in Runs, NEW f \in Specs(r)
  PROVE  DatabaseSteps(r, f) \in Seq(SpecStarts(r, f))
<1> DEFINE S == SpecStarts(r, f)
           dbs == Service[f.service].dbs
           steps(db) == CASE db.type = "oracle"     -> OracleSteps(r, f, db)
                          [] db.type = "postgresql" -> PostgreSQLSteps(r, f, db)
                          [] db.type = "mysql"      -> MySQLSteps(r, f, db)
                          [] db.type = "mongodb"    -> MongoDBSteps(r, f, db)
<1>1. ASSUME NEW db \in DatabasesOf(f)
      PROVE  steps(db) \in Seq(S)
  <2>1. db.host \in HostsOf(f) /\ db.type \in {"oracle", "postgresql", "mysql", "mongodb"}
    BY <1>1, SpecsTyped
  <2>2. EngineSteps(r, f, db) \in Seq(S)
    <3>1. Starts(EngineName(r, f, db), {Real(db.host)}) \in S
      BY <1>1, <2>1 DEF Starts, SpecStarts, SpecNames, Aliases
    <3> HIDE DEF S
    <3> QED BY <3>1 DEF EngineSteps
  <2>3. ProxySteps(r, f, db) \in Seq(S)
    <3>1. Starts(ProxyName(r, f, db.host), {At(db.host)}) \in S
      BY <1>1, <2>1 DEF Starts, SpecStarts, SpecNames, Aliases
    <3> HIDE DEF S
    <3>2. <<Starts(ProxyName(r, f, db.host), {At(db.host)})>> \in Seq(S)
      BY <3>1
    <3> QED BY <3>2, Conditional DEF ProxySteps
  <2>4. EngineSteps(r, f, db) \o ProxySteps(r, f, db) \in Seq(S)
    BY <2>2, <2>3, Concat
  <2> QED BY <2>1, <2>3, <2>4 DEF OracleSteps, PostgreSQLSteps, MySQLSteps, MongoDBSteps
<1>2. dbs \in Seq(DatabasesOf(f))
  BY SpecsTyped
<1>3. [i \in DOMAIN dbs |-> steps(dbs[i])] \in Seq(Seq(S))
  <2> HIDE DEF S, steps
  <2> DEFINE g == [i \in DOMAIN dbs |-> steps(dbs[i])]
  <2>1. Len(dbs) \in Nat /\ g = [i \in 1..Len(dbs) |-> g[i]]
    BY <1>2
  <2>2. \A i \in 1..Len(dbs) : g[i] \in Seq(S)
    BY <1>1, <1>2
  <2> HIDE DEF g
  <2> QED BY <2>1, <2>2, SequenceOf DEF g
<1>4. DatabaseSteps(r, f) = FlattenSeq([i \in DOMAIN dbs |-> steps(dbs[i])])
  BY DEF DatabaseSteps
<1> HIDE DEF S, steps, dbs
<1> QED BY <1>3, <1>4, FlattenType DEF S

LEMMA SpecPlanTyped ==
  ASSUME NEW r \in Runs, NEW f \in Specs(r)
  PROVE  SpecPlan(r, f) \in Seq(SpecSteps(r, f))
<1> DEFINE S == SpecSteps(r, f)
<1>1. DatabaseSteps(r, f) \in Seq(S)
  <2>1. SpecStarts(r, f) \subseteq S
    BY DEF SpecSteps
  <2> HIDE DEF S
  <2> QED BY <2>1, DatabaseStepsTyped, Wider
<1>2. HTTPSteps(r, f) \in Seq(S)
  <2>1. <<Starts(ProxyName(r, f, "http"), Dependencies(Service[f.service].http))>> \in Seq(S)
    BY DEF Starts, SpecSteps, SpecStarts, SpecNames, Aliases
  <2> QED BY <2>1, Conditional DEF HTTPSteps
<1>3. KafkaSteps(r, f) \in Seq(S)
  <2>1. <<Starts(ProxyName(r, f, "kafka"), {At("kafka-proxy")})>> \in Seq(S)
    BY DEF Starts, SpecSteps, SpecStarts, SpecNames, Aliases
  <2> QED BY <2>1, Conditional DEF KafkaSteps
<1>4. GRPCSteps(r, f) \in Seq(S)
  <2>1. <<Starts(ProxyName(r, f, "grpc"), Dependencies({"grpc-proxy"} \cup Service[f.service].grpc))>> \in Seq(S)
    BY DEF Starts, SpecSteps, SpecStarts, SpecNames, Aliases
  <2> QED BY <2>1, Conditional DEF GRPCSteps
<1>5. RedisSteps(r, f) \in Seq(S)
  <2>1. <<Starts(ProxyName(r, f, "redis"), {At("redis-proxy")})>> \in Seq(S)
    BY DEF Starts, SpecSteps, SpecStarts, SpecNames, Aliases
  <2> QED BY <2>1, Conditional DEF RedisSteps
<1>6. MigrationSteps(f) \in Seq(S)
  <2>1. [do |-> "migrate", service |-> f.service] \in Migrations
    BY SpecsTyped DEF Migrations
  <2>2. [do |-> "migrate", service |-> f.service] \in S
    BY <2>1 DEF SpecSteps, SpecStarts
  <2> HIDE DEF S
  <2>3. <<[do |-> "migrate", service |-> f.service]>> \in Seq(S)
    BY <2>2
  <2> QED BY <2>3, Conditional DEF MigrationSteps
<1>7. AppSteps(r, f) \in Seq(S)
  BY DEF AppSteps, Starts, SpecSteps, SpecStarts, SpecNames, Aliases
<1>8. <<Does("inspect")>> \in Seq(S) /\ <<Does("test")>> \in Seq(S)
  BY DEF Does, SpecSteps, SpecStarts
<1> HIDE DEF S
<1> QED BY <1>1, <1>2, <1>3, <1>4, <1>5, <1>6, <1>7, <1>8, Concat DEF SpecPlan, S

\* Every name a plan starts a container under is one of StartedBy.
LEMMA StartedByPlan ==
  ASSUME NEW r \in Runs, NEW f \in Specs(r)
  PROVE  /\ \A i \in DOMAIN SpecPlan(r, f) : SpecPlan(r, f)[i].do = "start" => SpecPlan(r, f)[i].name \in StartedBy(r, f)
         /\ StartedBy(r, f) \subseteq SpecNames(r, f)
<1>1. \A step \in SpecSteps(r, f) : step.do = "start" => step.name \in SpecNames(r, f)
  BY DEF SpecSteps, SpecStarts, Migrations
<1>2. \A i \in DOMAIN SpecPlan(r, f) : SpecPlan(r, f)[i] \in SpecSteps(r, f)
  BY SpecPlanTyped
<1> QED BY <1>1, <1>2 DEF StartedBy

LEMMA SetupPlanTyped ==
  ASSUME NEW r \in Runs
  PROVE  SetupPlan(r) \in Seq(SetupSteps(r))
<1> DEFINE S == SetupSteps(r)
<1>1. SetupDatabase(r) \in Seq(S)
  <2>1. <<StartsShared(SharedDB(r), {NetworkAlias})>> \in Seq(S)
    BY DEF StartsShared, SetupSteps
  <2> QED BY <2>1, Conditional DEF SetupDatabase
<1>2. SetupMigrations \in Seq(S)
  <2> DEFINE M == {s \in Services : Service[s].migrates /\ ~HasType(s, NonMySQL)}
             now == SetToSeq(M)
             g == [i \in DOMAIN now |-> [do |-> "migrate", service |-> now[i]]]
  <2>1. IsFiniteSet(M) /\ Cardinality(M) \in Nat
    BY SuiteAssumption, FS_Subset, FS_CardinalityType
  <2>2. \E h \in [1..Cardinality(M) -> M] : IsInjective(h)
    <3>1. PICK h \in Bijection(1..Cardinality(M), M) : TRUE
      BY <2>1, FS_CardinalityType DEF ExistsBijection
    <3> QED BY <3>1 DEF Bijection, Injection, IsInjective
  <2>3. now \in [1..Cardinality(M) -> M]
    BY <2>2 DEF SetToSeq
  <2> HIDE DEF now
  <2>4. g = [i \in 1..Cardinality(M) |-> g[i]] /\ \A i \in 1..Cardinality(M) : g[i] \in S
    BY <2>3 DEF SetupSteps, Migrations
  <2>5. SetupMigrations = g
    BY DEF SetupMigrations, now
  <2> HIDE DEF g, M
  <2> QED BY <2>1, <2>4, <2>5, SequenceOf
<1>3. SetupKafka(r) \in Seq(S)
  BY DEF SetupKafka, StartsShared, SetupSteps
<1>4. <<Does("schema")>> \in Seq(S) /\ <<Does("specs")>> \in Seq(S)
  BY DEF Does, SetupSteps
<1> HIDE DEF S
<1> QED BY <1>1, <1>2, <1>3, <1>4, Concat DEF SetupPlan, S

\* The steps of a fresh spec, with the names StartedBy gives.
FreshSteps(r, f) == {step \in SpecSteps(r, f) : step.do = "start" => step.name \in StartedBy(r, f)}

LEMMA FreshPlanTyped ==
  ASSUME NEW r \in Runs, NEW f \in Specs(r)
  PROVE  SpecPlan(r, f) \in Seq(FreshSteps(r, f))
<1>1. SpecPlan(r, f) \in Seq(SpecSteps(r, f))
  BY SpecPlanTyped
<1>2. \A i \in DOMAIN SpecPlan(r, f) : SpecPlan(r, f)[i] \in FreshSteps(r, f)
  BY <1>1, StartedByPlan DEF FreshSteps
<1> QED BY <1>1, <1>2, SequenceOf

\* The names a run starts containers under; the others of its names it only removes.
Startable(r) ==
  {SharedDB(r), SharedKafka(r)} \cup {MigrateName(r, s) : s \in Services} \cup UNION {StartedBy(r, f) : f \in Specs(r)}

LEMMA NamesOfSpec ==
  ASSUME NEW r \in Runs, NEW f \in Specs(r)
  PROVE  /\ StartedBy(r, f) \subseteq PersistentNames(r, f)
         /\ PersistentNames(r, f) \subseteq NamesOf(r) /\ PreCleanupNames(r, f) \subseteq NamesOf(r)
<1>1. SpecNames(r, f) \subseteq NamesOf(r)
  BY DEF NamesOf
<1>2. PersistentNames(r, f) \subseteq SpecNames(r, f) /\ PreCleanupNames(r, f) \subseteq SpecNames(r, f)
  BY StartedByPlan DEF PersistentNames, PreCleanupNames, SpecNames
<1> QED BY <1>1, <1>2 DEF PersistentNames

-----------------------------------------------------------------------------
(***************************************************************************)
(* Types.                                                                  *)
(***************************************************************************)
SpecAt(r, s) == Files[r][s.at]
OfASpec == {"reuse", "fresh", "test", "unwind"}

StateTyped(r, s) ==
  /\ DOMAIN NewRun \subseteq DOMAIN s
  /\ s.phase \in Phases /\ s.tries \in Nat /\ s.network \in BOOLEAN
  /\ s.at \in 0..Len(Files[r]) /\ (s.phase \in OfASpec => s.at # 0)
  /\ s.phase \in Phases \ {"new", "cleanup", "done"} => s.network
  /\ s.phase = "new" => ~s.network /\ s.tries = 0
  /\ s.phase \notin {"cleanup", "done"} => s.tries = 0

\* What is still to do.
PlanTyped(r, s) ==
  /\ s.phase = "setup" => s.todo \in Seq(SetupSteps(r))
  /\ s.phase \in {"fresh", "test"} => s.todo \in Seq(FreshSteps(r, SpecAt(r, s)))
  /\ s.phase \notin {"setup", "fresh", "test"} => s.todo = << >>
  /\ s.phase = "test" /\ s.todo # << >> => Head(s.todo).do = "test"

\* The containers that are tracked, and those that are guarded.
GuardsTyped(r, s) ==
  /\ s.owned \in Seq({SharedDB(r), SharedKafka(r)})
  /\ s.phase \in {"fresh", "test", "unwind"} => s.undo \in Seq(StartedBy(r, SpecAt(r, s)))
  /\ s.phase \notin {"fresh", "test", "unwind"} => s.undo = << >>
  /\ s.phase = "test" /\ s.todo = << >> => s.undo = << >>

\* The containers kept for the next spec of a service.
KeptTyped(r, s) ==
  /\ s.unread \subseteq UNION {StartedBy(r, f) : f \in Specs(r)}
  /\ s.kept \in [Services -> KeptEntry(r) \cup {None}]
  /\ s.phase = "reuse" => s.kept[SpecAt(r, s).service] # None
  /\ s.phase = "fresh" \/ (s.phase = "test" /\ s.todo # << >>) => s.kept[SpecAt(r, s).service] = None

RunOK(r, s) == StateTyped(r, s) /\ PlanTyped(r, s) /\ GuardsTyped(r, s) /\ KeptTyped(r, s)

RunsOK == DOMAIN run = Runs /\ \A r \in Runs : RunOK(r, run[r])

HostOK ==
  /\ \A n \in DOMAIN containers :
       /\ {"owner", "net", "up", "aliases", "schema", "dirty", "serves"} \subseteq DOMAIN containers[n]
       /\ containers[n].owner \in Runs /\ containers[n].net = NetworkName(containers[n].owner)
       /\ containers[n].up \in BOOLEAN
  /\ \A net \in DOMAIN networks :
       /\ {"owner", "lingers"} \subseteq DOMAIN networks[net] /\ networks[net].lingers \in BOOLEAN
       /\ networks[net].owner \in Runs /\ net = NetworkName(networks[net].owner)

LEMMA AtSpec ==
  ASSUME NEW r \in Runs, NEW s, StateTyped(r, s), s.at # 0
  PROVE  SpecAt(r, s) \in Specs(r) /\ SpecAt(r, s).service \in Services
<1>1. s.at \in DOMAIN Files[r]
  BY SuiteAssumption DEF StateTyped
<1> QED BY <1>1, SuiteAssumption DEF SpecAt, Specs, Range

-----------------------------------------------------------------------------
(***************************************************************************)
(* What the step of a run does to the host, and to the other runs.         *)
(***************************************************************************)
Stays(n) ==
  /\ n \in DOMAIN containers
  /\ containers'[n].owner = containers[n].owner /\ containers'[n].net = containers[n].net
  /\ containers'[n].up = containers[n].up

Starting(r, n) ==
  /\ n \in NamesOf(r) \cap Startable(r) /\ containers'[n].owner = r /\ containers'[n].net = NetworkName(r)
  /\ containers'[n].up \in BOOLEAN /\ run[r].phase \in {"setup", "fresh"}

ContainerStep(r) ==
  /\ \A n \in DOMAIN containers' :
       /\ {"owner", "net", "up", "aliases", "schema", "dirty", "serves"} \subseteq DOMAIN containers'[n]
       /\ Stays(n) \/ Starting(r, n)
  /\ \A n \in DOMAIN containers : n \notin DOMAIN containers' => n \in NamesOf(r)

Disturbed(r, net) == \E n \in NamesOf(r) : Up(n) /\ containers[n].net = net

SameNetworks(r) ==
  /\ DOMAIN networks' = DOMAIN networks
  /\ \A net \in DOMAIN networks :
       /\ {"owner", "lingers"} \subseteq DOMAIN networks'[net]
       /\ networks'[net].owner = networks[net].owner /\ networks'[net].lingers \in BOOLEAN
       /\ networks'[net].lingers => networks[net].lingers \/ Disturbed(r, net)

RunStep(r) == DOMAIN run' = Runs /\ (\A q \in Runs : q # r => run'[q] = run[q]) /\ RunOK(r, run'[r])

\* Nothing of a run is out of its sight but what it lost.
Migrating(s) == s.todo # << >> /\ Head(s.todo).do = "migrating"

Held(r, s) ==
  s.lost \cup Range(s.owned) \cup Range(s.undo)
    \cup UNION {PersistentNames(r, s.kept[t].spec) : t \in {u \in Services : s.kept[u] # None}}

Known(r, s) == Held(r, s) \cup (IF Migrating(s) THEN {MigrateName(r, Head(s.todo).service)} ELSE {})

Accounts(r) == \A n \in DOMAIN containers : containers[n].owner = r => n \in Known(r, run[r])

LEMMA HostKept ==
  ASSUME HostOK, NEW r \in Runs, containers' = containers
  PROVE  ContainerStep(r)
BY DEF HostOK, ContainerStep, Stays

LEMMA NetworksKept ==
  ASSUME HostOK, NEW r \in Runs, networks' = networks
  PROVE  SameNetworks(r)
BY DEF HostOK, SameNetworks

LEMMA Detached ==
  ASSUME HostOK, NEW r \in Runs, NEW names, names \subseteq NamesOf(r), networks' = Detaching(names)
  PROVE  SameNetworks(r)
<1>1. \A net \in DOMAIN networks :
        networks'[net] = [networks[net] EXCEPT !.lingers = @ \/ \E c \in names : Up(c) /\ containers[c].net = net]
  BY DEF Detaching
<1>2. DOMAIN networks' = DOMAIN networks
  BY DEF Detaching
<1>3. ASSUME NEW net \in DOMAIN networks
      PROVE  /\ {"owner", "lingers"} \subseteq DOMAIN networks'[net]
             /\ networks'[net].owner = networks[net].owner /\ networks'[net].lingers \in BOOLEAN
             /\ networks'[net].lingers => networks[net].lingers \/ Disturbed(r, net)
  <2> DEFINE hit == \E c \in names : Up(c) /\ containers[c].net = net
  <2>1. networks'[net] = [networks[net] EXCEPT !.lingers = @ \/ hit]
    BY <1>1
  <2>2. {"owner", "lingers"} \subseteq DOMAIN networks[net] /\ networks[net].lingers \in BOOLEAN
    BY DEF HostOK
  <2>3. hit => Disturbed(r, net)
    BY DEF Disturbed
  <2>4. hit \in BOOLEAN
    OBVIOUS
  <2> HIDE DEF hit
  <2>5. /\ DOMAIN networks'[net] = DOMAIN networks[net] /\ networks'[net].owner = networks[net].owner
        /\ networks'[net].lingers = (networks[net].lingers \/ hit)
    BY <2>1, <2>2
  <2> QED BY <2>2, <2>3, <2>4, <2>5
<1> QED BY <1>2, <1>3 DEF SameNetworks

LEMMA Stopped ==
  ASSUME HostOK, NEW r \in Runs, NEW names, names \subseteq NamesOf(r), NEW left, StopAndRemove(names, left)
  PROVE  /\ ContainerStep(r) /\ SameNetworks(r)
         /\ DOMAIN containers' = DOMAIN containers \ (names \ left)
         /\ \A n \in DOMAIN containers' : containers'[n] = containers[n]
<1>1. /\ DOMAIN containers' = DOMAIN containers \ (names \ left)
      /\ \A n \in DOMAIN containers' : containers'[n] = containers[n]
  BY DEF StopAndRemove, Without
<1>2. ContainerStep(r)
  BY <1>1 DEF HostOK, ContainerStep, Stays
<1>3. SameNetworks(r)
  BY Detached DEF StopAndRemove
<1> QED BY <1>1, <1>2, <1>3

LEMMA RunSteps ==
  ASSUME RunsOK, NEW r \in Runs, NEW s, run' = [run EXCEPT ![r] = s], RunOK(r, s)
  PROVE  RunStep(r) /\ run'[r] = s
BY DEF RunsOK, RunStep

LEMMA StillAccounts ==
  ASSUME HostOK, NEW r \in Runs, Accounts(r),
         \A n \in DOMAIN containers' : n \in DOMAIN containers /\ containers'[n].owner = containers[n].owner,
         Known(r, run[r]) \cap DOMAIN containers' \subseteq Known(r, run'[r])
  PROVE  Accounts(r)'
BY DEF Accounts

-----------------------------------------------------------------------------
(***************************************************************************)
(* The steps of a run, one by one.                                         *)
(***************************************************************************)
Accountable(r) == RunStep(r) /\ ContainerStep(r) /\ SameNetworks(r) /\ Accounts(r)'

\* Nothing on the host changes, and nothing the run knows of is forgotten.
LEMMA HostUntouched ==
  ASSUME RunsOK, HostOK, NEW r \in Runs, Accounts(r), NEW s, run' = [run EXCEPT ![r] = s], RunOK(r, s),
         containers' = containers, networks' = networks,
         Known(r, run[r]) \subseteq Known(r, s)
  PROVE  Accountable(r)
BY HostKept, NetworksKept, RunSteps, StillAccounts DEF Accountable

\* An aborted run keeps what it tracks and guards.
LEMMA AbortOK ==
  ASSUME NEW r \in Runs, NEW s, RunOK(r, s), s.phase \in {"setup", "fresh"}
  PROVE  /\ RunOK(r, Abort(r, s))
         /\ Abort(r, s).lost = s.lost /\ Abort(r, s).owned = s.owned
         /\ Abort(r, s).undo = s.undo /\ Abort(r, s).kept = s.kept /\ Abort(r, s).todo = << >>
<1> DEFINE t == Abort(r, s)
<1>1. /\ DOMAIN t = DOMAIN s
      /\ t.phase = (IF s.phase = "setup" THEN "cleanup" ELSE "unwind") /\ t.todo = << >>
      /\ t.at = s.at /\ t.tries = s.tries /\ t.network = s.network /\ t.owned = s.owned /\ t.undo = s.undo
      /\ t.kept = s.kept /\ t.unread = s.unread /\ t.lost = s.lost
  BY DEF Abort, RunOK, StateTyped, NewRun
<1> HIDE DEF t
<1>2. StateTyped(r, t)
  BY <1>1 DEF RunOK, StateTyped, Phases, OfASpec
<1>3. PlanTyped(r, t)
  BY <1>1 DEF PlanTyped
<1>4. GuardsTyped(r, t)
  BY <1>1 DEF RunOK, GuardsTyped, SpecAt
<1>5. KeptTyped(r, t)
  BY <1>1 DEF RunOK, KeptTyped, SpecAt
<1> QED BY <1>1, <1>2, <1>3, <1>4, <1>5 DEF RunOK, t

LEMMA FailsOK ==
  ASSUME RunsOK, HostOK, NEW r \in Runs, Accounts(r), Fails(r)
  PROVE  Accountable(r)
<1>1. RunOK(r, run[r]) /\ run[r].phase \in {"setup", "fresh"} /\ ~Migrating(run[r])
  BY DEF RunsOK, Fails, Doing, Migrating
<1>2. run' = [run EXCEPT ![r] = Abort(r, run[r])]
  BY DEF Fails
<1>3. Known(r, run[r]) \subseteq Known(r, Abort(r, run[r]))
  BY <1>1, AbortOK DEF Known, Held
<1> QED BY <1>1, <1>2, <1>3, AbortOK, HostUntouched DEF Fails

LEMMA AdvanceOK ==
  ASSUME NEW r \in Runs, NEW s, RunOK(r, s), s.phase \in {"setup", "fresh"}, s.todo # << >>
  PROVE  /\ RunOK(r, Advance(s)) /\ DOMAIN Advance(s) = DOMAIN s
         /\ Advance(s).phase = s.phase /\ Advance(s).at = s.at
         /\ Advance(s).lost = s.lost /\ Advance(s).owned = s.owned
         /\ Advance(s).undo = s.undo /\ Advance(s).kept = s.kept
<1> DEFINE t == Advance(s)
<1>1. /\ DOMAIN t = DOMAIN s
      /\ t.phase = s.phase /\ t.todo = Tail(s.todo)
      /\ t.at = s.at /\ t.tries = s.tries /\ t.network = s.network /\ t.owned = s.owned /\ t.undo = s.undo
      /\ t.kept = s.kept /\ t.unread = s.unread /\ t.lost = s.lost
  BY DEF Advance, RunOK, StateTyped, NewRun
<1> HIDE DEF t
<1>2. StateTyped(r, t)
  BY <1>1 DEF RunOK, StateTyped
<1>3. PlanTyped(r, t)
  <2>1. CASE s.phase = "setup"
    <3>1. s.todo \in Seq(SetupSteps(r))
      BY <2>1 DEF RunOK, PlanTyped
    <3>2. Tail(s.todo) \in Seq(SetupSteps(r))
      BY <3>1, HeadTailProperties
    <3> QED BY <1>1, <2>1, <3>2 DEF PlanTyped
  <2>2. CASE s.phase = "fresh"
    <3>1. s.todo \in Seq(FreshSteps(r, SpecAt(r, s)))
      BY <2>2 DEF RunOK, PlanTyped
    <3>2. Tail(s.todo) \in Seq(FreshSteps(r, SpecAt(r, s)))
      BY <3>1, HeadTailProperties
    <3> QED BY <1>1, <2>2, <3>2 DEF PlanTyped, SpecAt
  <2> QED BY <2>1, <2>2
<1>4. GuardsTyped(r, t)
  BY <1>1 DEF RunOK, GuardsTyped, SpecAt
<1>5. KeptTyped(r, t)
  BY <1>1 DEF RunOK, KeptTyped, SpecAt
<1> QED BY <1>1, <1>2, <1>3, <1>4, <1>5 DEF RunOK, t

\* What is done next says in which phase the run is.
LEMMA DoingPhase ==
  ASSUME NEW r \in Runs, RunOK(r, run[r]), NEW what, Doing(r, what), what # "test"
  PROVE  /\ run[r].phase \in {"setup", "fresh"}
         /\ run[r].phase = "setup" => Head(run[r].todo) \in SetupSteps(r)
         /\ run[r].phase = "fresh" => Head(run[r].todo) \in FreshSteps(r, SpecAt(r, run[r]))
         /\ what \in {"migrate", "migrating"} => Head(run[r].todo).service \in Services
         /\ what = "inspect" => run[r].phase = "fresh"
         /\ what = "specs" => run[r].phase = "setup"
<1>1. run[r].todo # << >> /\ Head(run[r].todo).do = what
  BY DEF Doing
<1>2. run[r].phase \in {"setup", "fresh"}
  BY <1>1 DEF RunOK, PlanTyped, StateTyped
<1>3. CASE run[r].phase = "setup"
  <2>1. run[r].todo \in Seq(SetupSteps(r))
    BY <1>3 DEF RunOK, PlanTyped
  <2>2. Head(run[r].todo) \in SetupSteps(r)
    BY <2>1, <1>1
  <2> QED BY <2>2, <1>1, <1>3 DEF SetupSteps, Migrations
<1>4. CASE run[r].phase = "fresh"
  <2>1. run[r].todo \in Seq(FreshSteps(r, SpecAt(r, run[r])))
    BY <1>4 DEF RunOK, PlanTyped
  <2>2. Head(run[r].todo) \in FreshSteps(r, SpecAt(r, run[r]))
    BY <2>1, <1>1
  <2> QED BY <2>2, <1>1, <1>4 DEF FreshSteps, SpecSteps, SpecStarts, Migrations
<1> QED BY <1>2, <1>3, <1>4

LEMMA FetchSchemaOK ==
  ASSUME RunsOK, HostOK, NEW r \in Runs, Accounts(r), FetchSchema(r)
  PROVE  Accountable(r)
<1> DEFINE s == run[r]
<1>1. RunOK(r, s)
  BY DEF RunsOK
<1>2. s.phase \in {"setup", "fresh"} /\ s.todo # << >> /\ ~Migrating(s)
  BY <1>1, DoingPhase DEF FetchSchema, Doing, Migrating
<1>3. PICK schema : run' = [run EXCEPT ![r] = [Advance(s) EXCEPT !.schema = schema]]
  <2>1. [Advance(s) EXCEPT !.schema = Advance(s).schema] = Advance(s)
    BY DEF Advance
  <2> QED BY <2>1 DEF FetchSchema
<1> DEFINE t == [Advance(s) EXCEPT !.schema = schema]
<1>4. RunOK(r, t) /\ t.lost = s.lost /\ t.owned = s.owned /\ t.undo = s.undo /\ t.kept = s.kept
  <2> DEFINE a == Advance(s)
  <2>1. RunOK(r, a) /\ a.lost = s.lost /\ a.owned = s.owned /\ a.undo = s.undo /\ a.kept = s.kept
    BY <1>1, <1>2, AdvanceOK
  <2> HIDE DEF a
  <2>2. LET u == [a EXCEPT !.schema = schema] IN
          RunOK(r, u) /\ u.lost = a.lost /\ u.owned = a.owned /\ u.undo = a.undo /\ u.kept = a.kept
    BY <2>1 DEF RunOK, StateTyped, PlanTyped, GuardsTyped, KeptTyped, SpecAt
  <2> QED BY <2>1, <2>2 DEF a
<1>5. Known(r, s) \subseteq Known(r, t)
  BY <1>2, <1>4 DEF Known, Held
<1> QED BY <1>3, <1>4, <1>5, HostUntouched DEF FetchSchema

LEMMA EndSetupOK ==
  ASSUME RunsOK, HostOK, NEW r \in Runs, Accounts(r), EndSetup(r)
  PROVE  Accountable(r)
<1> DEFINE s == run[r]
           t == [s EXCEPT !.phase = "next", !.todo = << >>]
<1>1. RunOK(r, s) /\ run' = [run EXCEPT ![r] = t]
  BY DEF RunsOK, EndSetup
<1>2. s.phase = "setup" /\ s.todo # << >> /\ ~Migrating(s)
  BY <1>1, DoingPhase DEF EndSetup, Doing, Migrating
<1>3. RunOK(r, t) /\ t.lost = s.lost /\ t.owned = s.owned /\ t.undo = s.undo /\ t.kept = s.kept
  BY <1>1, <1>2 DEF RunOK, StateTyped, PlanTyped, GuardsTyped, KeptTyped, SpecAt, NewRun, Phases, OfASpec
<1>4. Known(r, s) \subseteq Known(r, t)
  BY <1>2, <1>3 DEF Known, Held
<1> QED BY <1>1, <1>3, <1>4, HostUntouched DEF EndSetup

LEMMA NextSpecUnreadableOK ==
  ASSUME RunsOK, HostOK, NEW r \in Runs, Accounts(r), NextSpecUnreadable(r)
  PROVE  Accountable(r)
<1> DEFINE s == run[r]
           t == [s EXCEPT !.at = @ + 1, !.failed = @ \cup {s.at + 1}]
<1>1. RunOK(r, s) /\ run' = [run EXCEPT ![r] = t] /\ s.phase = "next"
  BY DEF RunsOK, NextSpecUnreadable
<1>2. s.at < Len(Files[r]) /\ Len(Files[r]) \in Nat
  BY SuiteAssumption DEF NextSpecUnreadable
<1>3. RunOK(r, t) /\ t.lost = s.lost /\ t.owned = s.owned /\ t.undo = s.undo /\ t.kept = s.kept /\ t.todo = s.todo
  BY <1>1, <1>2 DEF RunOK, StateTyped, PlanTyped, GuardsTyped, KeptTyped, SpecAt, NewRun, Phases, OfASpec
<1>4. Known(r, s) \subseteq Known(r, t)
  BY <1>3 DEF Known, Held, Migrating
<1> QED BY <1>1, <1>3, <1>4, HostUntouched DEF NextSpecUnreadable

LEMMA InspectProxiesOK ==
  ASSUME RunsOK, HostOK, NEW r \in Runs, Accounts(r), InspectProxies(r)
  PROVE  Accountable(r)
<1> DEFINE s == run[r]
<1>1. RunOK(r, s)
  BY DEF RunsOK
<1>2. s.phase = "fresh" /\ s.todo # << >> /\ ~Migrating(s)
  BY <1>1, DoingPhase DEF InspectProxies, Doing, Migrating
<1>3. PICK unread : /\ run' = [run EXCEPT ![r] = [Advance(s) EXCEPT !.unread = unread]]
                    /\ unread = s.unread \/ \E n \in ProxiesOf(r, SpecOf(r)) : unread = {n}
  <2>1. [Advance(s) EXCEPT !.unread = s.unread] = Advance(s)
    BY <1>1 DEF Advance, RunOK, StateTyped, NewRun
  <2> QED BY <2>1 DEF InspectProxies
<1> DEFINE t == [Advance(s) EXCEPT !.unread = unread]
<1>4. SpecOf(r) \in Specs(r)
  BY <1>1, <1>2, AtSpec DEF SpecOf, SpecAt, RunOK, StateTyped, OfASpec
<1>5. unread \subseteq UNION {StartedBy(r, f) : f \in Specs(r)}
  BY <1>1, <1>3, <1>4 DEF ProxiesOf, RunOK, KeptTyped
<1>6. RunOK(r, t) /\ t.lost = s.lost /\ t.owned = s.owned /\ t.undo = s.undo /\ t.kept = s.kept
  <2> DEFINE a == Advance(s)
  <2>1. RunOK(r, a) /\ a.lost = s.lost /\ a.owned = s.owned /\ a.undo = s.undo /\ a.kept = s.kept
    BY <1>1, <1>2, AdvanceOK
  <2> HIDE DEF a
  <2>2. LET u == [a EXCEPT !.unread = unread] IN
          RunOK(r, u) /\ u.lost = a.lost /\ u.owned = a.owned /\ u.undo = a.undo /\ u.kept = a.kept
    BY <2>1, <1>5 DEF RunOK, StateTyped, PlanTyped, GuardsTyped, KeptTyped, SpecAt, NewRun
  <2> QED BY <2>1, <2>2 DEF a
<1>7. Known(r, s) \subseteq Known(r, t)
  BY <1>2, <1>6 DEF Known, Held
<1> QED BY <1>3, <1>6, <1>7, HostUntouched DEF InspectProxies

LEMMA BeginTestOK ==
  ASSUME RunsOK, HostOK, NEW r \in Runs, Accounts(r), BeginTest(r)
  PROVE  Accountable(r)
<1> DEFINE s == run[r]
           t == [s EXCEPT !.phase = "test"]
<1>1. RunOK(r, s) /\ run' = [run EXCEPT ![r] = t] /\ s.phase = "fresh" /\ s.todo # << >> /\ Head(s.todo).do = "test"
  BY DEF RunsOK, BeginTest, Doing
<1>2. RunOK(r, t) /\ t.lost = s.lost /\ t.owned = s.owned /\ t.undo = s.undo /\ t.kept = s.kept /\ t.todo = s.todo
  BY <1>1 DEF RunOK, StateTyped, PlanTyped, GuardsTyped, KeptTyped, SpecAt, NewRun, Phases, OfASpec
<1>3. Known(r, s) \subseteq Known(r, t)
  BY <1>2 DEF Known, Held, Migrating
<1> QED BY <1>1, <1>2, <1>3, HostUntouched DEF BeginTest

LEMMA InterruptOK ==
  ASSUME RunsOK, HostOK, NEW r \in Runs, Accounts(r), Interrupt(r)
  PROVE  Accountable(r)
<1> DEFINE s == run[r]
           t == [s EXCEPT !.cancelled = TRUE]
<1>1. RunOK(r, s) /\ run' = [run EXCEPT ![r] = t]
  BY DEF RunsOK, Interrupt
<1>2. RunOK(r, t) /\ t.lost = s.lost /\ t.owned = s.owned /\ t.undo = s.undo /\ t.kept = s.kept /\ t.todo = s.todo
  BY <1>1 DEF RunOK, StateTyped, PlanTyped, GuardsTyped, KeptTyped, SpecAt, NewRun
<1>3. Known(r, s) \subseteq Known(r, t)
  BY <1>2 DEF Known, Held, Migrating
<1> QED BY <1>1, <1>2, <1>3, HostUntouched DEF Interrupt

-----------------------------------------------------------------------------
(***************************************************************************)
(* Containers are started.                                                 *)
(***************************************************************************)
LEMMA Added ==
  ASSUME HostOK, NEW r \in Runs, NEW name \in NamesOf(r) \cap Startable(r), NEW up \in BOOLEAN, NEW aliases,
         run[r].phase \in {"setup", "fresh"}, containers' = With(containers, name, NewContainer(r, up, aliases))
  PROVE  /\ ContainerStep(r)
         /\ \A n \in DOMAIN containers' : n = name \/ (n \in DOMAIN containers /\ containers'[n] = containers[n])
<1>1. /\ DOMAIN containers' = DOMAIN containers \cup {name}
      /\ containers'[name] = NewContainer(r, up, aliases)
      /\ \A n \in DOMAIN containers : n # name => containers'[n] = containers[n]
  BY DEF With
<1>2. Starting(r, name)
  BY <1>1 DEF Starting, NewContainer
<1>3. {"owner", "net", "up", "aliases", "schema", "dirty", "serves"} \subseteq DOMAIN containers'[name]
  BY <1>1 DEF NewContainer
<1>4. \A n \in DOMAIN containers : n # name => Stays(n)
  BY <1>1 DEF Stays
<1> QED BY <1>1, <1>2, <1>3, <1>4 DEF ContainerStep, HostOK

LEMMA Appended ==
  ASSUME NEW S, NEW q \in Seq(S), NEW x \in S
  PROVE  Append(q, x) \in Seq(S) /\ Range(Append(q, x)) = Range(q) \cup {x}
<1>1. Append(q, x) \in Seq(S) /\ Len(Append(q, x)) = Len(q) + 1 /\ Len(q) \in Nat
  OBVIOUS
<1>2. DOMAIN q = 1..Len(q) /\ DOMAIN Append(q, x) = 1..(Len(q) + 1)
  BY <1>1
<1>3. \A i \in 1..Len(q) : Append(q, x)[i] = q[i]
  OBVIOUS
<1>4. Append(q, x)[Len(q) + 1] = x
  OBVIOUS
<1> QED BY <1>1, <1>2, <1>3, <1>4 DEF Range

\* The step at hand, in a suite's setup and in a spec.
LEMMA StartStep ==
  ASSUME NEW r \in Runs, RunOK(r, run[r]), Doing(r, "start")
  PROVE  LET step == Head(run[r].todo) IN
         /\ run[r].phase \in {"setup", "fresh"} /\ run[r].todo # << >> /\ ~Migrating(run[r])
         /\ step.name \in NamesOf(r) \cap Startable(r)
         /\ run[r].phase = "setup" => step.shared = TRUE /\ step.name \in {SharedDB(r), SharedKafka(r)}
         /\ run[r].phase = "fresh" => step.shared = FALSE /\ step.name \in StartedBy(r, SpecAt(r, run[r]))
<1> DEFINE step == Head(run[r].todo)
<1>1. run[r].phase \in {"setup", "fresh"} /\ run[r].todo # << >> /\ ~Migrating(run[r]) /\ step.do = "start"
  BY DoingPhase DEF Doing, Migrating
<1>2. CASE run[r].phase = "setup"
  <2>1. step \in SetupSteps(r)
    BY <1>2, DoingPhase
  <2> QED BY <1>1, <1>2, <2>1 DEF SetupSteps, Migrations, NamesOf, Startable
<1>3. CASE run[r].phase = "fresh"
  <2>1. step \in FreshSteps(r, SpecAt(r, run[r]))
    BY <1>3, DoingPhase
  <2>2. SpecAt(r, run[r]) \in Specs(r)
    BY <1>3, AtSpec DEF RunOK, StateTyped, OfASpec
  <2>3. step.shared = FALSE /\ step.name \in StartedBy(r, SpecAt(r, run[r]))
    BY <1>1, <2>1 DEF FreshSteps, SpecSteps, SpecStarts, Migrations
  <2>4. step.name \in Startable(r)
    BY <2>2, <2>3 DEF Startable
  <2> QED BY <1>1, <1>3, <2>2, <2>3, <2>4, NamesOfSpec
<1> QED BY <1>1, <1>2, <1>3

LEMMA TrackedOK ==
  ASSUME NEW r \in Runs, RunOK(r, run[r]), Doing(r, "start")
  PROVE  LET s == run[r]
             step == Head(s.todo)
             a == Tracked(s, step)
             b == Guarded(a, step) IN
         /\ RunOK(r, a) /\ a.phase = s.phase /\ a.todo = s.todo /\ Known(r, s) \subseteq Known(r, a)
         /\ step.shared => step.name \in Range(a.owned)
         /\ RunOK(r, b) /\ b.phase = s.phase /\ b.todo = s.todo /\ Known(r, s) \cup {step.name} \subseteq Known(r, b)
<1> DEFINE s == run[r]
           step == Head(s.todo)
           a == Tracked(s, step)
           b == Guarded(a, step)
<1>1. s.owned \in Seq({SharedDB(r), SharedKafka(r)})
  BY DEF RunOK, GuardsTyped
<1>2. CASE s.phase = "setup"
  <2>1. step.shared = TRUE /\ step.name \in {SharedDB(r), SharedKafka(r)}
    BY <1>2, StartStep
  <2>2. a = [s EXCEPT !.owned = Append(@, step.name)] /\ b = a
    BY <2>1 DEF Tracked, Guarded
  <2> HIDE DEF step
  <2>3. /\ a.owned = Append(s.owned, step.name) /\ DOMAIN a = DOMAIN s
        /\ a.phase = s.phase /\ a.todo = s.todo /\ a.at = s.at /\ a.tries = s.tries /\ a.network = s.network
        /\ a.undo = s.undo /\ a.unread = s.unread /\ a.kept = s.kept /\ a.lost = s.lost
    BY <2>2 DEF RunOK, StateTyped, NewRun
  <2>4. a.owned \in Seq({SharedDB(r), SharedKafka(r)}) /\ Range(a.owned) = Range(s.owned) \cup {step.name}
    BY <1>1, <2>1, <2>3, Appended
  <2> HIDE DEF a, b
  <2>5. RunOK(r, a)
    BY <2>3, <2>4 DEF RunOK, StateTyped, PlanTyped, GuardsTyped, KeptTyped, SpecAt
  <2>6. Known(r, s) \cup {step.name} \subseteq Known(r, a)
    BY <2>3, <2>4 DEF Known, Held, Migrating
  <2> QED BY <2>2, <2>3, <2>4, <2>5, <2>6 DEF step, a, b
<1>3. CASE s.phase = "fresh"
  <2>1. step.shared = FALSE /\ step.name \in StartedBy(r, SpecAt(r, s)) /\ s.undo \in Seq(StartedBy(r, SpecAt(r, s)))
    BY <1>3, StartStep DEF RunOK, GuardsTyped
  <2>2. a = s /\ b = [s EXCEPT !.undo = Append(@, step.name)]
    BY <2>1 DEF Tracked, Guarded
  <2> HIDE DEF step
  <2>3. /\ b.undo = Append(s.undo, step.name) /\ DOMAIN b = DOMAIN s
        /\ b.phase = s.phase /\ b.todo = s.todo /\ b.at = s.at /\ b.tries = s.tries /\ b.network = s.network
        /\ b.owned = s.owned /\ b.unread = s.unread /\ b.kept = s.kept /\ b.lost = s.lost
    BY <2>2 DEF RunOK, StateTyped, NewRun
  <2>4. b.undo \in Seq(StartedBy(r, SpecAt(r, s))) /\ Range(b.undo) = Range(s.undo) \cup {step.name}
    BY <2>1, <2>3, Appended
  <2> HIDE DEF a, b
  <2>5. RunOK(r, b)
    BY <1>3, <2>3, <2>4 DEF RunOK, StateTyped, PlanTyped, GuardsTyped, KeptTyped, SpecAt
  <2>6. Known(r, s) \cup {step.name} \subseteq Known(r, b)
    BY <2>3, <2>4 DEF Known, Held, Migrating
  <2> QED BY <2>1, <2>2, <2>3, <2>4, <2>5, <2>6 DEF step, a, b
<1> QED BY <1>2, <1>3, StartStep

LEMMA StartContainerOK ==
  ASSUME RunsOK, HostOK, NEW r \in Runs, Accounts(r), StartContainer(r)
  PROVE  Accountable(r)
<1> DEFINE s == run[r]
           step == Head(s.todo)
           a == Tracked(s, step)
           b == Guarded(a, step)
<1>1. RunOK(r, s) /\ Doing(r, "start") /\ networks' = networks
  BY DEF RunsOK, StartContainer
<1>2. /\ s.phase \in {"setup", "fresh"} /\ s.todo # << >> /\ ~Migrating(s)
      /\ step.name \in NamesOf(r) \cap Startable(r)
  BY <1>1, StartStep
<1>3. /\ RunOK(r, a) /\ a.phase = s.phase /\ a.todo = s.todo /\ Known(r, s) \subseteq Known(r, a)
      /\ step.shared => step.name \in Range(a.owned)
      /\ RunOK(r, b) /\ b.phase = s.phase /\ b.todo = s.todo /\ Known(r, s) \cup {step.name} \subseteq Known(r, b)
  BY <1>1, TrackedOK
<1>4. ~Migrating(a) /\ ~Migrating(b)
  BY <1>2, <1>3 DEF Migrating
<1>5. \/ /\ containers' = With(containers, step.name, NewContainer(r, TRUE, step.aliases))
         /\ run' = [run EXCEPT ![r] = Advance(b)]
      \/ /\ run' = [run EXCEPT ![r] = Abort(r, a)] /\ containers' = containers
      \/ /\ containers' = With(containers, step.name, NewContainer(r, FALSE, step.aliases))
         /\ run' = [run EXCEPT ![r] = [Abort(r, a) EXCEPT !.lost = IF step.shared THEN @ ELSE @ \cup {step.name}]]
  BY DEF StartContainer
<1> HIDE DEF step, a, b
<1>6. CASE /\ containers' = With(containers, step.name, NewContainer(r, TRUE, step.aliases))
           /\ run' = [run EXCEPT ![r] = Advance(b)]
  <2>1. RunOK(r, Advance(b)) /\ Known(r, b) \subseteq Known(r, Advance(b))
    BY <1>2, <1>3, <1>4, AdvanceOK DEF Known, Held
  <2>2. ContainerStep(r) /\ \A n \in DOMAIN containers' :
          n = step.name \/ (n \in DOMAIN containers /\ containers'[n] = containers[n])
    <3>1. PICK up \in BOOLEAN : containers' = With(containers, step.name, NewContainer(r, up, step.aliases))
      BY <1>6
    <3> QED BY <1>2, <3>1, Added
  <2>3. RunStep(r) /\ run'[r] = Advance(b)
    BY <1>6, <2>1, RunSteps
  <2>4. Accounts(r)'
    BY <1>3, <2>1, <2>2, <2>3 DEF Accounts
  <2> QED BY <1>1, <2>2, <2>3, <2>4, NetworksKept DEF Accountable
<1>7. CASE run' = [run EXCEPT ![r] = Abort(r, a)] /\ containers' = containers
  <2>1. RunOK(r, Abort(r, a)) /\ Known(r, a) \subseteq Known(r, Abort(r, a))
    BY <1>2, <1>3, <1>4, AbortOK DEF Known, Held
  <2> QED BY <1>1, <1>3, <1>7, <2>1, HostUntouched
<1>8. CASE /\ containers' = With(containers, step.name, NewContainer(r, FALSE, step.aliases))
           /\ run' = [run EXCEPT ![r] = [Abort(r, a) EXCEPT !.lost = IF step.shared THEN @ ELSE @ \cup {step.name}]]
  <2> DEFINE c == Abort(r, a)
             t == [c EXCEPT !.lost = IF step.shared THEN @ ELSE @ \cup {step.name}]
  <2>1. RunOK(r, c) /\ c.owned = a.owned /\ c.todo = << >> /\ Known(r, a) \subseteq Known(r, c)
    BY <1>2, <1>3, <1>4, AbortOK DEF Known, Held
  <2> HIDE DEF c
  <2>2. /\ t.lost = (IF step.shared THEN c.lost ELSE c.lost \cup {step.name}) /\ DOMAIN t = DOMAIN c
        /\ t.phase = c.phase /\ t.todo = c.todo /\ t.at = c.at /\ t.tries = c.tries /\ t.network = c.network
        /\ t.owned = c.owned /\ t.undo = c.undo /\ t.unread = c.unread /\ t.kept = c.kept
    BY <2>1 DEF RunOK, StateTyped, NewRun
  <2> HIDE DEF t
  <2>3. RunOK(r, t)
    BY <2>1, <2>2 DEF RunOK, StateTyped, PlanTyped, GuardsTyped, KeptTyped, SpecAt
  <2>4. Known(r, s) \cup {step.name} \subseteq Known(r, t)
    <3>1. Known(r, c) \subseteq Known(r, t)
      BY <2>1, <2>2 DEF Known, Held, Migrating
    <3>2. step.name \in Known(r, t)
      BY <1>3, <2>1, <2>2 DEF Known, Held
    <3> QED BY <1>3, <2>1, <3>1, <3>2
  <2>5. ContainerStep(r) /\ \A n \in DOMAIN containers' :
          n = step.name \/ (n \in DOMAIN containers /\ containers'[n] = containers[n])
    <3>1. PICK up \in BOOLEAN : containers' = With(containers, step.name, NewContainer(r, up, step.aliases))
      BY <1>8
    <3> QED BY <1>2, <3>1, Added
  <2>6. RunStep(r) /\ run'[r] = t
    BY <1>8, <2>3, RunSteps DEF t, c
  <2>7. Accounts(r)'
    BY <2>4, <2>5, <2>6 DEF Accounts
  <2> QED BY <1>1, <2>5, <2>6, <2>7, NetworksKept DEF Accountable
<1> QED BY <1>5, <1>6, <1>7, <1>8

-----------------------------------------------------------------------------
(***************************************************************************)
(* Migrations.                                                             *)
(***************************************************************************)
LEMMA BeginMigrationOK ==
  ASSUME RunsOK, HostOK, NEW r \in Runs, Accounts(r), BeginMigration(r)
  PROVE  Accountable(r)
<1> DEFINE s == run[r]
           head == Head(s.todo)
           name == MigrateName(r, head.service)
           todo == <<[head EXCEPT !.do = "migrating"]>> \o Tail(s.todo)
           t == [s EXCEPT !.todo = todo]
<1>1. RunOK(r, s) /\ Doing(r, "migrate")
  BY DEF RunsOK, BeginMigration
<1>2. /\ s.phase \in {"setup", "fresh"} /\ s.todo # << >> /\ ~Migrating(s) /\ head.service \in Services
      /\ head.do = "migrate"
  BY <1>1, DoingPhase DEF Doing, Migrating
<1>3. /\ networks' = Detaching({name}) /\ run' = [run EXCEPT ![r] = t]
      /\ \E up \in BOOLEAN : \E aliases : containers' = With(containers, name, NewContainer(r, up, aliases))
  BY DEF BeginMigration
<1>4. name \in NamesOf(r) \cap Startable(r)
  BY <1>2 DEF NamesOf, Startable
<1>5. ASSUME NEW S, s.todo \in Seq(S), [head EXCEPT !.do = "migrating"] \in S
      PROVE  todo \in Seq(S) /\ todo # << >> /\ Head(todo) = [head EXCEPT !.do = "migrating"]
  <2> DEFINE h == [head EXCEPT !.do = "migrating"]
             rest == Tail(s.todo)
  <2>1. rest \in Seq(S) /\ h \in S
    BY <1>2, <1>5
  <2> HIDE DEF h, rest
  <2>2. <<h>> \o rest \in Seq(S) /\ <<h>> \o rest # << >> /\ Head(<<h>> \o rest) = h
    BY <2>1
  <2> QED BY <2>2 DEF h, rest
<1>6. ASSUME head \in Migrations
      PROVE  LET h == [head EXCEPT !.do = "migrating"] IN
             h \in Migrations /\ h.do = "migrating" /\ h.service = head.service
  BY <1>6 DEF Migrations
<1>7. /\ todo # << >> /\ Head(todo).do = "migrating" /\ Head(todo).service = head.service
      /\ s.phase = "setup" => todo \in Seq(SetupSteps(r))
      /\ s.phase = "fresh" => todo \in Seq(FreshSteps(r, SpecAt(r, s)))
  <2>1. CASE s.phase = "setup"
    <3>1. head \in SetupSteps(r) /\ s.todo \in Seq(SetupSteps(r))
      BY <1>1, <2>1, DoingPhase DEF RunOK, PlanTyped
    <3>2. head \in Migrations
      BY <3>1, <1>2 DEF SetupSteps
    <3>3. [head EXCEPT !.do = "migrating"] \in SetupSteps(r)
      BY <3>2, <1>6 DEF SetupSteps
    <3> QED BY <3>1, <3>2, <3>3, <2>1, <1>5, <1>6
  <2>2. CASE s.phase = "fresh"
    <3>1. head \in FreshSteps(r, SpecAt(r, s)) /\ s.todo \in Seq(FreshSteps(r, SpecAt(r, s)))
      BY <1>1, <2>2, DoingPhase DEF RunOK, PlanTyped
    <3>2. head \in Migrations
      BY <3>1, <1>2 DEF FreshSteps, SpecSteps, SpecStarts
    <3>3. [head EXCEPT !.do = "migrating"] \in FreshSteps(r, SpecAt(r, s))
      BY <3>2, <1>6 DEF FreshSteps, SpecSteps, SpecStarts
    <3> QED BY <3>1, <3>2, <3>3, <2>2, <1>5, <1>6
  <2> QED BY <1>2, <2>1, <2>2
<1> HIDE DEF todo
<1>8. /\ t.todo = todo /\ DOMAIN t = DOMAIN s
      /\ t.phase = s.phase /\ t.at = s.at /\ t.tries = s.tries /\ t.network = s.network
      /\ t.owned = s.owned /\ t.undo = s.undo /\ t.unread = s.unread /\ t.kept = s.kept /\ t.lost = s.lost
  BY <1>1 DEF RunOK, StateTyped, NewRun
<1> HIDE DEF t
<1>9. RunOK(r, t)
  BY <1>1, <1>2, <1>7, <1>8 DEF RunOK, StateTyped, PlanTyped, GuardsTyped, KeptTyped, SpecAt
<1>10. Known(r, s) \cup {name} \subseteq Known(r, t)
  <2>1. Migrating(t) /\ name = MigrateName(r, Head(t.todo).service)
    BY <1>7, <1>8 DEF Migrating
  <2>2. name \in Known(r, t)
    BY <2>1 DEF Known
  <2>3. Known(r, s) \subseteq Known(r, t)
    BY <1>2, <1>8 DEF Known, Held
  <2> QED BY <2>2, <2>3
<1>11. ContainerStep(r) /\ \A n \in DOMAIN containers' :
          n = name \/ (n \in DOMAIN containers /\ containers'[n] = containers[n])
  <2>1. PICK up \in BOOLEAN : \E aliases : containers' = With(containers, name, NewContainer(r, up, aliases))
    BY <1>3
  <2>2. PICK aliases : containers' = With(containers, name, NewContainer(r, up, aliases))
    BY <2>1
  <2> HIDE DEF name
  <2> QED BY <1>2, <1>4, <2>2, Added
<1>12. RunStep(r) /\ run'[r] = t
  BY <1>3, <1>9, RunSteps DEF t
<1>13. SameNetworks(r)
  BY <1>3, <1>4, Detached
<1>14. Accounts(r)'
  BY <1>10, <1>11, <1>12 DEF Accounts
<1> QED BY <1>11, <1>12, <1>13, <1>14 DEF Accountable

LEMMA EndMigrationOK ==
  ASSUME RunsOK, HostOK, NEW r \in Runs, Accounts(r), EndMigration(r)
  PROVE  Accountable(r)
<1> DEFINE s == run[r]
           name == MigrateName(r, Head(s.todo).service)
           after == Without(containers, {name})
<1>1. RunOK(r, s) /\ Doing(r, "migrating") /\ networks' = Detaching({name})
  BY DEF RunsOK, EndMigration
<1>2. s.phase \in {"setup", "fresh"} /\ s.todo # << >> /\ Head(s.todo).service \in Services
  BY <1>1, DoingPhase DEF Doing
<1>3. name \in NamesOf(r)
  BY <1>2 DEF NamesOf
<1>4. PICK t \in {Advance(s), Abort(r, s)} : run' = [run EXCEPT ![r] = t]
  BY DEF EndMigration
<1>5. /\ RunOK(r, t) /\ t.lost = s.lost /\ t.owned = s.owned /\ t.undo = s.undo /\ t.kept = s.kept
  BY <1>1, <1>2, <1>4, AdvanceOK, AbortOK
<1>6. Known(r, s) \ {name} \subseteq Known(r, t)
  <2>1. Held(r, s) = Held(r, t) /\ Held(r, t) \subseteq Known(r, t)
    BY <1>5 DEF Held, Known
  <2>2. Known(r, s) \subseteq Held(r, s) \cup {name}
    BY DEF Known
  <2> QED BY <2>1, <2>2
<1>7. /\ DOMAIN containers' = DOMAIN containers \ {name}
      /\ \A n \in DOMAIN containers' :
            \/ containers'[n] = containers[n]
            \/ containers'[n] = [containers[n] EXCEPT !.schema = tree]
  BY DEF EndMigration, Without
<1>8. ContainerStep(r)
  BY <1>3, <1>7 DEF ContainerStep, Stays, HostOK
<1>9. SameNetworks(r)
  BY <1>1, <1>3, Detached
<1>10. RunStep(r) /\ run'[r] = t
  BY <1>4, <1>5, RunSteps
<1>11. \A n \in DOMAIN containers' : n \in DOMAIN containers \ {name} /\ containers'[n].owner = containers[n].owner
  BY <1>7 DEF HostOK
<1>12. Accounts(r)'
  BY <1>6, <1>10, <1>11 DEF Accounts
<1> QED BY <1>8, <1>9, <1>10, <1>12 DEF Accountable

-----------------------------------------------------------------------------
(***************************************************************************)
(* Containers are removed.                                                 *)
(***************************************************************************)
LEMMA Removed ==
  ASSUME RunsOK, HostOK, NEW r \in Runs, Accounts(r), NEW names, names \subseteq NamesOf(r),
         NEW left, StopAndRemove(names, left),
         NEW t, run' = [run EXCEPT ![r] = t], RunOK(r, t),
         Known(r, run[r]) \cap DOMAIN containers \subseteq Known(r, t) \cup (names \ left)
  PROVE  Accountable(r)
<1>1. /\ ContainerStep(r) /\ SameNetworks(r)
      /\ DOMAIN containers' = DOMAIN containers \ (names \ left)
      /\ \A n \in DOMAIN containers' : containers'[n] = containers[n]
  BY Stopped
<1>2. RunStep(r) /\ run'[r] = t
  BY RunSteps
<1>3. Accounts(r)'
  BY <1>1, <1>2 DEF Accounts
<1> QED BY <1>1, <1>2, <1>3 DEF Accountable

LEMMA Shortened ==
  ASSUME NEW S, NEW q \in Seq(S), q # << >>
  PROVE  /\ Front(q) \in Seq(S) /\ Last(q) \in S /\ Range(q) \subseteq Range(Front(q)) \cup {Last(q)}
         /\ Tail(q) \in Seq(S) /\ Head(q) \in S /\ Range(q) \subseteq Range(Tail(q)) \cup {Head(q)}
<1>1. Len(q) \in Nat \ {0} /\ DOMAIN q = 1..Len(q) /\ \A i \in 1..Len(q) : q[i] \in S
  BY EmptySeq, LenProperties
<1>2. Front(q) \in Seq(S) /\ Len(Front(q)) = Len(q) - 1 /\ \A i \in 1..(Len(q) - 1) : Front(q)[i] = q[i]
  BY <1>1 DEF Front
<1>3. Last(q) \in S /\ Last(q) = q[Len(q)]
  BY <1>1 DEF Last
<1>4. Range(q) \subseteq Range(Front(q)) \cup {Last(q)}
  <2>1. DOMAIN Front(q) = 1..(Len(q) - 1)
    BY <1>2
  <2> QED BY <1>1, <1>2, <1>3, <2>1 DEF Range
<1>5. /\ Head(q) \in S /\ Tail(q) \in Seq(S) /\ Len(Tail(q)) = Len(q) - 1
      /\ \A i \in 1..(Len(q) - 1) : Tail(q)[i] = q[i + 1]
  BY HeadTailProperties
<1>6. Range(q) \subseteq Range(Tail(q)) \cup {Head(q)}
  <2>1. Head(q) = q[1] /\ DOMAIN Tail(q) = 1..(Len(q) - 1)
    BY <1>1, <1>5
  <2>2. \A i \in 1..Len(q) : i # 1 => i - 1 \in 1..(Len(q) - 1) /\ q[i] = Tail(q)[i - 1]
    BY <1>1, <1>5
  <2>3. \A i \in 1..Len(q) : q[i] \in Range(Tail(q)) \cup {Head(q)}
    BY <2>1, <2>2 DEF Range
  <2> QED BY <1>1, <2>3 DEF Range
<1> QED BY <1>2, <1>3, <1>4, <1>5, <1>6

LEMMA UnwindOK ==
  ASSUME RunsOK, HostOK, NEW r \in Runs, Accounts(r), Unwind(r)
  PROVE  Accountable(r)
<1> DEFINE s == run[r]
<1>1. RunOK(r, s) /\ s.phase = "unwind"
  BY DEF RunsOK, Unwind
<1>2. CASE s.undo = << >>
  <2> DEFINE t == [s EXCEPT !.phase = "next"]
  <2>1. run' = [run EXCEPT ![r] = t] /\ containers' = containers /\ networks' = networks
    BY <1>2 DEF Unwind, Goes
  <2>2. RunOK(r, t) /\ t.lost = s.lost /\ t.owned = s.owned /\ t.undo = s.undo /\ t.kept = s.kept /\ t.todo = s.todo
    BY <1>1, <1>2 DEF RunOK, StateTyped, PlanTyped, GuardsTyped, KeptTyped, SpecAt, NewRun, Phases, OfASpec
  <2>3. Known(r, s) \subseteq Known(r, t)
    BY <2>2 DEF Known, Held, Migrating
  <2> QED BY <2>1, <2>2, <2>3, HostUntouched
<1>3. CASE s.undo # << >>
  <2> DEFINE f == SpecAt(r, s)
  <2>1. f \in Specs(r)
    BY <1>1, AtSpec DEF RunOK, StateTyped, OfASpec
  <2>2. PICK left : /\ StopAndRemove({Last(s.undo)}, left)
                    /\ run' = [run EXCEPT ![r] = [s EXCEPT !.undo = Front(@), !.lost = @ \cup left]]
    BY <1>3 DEF Unwind
  <2> DEFINE t == [s EXCEPT !.undo = Front(@), !.lost = @ \cup left]
  <2>3. /\ Front(s.undo) \in Seq(StartedBy(r, f)) /\ Last(s.undo) \in StartedBy(r, f)
        /\ Range(s.undo) \subseteq Range(Front(s.undo)) \cup {Last(s.undo)}
    <3>1. s.undo \in Seq(StartedBy(r, f))
      BY <1>1 DEF RunOK, GuardsTyped
    <3> QED BY <1>3, <3>1, Shortened
  <2>4. /\ t.undo = Front(s.undo) /\ t.lost = s.lost \cup left /\ DOMAIN t = DOMAIN s /\ t.todo = s.todo
        /\ t.phase = s.phase /\ t.at = s.at /\ t.tries = s.tries /\ t.network = s.network
        /\ t.owned = s.owned /\ t.unread = s.unread /\ t.kept = s.kept
    BY <1>1 DEF RunOK, StateTyped, NewRun
  <2> HIDE DEF t
  <2>5. RunOK(r, t)
    BY <1>1, <2>3, <2>4 DEF RunOK, StateTyped, PlanTyped, GuardsTyped, KeptTyped, SpecAt
  <2>6. {Last(s.undo)} \subseteq NamesOf(r)
    BY <2>1, <2>3, NamesOfSpec
  <2>7. Known(r, s) \subseteq Known(r, t) \cup ({Last(s.undo)} \ left)
    BY <2>3, <2>4 DEF Known, Held, Migrating
  <2> QED BY <2>2, <2>5, <2>6, <2>7, Removed DEF t
<1> QED BY <1>2, <1>3

-----------------------------------------------------------------------------
(***************************************************************************)
(* The test phase, reuse and the next spec.                                *)
(***************************************************************************)

\* Containers change in what is on them only.
LEMMA Repainted ==
  ASSUME RunsOK, HostOK, NEW r \in Runs, Accounts(r), DOMAIN containers' = DOMAIN containers,
         \A n \in DOMAIN containers :
            /\ DOMAIN containers'[n] = DOMAIN containers[n]
            /\ containers'[n].owner = containers[n].owner /\ containers'[n].net = containers[n].net
            /\ containers'[n].up = containers[n].up,
         networks' = networks,
         NEW t, run' = [run EXCEPT ![r] = t], RunOK(r, t), Known(r, run[r]) \subseteq Known(r, t)
  PROVE  Accountable(r)
<1>1. ContainerStep(r)
  BY DEF ContainerStep, Stays, HostOK
<1>2. RunStep(r) /\ run'[r] = t
  BY RunSteps
<1>3. Accounts(r)'
  BY <1>2, StillAccounts
<1> QED BY <1>1, <1>2, <1>3, NetworksKept DEF Accountable

\* The state after a test whose containers are not kept.
LEMMA TestOver ==
  ASSUME NEW r \in Runs, NEW s, RunOK(r, s), s.phase = "test", NEW t,
         DOMAIN t = DOMAIN s, t.phase = (IF s.todo = << >> THEN "next" ELSE "unwind"), t.todo = << >>,
         t.at = s.at, t.tries = s.tries, t.network = s.network, t.owned = s.owned, t.undo = s.undo,
         t.unread = s.unread, t.kept = s.kept, t.lost = s.lost
  PROVE  RunOK(r, t) /\ Known(r, s) \subseteq Known(r, t)
<1>1. s.todo # << >> => Head(s.todo).do = "test"
  BY DEF RunOK, PlanTyped
<1>2. StateTyped(r, t)
  BY DEF RunOK, StateTyped, Phases, OfASpec
<1>3. PlanTyped(r, t)
  BY DEF PlanTyped
<1>4. GuardsTyped(r, t)
  BY DEF RunOK, GuardsTyped, SpecAt
<1>5. KeptTyped(r, t)
  BY DEF RunOK, KeptTyped, SpecAt
<1>6. Held(r, t) = Held(r, s) /\ ~Migrating(s)
  BY <1>1 DEF Held, Migrating
<1> QED BY <1>2, <1>3, <1>4, <1>5, <1>6 DEF RunOK, Known

\* The containers of a spec that passed are kept for its service.
LEMMA TestKept ==
  ASSUME NEW r \in Runs, NEW s, RunOK(r, s), s.phase = "test", s.todo # << >>, NEW t,
         DOMAIN t = DOMAIN s, t.phase = "next", t.todo = << >>,
         t.at = s.at, t.tries = s.tries, t.network = s.network, t.owned = s.owned, t.undo = << >>,
         t.unread = s.unread, t.lost = s.lost,
         t.kept = [s.kept EXCEPT ![SpecAt(r, s).service] = [spec |-> SpecAt(r, s), unread |-> s.unread]]
  PROVE  RunOK(r, t) /\ Known(r, s) \subseteq Known(r, t)
<1> DEFINE f == SpecAt(r, s)
           pc == [spec |-> f, unread |-> s.unread]
<1>1. f \in Specs(r) /\ f.service \in Services
  BY AtSpec DEF RunOK, StateTyped, OfASpec
<1>2. s.unread \subseteq UNION {StartedBy(r, g) : g \in Specs(r)}
  BY DEF RunOK, KeptTyped
<1>3. UNION {StartedBy(r, g) : g \in Specs(r)} \subseteq UNION {StartedBy(r, Files[r][i]) : i \in DOMAIN Files[r]}
  BY DEF Specs, Range
<1>4. pc \in KeptEntry(r) /\ pc # None
  BY <1>1, <1>2, <1>3, NoneAssumption DEF KeptEntry, Specs
<1>5. t.kept \in [Services -> KeptEntry(r) \cup {None}] /\ t.kept[f.service] = pc
      /\ \A u \in Services : u # f.service => t.kept[u] = s.kept[u]
  BY <1>1, <1>4 DEF RunOK, KeptTyped
<1>6. s.kept[f.service] = None /\ s.undo \in Seq(StartedBy(r, f)) /\ Head(s.todo).do = "test"
  BY DEF RunOK, KeptTyped, GuardsTyped, PlanTyped
<1>7. RunOK(r, t)
  <2>1. StateTyped(r, t)
    BY DEF RunOK, StateTyped, Phases, OfASpec
  <2>2. PlanTyped(r, t) /\ GuardsTyped(r, t)
    BY DEF RunOK, PlanTyped, GuardsTyped, SpecAt
  <2>3. KeptTyped(r, t)
    BY <1>2, <1>5 DEF KeptTyped, SpecAt
  <2> QED BY <2>1, <2>2, <2>3 DEF RunOK
<1>8. Range(s.undo) \subseteq PersistentNames(r, f)
  BY <1>1, <1>6, NamesOfSpec DEF Range
<1> HIDE DEF f, pc
<1>9. PersistentNames(r, f) \subseteq Held(r, t)
  <2>1. t.kept[f.service] # None /\ t.kept[f.service].spec = f
    BY <1>4, <1>5 DEF pc
  <2> QED BY <1>1, <2>1 DEF Held
<1>10. \A u \in Services : s.kept[u] # None => t.kept[u] = s.kept[u]
  BY <1>5, <1>6
<1>11. Held(r, s) \subseteq Held(r, t)
  BY <1>8, <1>9, <1>10 DEF Held
<1>12. ~Migrating(s)
  BY <1>6 DEF Migrating
<1> QED BY <1>7, <1>11, <1>12 DEF Known

LEMMA EndTestOK ==
  ASSUME RunsOK, HostOK, NEW r \in Runs, Accounts(r), EndTest(r)
  PROVE  Accountable(r)
<1> DEFINE s == run[r]
           f == SpecAt(r, s)
           rest == [s EXCEPT !.todo = << >>, !.on = None]
           failed == [rest EXCEPT !.failed = @ \cup {s.at}]
           entry == [spec |-> f, unread |-> s.unread]
<1>1. RunOK(r, s) /\ s.phase = "test" /\ networks' = networks
  BY DEF RunsOK, EndTest
<1>2. SpecOf(r) = f
  BY DEF SpecOf, SpecAt
<1>3. \/ s.todo = << >> /\ run' = [run EXCEPT ![r] = [failed EXCEPT !.phase = "next"]]
      \/ s.todo = << >> /\ run' = [run EXCEPT ![r] = [rest EXCEPT !.phase = "next"]]
      \/ s.todo # << >> /\ run' = [run EXCEPT ![r] = [failed EXCEPT !.phase = "unwind"]]
      \/ s.todo # << >> /\ run' = [run EXCEPT ![r] = [rest EXCEPT !.phase = "unwind"]]
      \/ s.todo # << >> /\ run' = [run EXCEPT ![r] =
            [rest EXCEPT !.phase = "next", !.undo = << >>, !.kept[f.service] = entry]]
  BY <1>2 DEF EndTest, Reused
<1>4. DOMAIN containers' = DOMAIN containers
      /\ \A n \in DOMAIN containers :
            /\ DOMAIN containers'[n] = DOMAIN containers[n]
            /\ containers'[n].owner = containers[n].owner /\ containers'[n].net = containers[n].net
            /\ containers'[n].up = containers[n].up
  <2>1. CASE containers' = containers
    BY <2>1
  <2>2. CASE containers' = Dirtied(Databases(r, run[r].on))
    <3>1. \A n \in DOMAIN containers :
            containers'[n] = containers[n] \/ containers'[n] = [containers[n] EXCEPT !.dirty = TRUE]
      BY <2>2 DEF Dirtied
    <3> QED BY <2>2, <3>1 DEF Dirtied, HostOK
  <2> QED BY <2>1, <2>2 DEF EndTest
<1>5. PICK t : run' = [run EXCEPT ![r] = t] /\ RunOK(r, t) /\ Known(r, s) \subseteq Known(r, t)
  <2> DEFINE Over(u) == RunOK(r, u) /\ Known(r, s) \subseteq Known(r, u)
  <2>1. CASE s.todo = << >> /\ run' = [run EXCEPT ![r] = [failed EXCEPT !.phase = "next"]]
    <3> DEFINE u == [failed EXCEPT !.phase = "next"]
    <3>1. /\ DOMAIN u = DOMAIN s /\ u.phase = "next" /\ u.todo = << >>
          /\ u.at = s.at /\ u.tries = s.tries /\ u.network = s.network /\ u.owned = s.owned /\ u.undo = s.undo
          /\ u.unread = s.unread /\ u.kept = s.kept /\ u.lost = s.lost
      BY <1>1 DEF RunOK, StateTyped, NewRun
    <3> HIDE DEF u
    <3>2. Over(u)
      BY <1>1, <2>1, <3>1, TestOver
    <3> QED BY <2>1, <3>2 DEF u
  <2>2. CASE s.todo = << >> /\ run' = [run EXCEPT ![r] = [rest EXCEPT !.phase = "next"]]
    <3> DEFINE u == [rest EXCEPT !.phase = "next"]
    <3>1. /\ DOMAIN u = DOMAIN s /\ u.phase = "next" /\ u.todo = << >>
          /\ u.at = s.at /\ u.tries = s.tries /\ u.network = s.network /\ u.owned = s.owned /\ u.undo = s.undo
          /\ u.unread = s.unread /\ u.kept = s.kept /\ u.lost = s.lost
      BY <1>1 DEF RunOK, StateTyped, NewRun
    <3> HIDE DEF u
    <3>2. Over(u)
      BY <1>1, <2>2, <3>1, TestOver
    <3> QED BY <2>2, <3>2 DEF u
  <2>3. CASE s.todo # << >> /\ run' = [run EXCEPT ![r] = [failed EXCEPT !.phase = "unwind"]]
    <3> DEFINE u == [failed EXCEPT !.phase = "unwind"]
    <3>1. /\ DOMAIN u = DOMAIN s /\ u.phase = "unwind" /\ u.todo = << >>
          /\ u.at = s.at /\ u.tries = s.tries /\ u.network = s.network /\ u.owned = s.owned /\ u.undo = s.undo
          /\ u.unread = s.unread /\ u.kept = s.kept /\ u.lost = s.lost
      BY <1>1 DEF RunOK, StateTyped, NewRun
    <3> HIDE DEF u
    <3>2. Over(u)
      BY <1>1, <2>3, <3>1, TestOver
    <3> QED BY <2>3, <3>2 DEF u
  <2>4. CASE s.todo # << >> /\ run' = [run EXCEPT ![r] = [rest EXCEPT !.phase = "unwind"]]
    <3> DEFINE u == [rest EXCEPT !.phase = "unwind"]
    <3>1. /\ DOMAIN u = DOMAIN s /\ u.phase = "unwind" /\ u.todo = << >>
          /\ u.at = s.at /\ u.tries = s.tries /\ u.network = s.network /\ u.owned = s.owned /\ u.undo = s.undo
          /\ u.unread = s.unread /\ u.kept = s.kept /\ u.lost = s.lost
      BY <1>1 DEF RunOK, StateTyped, NewRun
    <3> HIDE DEF u
    <3>2. Over(u)
      BY <1>1, <2>4, <3>1, TestOver
    <3> QED BY <2>4, <3>2 DEF u
  <2>5. CASE s.todo # << >> /\ run' = [run EXCEPT ![r] =
            [rest EXCEPT !.phase = "next", !.undo = << >>, !.kept[f.service] = entry]]
    <3> DEFINE u == [rest EXCEPT !.phase = "next", !.undo = << >>, !.kept[f.service] = entry]
    <3>1. /\ DOMAIN u = DOMAIN s /\ u.phase = "next" /\ u.todo = << >>
          /\ u.at = s.at /\ u.tries = s.tries /\ u.network = s.network /\ u.owned = s.owned /\ u.undo = << >>
          /\ u.unread = s.unread /\ u.kept = [s.kept EXCEPT ![f.service] = entry] /\ u.lost = s.lost
      BY <1>1 DEF RunOK, StateTyped, NewRun
    <3> HIDE DEF u
    <3>2. Over(u)
      BY <1>1, <2>5, <3>1, TestKept
    <3> QED BY <2>5, <3>2 DEF u
  <2> QED BY <1>3, <2>1, <2>2, <2>3, <2>4, <2>5
<1> QED BY <1>1, <1>4, <1>5, Repainted

LEMMA PrepareForReuseOK ==
  ASSUME RunsOK, HostOK, NEW r \in Runs, Accounts(r), prepareForReuse(r)
  PROVE  Accountable(r)
<1> DEFINE s == run[r]
           f == SpecAt(r, s)
           pc == s.kept[f.service]
           t == [s EXCEPT !.phase = "test", !.on = pc.spec]
<1>1. RunOK(r, s) /\ s.phase = "reuse" /\ networks' = networks /\ run' = [run EXCEPT ![r] = t]
  BY DEF RunsOK, prepareForReuse, SpecOf, SpecAt
<1>2. PICK emptied : containers' = [n \in DOMAIN containers |->
                    [containers[n] EXCEPT
                        !.dirty = @ /\ n \notin emptied,
                        !.serves = IF n \in Reloaded(r, s.kept[SpecOf(r).service]) THEN s.at ELSE @]]
  BY DEF prepareForReuse
<1>3. /\ DOMAIN t = DOMAIN s /\ t.phase = "test" /\ t.todo = s.todo /\ t.at = s.at /\ t.tries = s.tries
      /\ t.network = s.network /\ t.owned = s.owned /\ t.undo = s.undo
      /\ t.unread = s.unread /\ t.kept = s.kept /\ t.lost = s.lost
  BY <1>1 DEF RunOK, StateTyped, NewRun
<1> HIDE DEF t
<1>4. s.todo = << >> /\ s.undo = << >>
  BY <1>1 DEF RunOK, PlanTyped, GuardsTyped
<1>5. RunOK(r, t)
  <2>1. StateTyped(r, t)
    BY <1>1, <1>3 DEF RunOK, StateTyped, Phases, OfASpec
  <2>2. PlanTyped(r, t) /\ GuardsTyped(r, t)
    BY <1>1, <1>3, <1>4 DEF RunOK, PlanTyped, GuardsTyped, SpecAt
  <2>3. KeptTyped(r, t)
    BY <1>1, <1>3, <1>4 DEF RunOK, KeptTyped, SpecAt
  <2> QED BY <2>1, <2>2, <2>3 DEF RunOK
<1>6. Known(r, s) \subseteq Known(r, t)
  BY <1>3 DEF Known, Held, Migrating
<1>7. DOMAIN containers' = DOMAIN containers
      /\ \A n \in DOMAIN containers :
            /\ DOMAIN containers'[n] = DOMAIN containers[n]
            /\ containers'[n].owner = containers[n].owner /\ containers'[n].net = containers[n].net
            /\ containers'[n].up = containers[n].up
  BY <1>2 DEF HostOK
<1> QED BY <1>1, <1>5, <1>6, <1>7, Repainted

\* What was kept for the service is stopped or lost before the spec is started afresh.
LEMMA FreshOK ==
  ASSUME RunsOK, HostOK, NEW r \in Runs, Accounts(r), NEW s, s = run[r], s.phase \in {"next", "reuse"},
         NEW stop, stop \subseteq NamesOf(r), NEW left, NEW u, StartFresh(r, u, stop, left),
         DOMAIN u = DOMAIN s, u.at \in 1..Len(Files[r]),
         u.tries = s.tries, u.network = s.network, u.owned = s.owned, s.lost \subseteq u.lost,
         u.kept = [s.kept EXCEPT ![SpecAt(r, u).service] = None],
         s.kept[SpecAt(r, u).service] # None =>
            PersistentNames(r, s.kept[SpecAt(r, u).service].spec) \cap DOMAIN containers \subseteq stop \cup u.lost
  PROVE  Accountable(r)
<1> DEFINE f == SpecAt(r, u)
           t == [u EXCEPT !.phase = "fresh", !.todo = SpecPlan(r, f), !.undo = << >>, !.on = f,
                          !.unread = {}, !.lost = @ \cup left]
           names == stop \cup PreCleanupNames(r, f)
<1>1. RunOK(r, s)
  BY DEF RunsOK
<1>2. f \in Specs(r) /\ f.service \in Services
  <2>1. u.at \in DOMAIN Files[r]
    BY SuiteAssumption
  <2> QED BY <2>1, SuiteAssumption DEF SpecAt, Specs, Range
<1>3. StopAndRemove(names, left) /\ run' = [run EXCEPT ![r] = t]
  BY DEF StartFresh, SpecAt
<1>4. /\ DOMAIN t = DOMAIN s /\ t.phase = "fresh" /\ t.todo = SpecPlan(r, f) /\ t.at = u.at /\ t.tries = s.tries
      /\ t.network = s.network /\ t.owned = s.owned /\ t.undo = << >> /\ t.unread = {}
      /\ t.kept = u.kept /\ t.lost = u.lost \cup left
  BY <1>1 DEF RunOK, StateTyped, NewRun
<1>5. SpecAt(r, t) = f
  BY <1>4 DEF SpecAt
<1> HIDE DEF t, f
<1>6. t.todo \in Seq(FreshSteps(r, f))
  BY <1>2, <1>4, FreshPlanTyped
<1>7. u.kept \in [Services -> KeptEntry(r) \cup {None}] /\ u.kept[f.service] = None
      /\ \A v \in Services : v # f.service => u.kept[v] = s.kept[v]
  BY <1>1, <1>2 DEF RunOK, KeptTyped, f
<1>8. RunOK(r, t)
  <2>1. StateTyped(r, t)
    <3>1. Len(Files[r]) \in Nat
      BY SuiteAssumption
    <3> QED BY <1>1, <1>4, <3>1 DEF RunOK, StateTyped, Phases, OfASpec
  <2>2. PlanTyped(r, t) /\ GuardsTyped(r, t)
    BY <1>1, <1>4, <1>5, <1>6 DEF RunOK, PlanTyped, GuardsTyped
  <2>3. KeptTyped(r, t)
    BY <1>4, <1>5, <1>7 DEF KeptTyped
  <2> QED BY <2>1, <2>2, <2>3 DEF RunOK
<1>9. s.undo = << >> /\ s.todo = << >>
  BY <1>1 DEF RunOK, PlanTyped, GuardsTyped
<1>10. Known(r, s) \cap DOMAIN containers \subseteq Held(r, t) \cup (names \ left)
  <2>1. Known(r, s) = Held(r, s)
    BY <1>9 DEF Known, Migrating
  <2>2. s.lost \cup left \cup u.lost \subseteq Held(r, t) /\ Range(s.owned) \subseteq Held(r, t)
    BY <1>4 DEF Held
  <2>3. Range(s.undo) = {}
    BY <1>9 DEF Range
  <2>4. ASSUME NEW v \in Services, s.kept[v] # None
        PROVE  PersistentNames(r, s.kept[v].spec) \cap DOMAIN containers \subseteq Held(r, t) \cup (names \ left)
    <3>1. CASE v = f.service
      BY <2>2, <2>4, <3>1 DEF f
    <3>2. CASE v # f.service
      BY <1>4, <1>7, <2>4, <3>2 DEF Held
    <3> QED BY <3>1, <3>2
  <2> QED BY <2>1, <2>2, <2>3, <2>4 DEF Held
<1>11. names \subseteq NamesOf(r)
  BY <1>2, NamesOfSpec
<1>12. Known(r, s) \cap DOMAIN containers \subseteq Known(r, t) \cup (names \ left)
  BY <1>10 DEF Known
<1> QED BY <1>3, <1>8, <1>11, <1>12, Removed

LEMMA KeptNames ==
  ASSUME NEW r \in Runs, NEW s, RunOK(r, s), NEW v \in Services, s.kept[v] # None
  PROVE  s.kept[v].spec \in Specs(r) /\ PersistentNames(r, s.kept[v].spec) \subseteq NamesOf(r)
<1>1. s.kept[v] \in KeptEntry(r)
  BY DEF RunOK, KeptTyped
<1> QED BY <1>1, NamesOfSpec DEF KeptEntry, Specs

LEMMA FallBackOK ==
  ASSUME RunsOK, HostOK, NEW r \in Runs, Accounts(r), FallBack(r)
  PROVE  Accountable(r)
<1> DEFINE s == run[r]
           v == SpecAt(r, s).service
           u == Forget(s, r, v)
<1>1. RunOK(r, s) /\ s.phase = "reuse"
  BY DEF RunsOK, FallBack
<1>2. StartFresh(r, u, {}, {})
  BY DEF FallBack, SpecOf, SpecAt
<1>3. /\ DOMAIN u = DOMAIN s /\ u.at = s.at /\ u.tries = s.tries /\ u.network = s.network /\ u.owned = s.owned
      /\ u.kept = [s.kept EXCEPT ![v] = None]
      /\ u.lost = s.lost \cup (PersistentNames(r, s.kept[v].spec) \cap DOMAIN containers)
  BY <1>1 DEF Forget, RunOK, StateTyped, NewRun
<1>4. SpecAt(r, u).service = v
  BY <1>3 DEF SpecAt
<1> HIDE DEF u, v
<1>5. s.at \in 1..Len(Files[r])
  <2>1. Len(Files[r]) \in Nat
    BY SuiteAssumption
  <2> QED BY <1>1, <2>1 DEF RunOK, StateTyped, OfASpec
<1> QED BY <1>1, <1>2, <1>3, <1>4, <1>5, FreshOK

LEMMA NextSpecOK ==
  ASSUME RunsOK, HostOK, NEW r \in Runs, Accounts(r), NextSpec(r)
  PROVE  Accountable(r)
<1> DEFINE s == run[r]
           next == [s EXCEPT !.at = @ + 1]
           f == Files[r][next.at]
           pc == next.kept[f.service]
<1>1. RunOK(r, s) /\ s.phase = "next"
  BY DEF RunsOK, NextSpec
<1>2. s.todo = << >> /\ s.undo = << >> /\ Len(Files[r]) \in Nat /\ s.at \in 0..Len(Files[r])
  BY <1>1, SuiteAssumption DEF RunOK, StateTyped, PlanTyped, GuardsTyped
<1>3. CASE s.cancelled \/ s.at = Len(Files[r])
  <2> DEFINE t == [s EXCEPT !.phase = "cleanup"]
  <2>1. run' = [run EXCEPT ![r] = t] /\ containers' = containers /\ networks' = networks
    BY <1>3 DEF NextSpec, Goes
  <2>2. RunOK(r, t) /\ t.lost = s.lost /\ t.owned = s.owned /\ t.undo = s.undo /\ t.kept = s.kept /\ t.todo = s.todo
    BY <1>1, <1>2 DEF RunOK, StateTyped, PlanTyped, GuardsTyped, KeptTyped, SpecAt, NewRun, Phases, OfASpec
  <2>3. Known(r, s) \subseteq Known(r, t)
    BY <2>2 DEF Known, Held, Migrating
  <2> QED BY <2>1, <2>2, <2>3, HostUntouched
<1>4. CASE ~(s.cancelled \/ s.at = Len(Files[r]))
  <2>1. /\ DOMAIN next = DOMAIN s /\ next.at = s.at + 1 /\ next.tries = s.tries /\ next.network = s.network
        /\ next.owned = s.owned /\ next.undo = s.undo /\ next.kept = s.kept /\ next.lost = s.lost
        /\ next.todo = s.todo /\ next.unread = s.unread /\ next.phase = s.phase
    BY <1>1 DEF RunOK, StateTyped, NewRun
  <2>2. next.at \in 1..Len(Files[r])
    BY <1>2, <1>4, <2>1
  <2>3. f.service \in Services /\ f = SpecAt(r, next)
    BY <2>2, SuiteAssumption DEF SpecAt
  <2>4. CASE canUsePersistentContainers(f) /\ pc # None
    <3> DEFINE t == [next EXCEPT !.phase = "reuse"]
    <3>1. run' = [run EXCEPT ![r] = t] /\ containers' = containers /\ networks' = networks
      BY <1>4, <2>4 DEF NextSpec
    <3>2. /\ DOMAIN t = DOMAIN s /\ t.at = next.at /\ t.tries = s.tries /\ t.network = s.network
          /\ t.owned = s.owned /\ t.undo = s.undo /\ t.kept = s.kept /\ t.lost = s.lost
          /\ t.todo = s.todo /\ t.unread = s.unread /\ t.phase = "reuse"
      BY <1>1, <2>1 DEF RunOK, StateTyped, NewRun
    <3>3. SpecAt(r, t) = f /\ s.kept[f.service] # None
      BY <2>1, <2>3, <2>4, <3>2 DEF SpecAt
    <3> HIDE DEF t, next, f
    <3>4. StateTyped(r, t)
      BY <1>1, <1>2, <2>2, <3>2 DEF RunOK, StateTyped, Phases, OfASpec
    <3>5. PlanTyped(r, t) /\ GuardsTyped(r, t) /\ KeptTyped(r, t)
      BY <1>1, <1>2, <3>2, <3>3 DEF RunOK, PlanTyped, GuardsTyped, KeptTyped
    <3>6. Known(r, s) \subseteq Known(r, t)
      BY <3>2 DEF Known, Held, Migrating
    <3> QED BY <3>1, <3>4, <3>5, <3>6, HostUntouched DEF RunOK
  <2>5. CASE ~(canUsePersistentContainers(f) /\ pc # None)
    <3> DEFINE stop == IF pc = None THEN {} ELSE PersistentNames(r, pc.spec)
               u == [next EXCEPT !.kept[f.service] = None]
    <3>1. PICK left : StartFresh(r, u, stop, left)
      BY <1>4, <2>5 DEF NextSpec
    <3>2. /\ DOMAIN u = DOMAIN s /\ u.at = next.at /\ u.tries = s.tries /\ u.network = s.network
          /\ u.owned = s.owned /\ u.lost = s.lost /\ u.kept = [s.kept EXCEPT ![f.service] = None]
      BY <1>1, <2>1 DEF RunOK, StateTyped, NewRun
    <3>3. SpecAt(r, u) = f /\ pc = s.kept[f.service]
      BY <2>1, <2>3, <3>2 DEF SpecAt
    <3>4. stop \subseteq NamesOf(r)
      BY <1>1, <2>3, <3>3, KeptNames
    <3>5. s.kept[f.service] # None => PersistentNames(r, s.kept[f.service].spec) \subseteq stop
      BY <3>3
    <3> HIDE DEF u, next, f, stop, pc
    <3> QED BY <1>1, <2>2, <3>1, <3>2, <3>3, <3>4, <3>5, FreshOK
  <2> QED BY <2>4, <2>5
<1> QED BY <1>3, <1>4

-----------------------------------------------------------------------------
(***************************************************************************)
(* The cleanup of a suite and its network.                                 *)
(***************************************************************************)
LEMMA CleanupOwnedOK ==
  ASSUME RunsOK, HostOK, NEW r \in Runs, Accounts(r), CleanupOwned(r)
  PROVE  Accountable(r)
<1> DEFINE s == run[r]
<1>1. RunOK(r, s) /\ s.phase = "cleanup" /\ s.owned # << >>
  BY DEF RunsOK, CleanupOwned
<1>2. PICK left : /\ StopAndRemove({Head(s.owned)}, left)
                  /\ run' = [run EXCEPT ![r] = [s EXCEPT !.owned = Tail(@), !.lost = @ \cup left]]
  BY DEF CleanupOwned
<1> DEFINE t == [s EXCEPT !.owned = Tail(@), !.lost = @ \cup left]
<1>3. /\ Tail(s.owned) \in Seq({SharedDB(r), SharedKafka(r)}) /\ Head(s.owned) \in {SharedDB(r), SharedKafka(r)}
      /\ Range(s.owned) \subseteq Range(Tail(s.owned)) \cup {Head(s.owned)}
  <2>1. s.owned \in Seq({SharedDB(r), SharedKafka(r)})
    BY <1>1 DEF RunOK, GuardsTyped
  <2> QED BY <1>1, <2>1, Shortened
<1>4. /\ t.owned = Tail(s.owned) /\ t.lost = s.lost \cup left /\ DOMAIN t = DOMAIN s /\ t.todo = s.todo
      /\ t.phase = s.phase /\ t.at = s.at /\ t.tries = s.tries /\ t.network = s.network
      /\ t.undo = s.undo /\ t.unread = s.unread /\ t.kept = s.kept
  BY <1>1 DEF RunOK, StateTyped, NewRun
<1> HIDE DEF t
<1>5. RunOK(r, t)
  BY <1>1, <1>3, <1>4 DEF RunOK, StateTyped, PlanTyped, GuardsTyped, KeptTyped, SpecAt
<1>6. {Head(s.owned)} \subseteq NamesOf(r)
  BY <1>3 DEF NamesOf
<1>7. Known(r, s) \subseteq Known(r, t) \cup ({Head(s.owned)} \ left)
  BY <1>3, <1>4 DEF Known, Held, Migrating
<1> QED BY <1>2, <1>5, <1>6, <1>7, Removed DEF t

LEMMA CleanupPersistentOK ==
  ASSUME RunsOK, HostOK, NEW r \in Runs, Accounts(r), CleanupPersistent(r)
  PROVE  Accountable(r)
<1> DEFINE s == run[r]
           names == AllKept(r)
<1>1. RunOK(r, s) /\ s.phase = "cleanup"
  BY DEF RunsOK, CleanupPersistent
<1>2. PICK left : /\ StopAndRemove(names, left)
                  /\ run' = [run EXCEPT ![r] = [s EXCEPT !.kept = [v \in Services |-> None], !.lost = @ \cup left]]
  BY DEF CleanupPersistent
<1> DEFINE t == [s EXCEPT !.kept = [v \in Services |-> None], !.lost = @ \cup left]
<1>3. /\ t.kept = [v \in Services |-> None] /\ t.lost = s.lost \cup left /\ DOMAIN t = DOMAIN s /\ t.todo = s.todo
      /\ t.phase = s.phase /\ t.at = s.at /\ t.tries = s.tries /\ t.network = s.network
      /\ t.owned = s.owned /\ t.undo = s.undo /\ t.unread = s.unread
  BY <1>1 DEF RunOK, StateTyped, NewRun
<1>4. names \subseteq NamesOf(r)
  BY <1>1, KeptNames DEF AllKept
<1>5. Held(r, s) \subseteq Held(r, t) \cup (names \ left)
  BY <1>3 DEF Held, AllKept
<1> HIDE DEF t, names
<1>6. RunOK(r, t)
  BY <1>1, <1>3 DEF RunOK, StateTyped, PlanTyped, GuardsTyped, KeptTyped, SpecAt
<1>7. Known(r, s) \subseteq Known(r, t) \cup (names \ left)
  BY <1>3, <1>5 DEF Known, Migrating
<1> QED BY <1>2, <1>4, <1>6, <1>7, Removed DEF t

\* The network of a run is created, tried again or removed.
NetworkStep(r) ==
  LET net == NetworkName(r) IN
  \/ /\ run[r].phase = "new" /\ net \notin DOMAIN networks
     /\ DOMAIN networks' = DOMAIN networks \cup {net} /\ run'[r].network = TRUE /\ run'[r].phase = "setup"
     /\ DOMAIN networks'[net] = {"owner", "lingers"} /\ networks'[net].owner = r /\ networks'[net].lingers = FALSE
     /\ \A other \in DOMAIN networks : networks'[other] = networks[other]
     /\ run'[r].tries = run[r].tries
  \/ /\ run[r].phase = "new" /\ networks' = networks /\ run'[r].network = run[r].network
     /\ run'[r].phase = "cleanup" /\ run'[r].tries = run[r].tries
  \/ /\ run[r].phase = "cleanup" /\ run[r].owned = << >> /\ AllKept(r) = {}
     /\ run'[r].owned = << >> /\ run'[r].kept = run[r].kept /\ run'[r].network = run[r].network
     /\ \/ /\ ~run[r].network \/ run[r].tries = Attempts \/ net \notin DOMAIN networks
           /\ run'[r].phase = "done" /\ run'[r].tries = run[r].tries /\ networks' = networks
        \/ /\ run[r].network /\ net \in DOMAIN networks /\ (Attached(net) \/ networks[net].lingers)
           /\ run'[r].phase = "cleanup" /\ run'[r].tries = run[r].tries + 1
           /\ networks' = [networks EXCEPT ![net].lingers = FALSE]
        \/ /\ run[r].network /\ net \in DOMAIN networks /\ ~Attached(net)
           /\ run'[r].phase = "done" /\ run'[r].tries = run[r].tries
           /\ DOMAIN networks' = DOMAIN networks \ {net}
           /\ \A other \in DOMAIN networks' : networks'[other] = networks[other]

LEMMA CreateNetworkOK ==
  ASSUME RunsOK, HostOK, NEW r \in Runs, Accounts(r), CreateNetwork(r)
  PROVE  RunStep(r) /\ containers' = containers /\ Accounts(r)' /\ NetworkStep(r)
<1> DEFINE s == run[r]
<1>1. RunOK(r, s) /\ s.phase = "new" /\ containers' = containers
  BY DEF RunsOK, CreateNetwork
<1>2. s.todo = << >> /\ s.undo = << >> /\ s.tries = 0 /\ s.network = FALSE
  BY <1>1 DEF RunOK, StateTyped, PlanTyped, GuardsTyped
<1>3. CASE /\ NetworkName(r) \notin DOMAIN networks
           /\ networks' = With(networks, NetworkName(r), [owner |-> r, lingers |-> FALSE])
           /\ run' = [run EXCEPT ![r].phase = "setup", ![r].network = TRUE, ![r].todo = SetupPlan(r)]
  <2> DEFINE t == [s EXCEPT !.phase = "setup", !.network = TRUE, !.todo = SetupPlan(r)]
  <2>1. /\ DOMAIN t = DOMAIN s /\ t.todo = SetupPlan(r) /\ t.phase = "setup" /\ t.network = TRUE
        /\ t.at = s.at /\ t.tries = s.tries /\ t.owned = s.owned /\ t.lost = s.lost
        /\ t.undo = s.undo /\ t.unread = s.unread /\ t.kept = s.kept
    BY <1>1 DEF RunOK, StateTyped, NewRun
  <2>2. run' = [run EXCEPT ![r] = t]
    BY <1>3 DEF RunsOK
  <2> HIDE DEF t
  <2>3. RunOK(r, t)
    BY <1>1, <1>2, <2>1, SetupPlanTyped DEF RunOK, StateTyped, PlanTyped, GuardsTyped, KeptTyped, SpecAt, Phases, OfASpec
  <2>4. RunStep(r) /\ run'[r] = t
    BY <2>2, <2>3, RunSteps
  <2>5. Known(r, s) \subseteq Known(r, t)
    <3>1. Held(r, s) = Held(r, t) /\ ~Migrating(s)
      BY <1>2, <2>1 DEF Held, Migrating
    <3> QED BY <3>1 DEF Known
  <2>6. Accounts(r)'
    BY <1>1, <2>4, <2>5 DEF Accounts
  <2>7. /\ DOMAIN networks' = DOMAIN networks \cup {NetworkName(r)}
        /\ networks'[NetworkName(r)] = [owner |-> r, lingers |-> FALSE]
        /\ \A other \in DOMAIN networks : networks'[other] = networks[other]
        /\ DOMAIN networks'[NetworkName(r)] = {"owner", "lingers"} /\ networks'[NetworkName(r)].owner = r
        /\ networks'[NetworkName(r)].lingers = FALSE
    BY <1>3 DEF With
  <2>8. NetworkStep(r)
    BY <1>1, <1>3, <2>1, <2>4, <2>7 DEF NetworkStep
  <2> QED BY <1>1, <2>4, <2>6, <2>8
<1>4. CASE Goes(r, "cleanup") /\ networks' = networks
  <2> DEFINE t == [s EXCEPT !.phase = "cleanup"]
  <2>1. /\ DOMAIN t = DOMAIN s /\ t.todo = s.todo /\ t.phase = "cleanup" /\ t.network = s.network
        /\ t.at = s.at /\ t.tries = s.tries /\ t.owned = s.owned /\ t.lost = s.lost
        /\ t.undo = s.undo /\ t.unread = s.unread /\ t.kept = s.kept
    BY <1>1 DEF RunOK, StateTyped, NewRun
  <2>2. run' = [run EXCEPT ![r] = t]
    BY <1>4 DEF RunsOK, Goes
  <2> HIDE DEF t
  <2>3. RunOK(r, t)
    BY <1>1, <1>2, <2>1 DEF RunOK, StateTyped, PlanTyped, GuardsTyped, KeptTyped, SpecAt, Phases, OfASpec
  <2>4. RunStep(r) /\ run'[r] = t
    BY <2>2, <2>3, RunSteps
  <2>5. Known(r, s) = Known(r, t)
    BY <2>1 DEF Known, Held, Migrating
  <2>6. Accounts(r)'
    BY <1>1, <2>4, <2>5 DEF Accounts
  <2>7. NetworkStep(r)
    BY <1>1, <1>4, <2>1, <2>4 DEF NetworkStep
  <2> QED BY <1>1, <2>4, <2>6, <2>7
<1> QED BY <1>3, <1>4 DEF CreateNetwork

LEMMA RemoveNetworkOK ==
  ASSUME RunsOK, HostOK, NEW r \in Runs, Accounts(r), removeNetworkWithRetry(r)
  PROVE  RunStep(r) /\ containers' = containers /\ Accounts(r)' /\ NetworkStep(r)
<1> DEFINE s == run[r]
           net == NetworkName(r)
           ended == [s EXCEPT !.phase = "done"]
           again == [s EXCEPT !.tries = @ + 1]
<1>1. RunOK(r, s) /\ s.phase = "cleanup" /\ s.owned = << >> /\ AllKept(r) = {} /\ containers' = containers
  BY DEF RunsOK, removeNetworkWithRetry
<1>2. s.todo = << >> /\ s.tries \in Nat /\ s.network \in BOOLEAN
  BY <1>1 DEF RunOK, StateTyped, PlanTyped
<1>3. ASSUME NEW t, run' = [run EXCEPT ![r] = t], DOMAIN t = DOMAIN s, t.phase \in {"cleanup", "done"}, t.tries \in Nat,
             t.todo = s.todo, t.network = s.network, t.at = s.at, t.owned = s.owned, t.lost = s.lost,
             t.undo = s.undo, t.unread = s.unread, t.kept = s.kept
      PROVE  RunStep(r) /\ run'[r] = t /\ Accounts(r)'
  <2>1. RunOK(r, t)
    BY <1>1, <1>2, <1>3 DEF RunOK, StateTyped, PlanTyped, GuardsTyped, KeptTyped, SpecAt, Phases, OfASpec
  <2>2. RunStep(r) /\ run'[r] = t
    BY <1>3, <2>1, RunSteps
  <2>3. Known(r, s) = Known(r, t)
    BY <1>3 DEF Known, Held, Migrating
  <2> QED BY <1>1, <2>2, <2>3 DEF Accounts
<1>4. /\ DOMAIN ended = DOMAIN s /\ ended.phase = "done" /\ ended.tries = s.tries
      /\ ended.todo = s.todo /\ ended.network = s.network /\ ended.at = s.at /\ ended.owned = s.owned
      /\ ended.lost = s.lost /\ ended.undo = s.undo /\ ended.unread = s.unread /\ ended.kept = s.kept
  BY <1>1 DEF RunOK, StateTyped, NewRun
<1>5. /\ DOMAIN again = DOMAIN s /\ again.phase = "cleanup" /\ again.tries = s.tries + 1
      /\ again.todo = s.todo /\ again.network = s.network /\ again.at = s.at /\ again.owned = s.owned
      /\ again.lost = s.lost /\ again.undo = s.undo /\ again.unread = s.unread /\ again.kept = s.kept
  BY <1>1 DEF RunOK, StateTyped, NewRun
<1>6. \/ /\ ~s.network \/ s.tries = Attempts \/ net \notin DOMAIN networks
         /\ run' = [run EXCEPT ![r] = ended] /\ networks' = networks
      \/ /\ s.network /\ net \in DOMAIN networks /\ (Attached(net) \/ networks[net].lingers)
         /\ run' = [run EXCEPT ![r] = again] /\ networks' = [networks EXCEPT ![net].lingers = FALSE]
      \/ /\ s.network /\ net \in DOMAIN networks /\ ~Attached(net)
         /\ run' = [run EXCEPT ![r] = ended] /\ networks' = Without(networks, {net})
  BY DEF removeNetworkWithRetry, Goes
<1> HIDE DEF ended, again
<1>7. CASE /\ ~s.network \/ s.tries = Attempts \/ net \notin DOMAIN networks
           /\ run' = [run EXCEPT ![r] = ended] /\ networks' = networks
  <2>1. RunStep(r) /\ run'[r] = ended /\ Accounts(r)'
    BY <1>2, <1>3, <1>4, <1>7
  <2>2. NetworkStep(r)
    BY <1>1, <1>4, <1>7, <2>1 DEF NetworkStep
  <2> QED BY <1>1, <2>1, <2>2
<1>8. CASE /\ s.network /\ net \in DOMAIN networks /\ (Attached(net) \/ networks[net].lingers)
           /\ run' = [run EXCEPT ![r] = again] /\ networks' = [networks EXCEPT ![net].lingers = FALSE]
  <2>1. again.tries \in Nat
    BY <1>2, <1>5
  <2>3. RunStep(r) /\ run'[r] = again /\ Accounts(r)'
    BY <2>1, <1>3, <1>5, <1>8
  <2>2. NetworkStep(r)
    BY <1>1, <1>5, <1>8, <2>3 DEF NetworkStep
  <2> QED BY <1>1, <2>2, <2>3
<1>9. CASE /\ s.network /\ net \in DOMAIN networks /\ ~Attached(net)
           /\ run' = [run EXCEPT ![r] = ended] /\ networks' = Without(networks, {net})
  <2>1. RunStep(r) /\ run'[r] = ended /\ Accounts(r)'
    BY <1>2, <1>3, <1>4, <1>9
  <2>2. /\ DOMAIN networks' = DOMAIN networks \ {net}
        /\ \A other \in DOMAIN networks' : networks'[other] = networks[other]
    BY <1>9 DEF Without
  <2>3. NetworkStep(r)
    BY <1>1, <1>4, <1>9, <2>1, <2>2 DEF NetworkStep
  <2> QED BY <1>1, <2>1, <2>3
<1> QED BY <1>6, <1>7, <1>8, <1>9

-----------------------------------------------------------------------------
(***************************************************************************)
(* Every step but those of the network leaves the network and the attempts *)
(* to remove it alone, and is not one of a run that only waits for them.   *)
(***************************************************************************)
Quiet(r) ==
  /\ run'[r].tries = run[r].tries /\ run'[r].network = run[r].network
  /\ run[r].phase # "done" /\ run'[r].phase # "done"
  /\ run[r].phase = "cleanup" => run[r].owned # << >> \/ AllKept(r) # {}
  /\ run'[r] # run[r] \/ DOMAIN containers \subseteq DOMAIN containers'

LEMMA QuietSetup ==
  ASSUME RunsOK, HostOK, NEW r \in Runs,
         StartContainer(r) \/ Fails(r) \/ BeginMigration(r) \/ FetchSchema(r) \/ EndSetup(r)
            \/ InspectProxies(r) \/ Interrupt(r)
  PROVE  Quiet(r)
<1> DEFINE s == run[r]
<1>1. RunOK(r, s) /\ DOMAIN run = Runs
  BY DEF RunsOK
<1>2. DOMAIN NewRun \subseteq DOMAIN s /\ s.phase \in Phases
  BY <1>1 DEF RunOK, StateTyped
<1>3. s.phase \notin {"cleanup", "done"}
  BY <1>1, DoingPhase DEF StartContainer, Fails, BeginMigration, FetchSchema, EndSetup, InspectProxies, Interrupt
<1>4. DOMAIN containers \subseteq DOMAIN containers'
  BY DEF StartContainer, Fails, BeginMigration, FetchSchema, EndSetup, InspectProxies, Interrupt, With
<1>5. run'[r].tries = s.tries /\ run'[r].network = s.network /\ run'[r].phase # "done"
  <2>1. ASSUME StartContainer(r) PROVE run'[r].tries = s.tries /\ run'[r].network = s.network /\ run'[r].phase # "done"
    <3> DEFINE step == Head(s.todo)
               a == Tracked(s, step)
               b == Guarded(a, step)
    <3>1. a.tries = s.tries /\ a.network = s.network /\ a.phase = s.phase /\ DOMAIN a = DOMAIN s
      BY <1>2 DEF Tracked, NewRun
    <3> HIDE DEF a
    <3>2. b.tries = s.tries /\ b.network = s.network /\ b.phase = s.phase /\ DOMAIN b = DOMAIN s
      BY <1>2, <3>1 DEF Guarded, NewRun
    <3>3. run'[r] \in {Advance(b), Abort(r, a), [Abort(r, a) EXCEPT !.lost = IF step.shared THEN @ ELSE @ \cup {step.name}]}
      BY <1>1, <2>1 DEF StartContainer, a
    <3> HIDE DEF b, step
    <3> QED BY <1>2, <1>3, <3>1, <3>2, <3>3 DEF Advance, Abort, NewRun
  <2>2. ASSUME Fails(r) PROVE run'[r].tries = s.tries /\ run'[r].network = s.network /\ run'[r].phase # "done"
    BY <1>1, <1>2, <2>2 DEF Fails, Abort, NewRun
  <2>3. ASSUME BeginMigration(r) PROVE run'[r].tries = s.tries /\ run'[r].network = s.network /\ run'[r].phase # "done"
    BY <1>1, <1>2, <1>3, <2>3 DEF BeginMigration, NewRun
  <2>4. ASSUME FetchSchema(r) PROVE run'[r].tries = s.tries /\ run'[r].network = s.network /\ run'[r].phase # "done"
    BY <1>1, <1>2, <1>3, <2>4 DEF FetchSchema, Advance, NewRun
  <2>5. ASSUME EndSetup(r) PROVE run'[r].tries = s.tries /\ run'[r].network = s.network /\ run'[r].phase # "done"
    BY <1>1, <1>2, <2>5 DEF EndSetup, NewRun
  <2>6. ASSUME InspectProxies(r) PROVE run'[r].tries = s.tries /\ run'[r].network = s.network /\ run'[r].phase # "done"
    BY <1>1, <1>2, <1>3, <2>6 DEF InspectProxies, Advance, NewRun
  <2>7. ASSUME Interrupt(r) PROVE run'[r].tries = s.tries /\ run'[r].network = s.network /\ run'[r].phase # "done"
    BY <1>1, <1>2, <1>3, <2>7 DEF Interrupt, NewRun
  <2> QED BY <2>1, <2>2, <2>3, <2>4, <2>5, <2>6, <2>7
<1> QED BY <1>3, <1>4, <1>5 DEF Quiet

LEMMA QuietSpec ==
  ASSUME RunsOK, HostOK, NEW r \in Runs,
         NextSpec(r) \/ NextSpecUnreadable(r) \/ prepareForReuse(r) \/ FallBack(r) \/ BeginTest(r) \/ EndTest(r)
  PROVE  Quiet(r)
<1> DEFINE s == run[r]
<1>1. RunOK(r, s) /\ DOMAIN run = Runs
  BY DEF RunsOK
<1>2. DOMAIN NewRun \subseteq DOMAIN s /\ s.phase \in Phases
  BY <1>1 DEF RunOK, StateTyped
<1>3. s.phase \notin {"cleanup", "done"}
  BY DEF NextSpec, NextSpecUnreadable, prepareForReuse, FallBack, BeginTest, EndTest
<1>4. ASSUME NEW u, NEW stop, NEW left, StartFresh(r, u, stop, left),
             DOMAIN u = DOMAIN s, u.tries = s.tries, u.network = s.network, s.phase # "fresh"
      PROVE  Quiet(r)
  <2>1. run'[r].tries = s.tries /\ run'[r].network = s.network /\ run'[r].phase = "fresh"
    BY <1>1, <1>2, <1>4 DEF StartFresh, NewRun
  <2> QED BY <1>3, <1>4, <2>1 DEF Quiet
<1>5. ASSUME NextSpec(r) PROVE Quiet(r)
  <2> DEFINE next == [s EXCEPT !.at = @ + 1]
             f == Files[r][next.at]
             pc == next.kept[f.service]
  <2>1. CASE Goes(r, "cleanup") /\ containers' = containers
    BY <1>1, <1>2, <1>3, <2>1 DEF Goes, Quiet, NewRun
  <2>2. CASE run' = [run EXCEPT ![r] = [next EXCEPT !.phase = "reuse"]] /\ containers' = containers
    BY <1>1, <1>2, <1>3, <2>2 DEF Quiet, NewRun
  <2>3. CASE \E stop, left : StartFresh(r, [next EXCEPT !.kept[f.service] = None], stop, left)
    <3> DEFINE u == [next EXCEPT !.kept[f.service] = None]
    <3>1. DOMAIN u = DOMAIN s /\ u.tries = s.tries /\ u.network = s.network /\ s.phase = "next"
      BY <1>2, <1>5 DEF NewRun, NextSpec
    <3>2. PICK stop, left : StartFresh(r, u, stop, left)
      BY <2>3
    <3> HIDE DEF u
    <3> QED BY <1>4, <3>1, <3>2
  <2> QED BY <1>5, <2>1, <2>2, <2>3 DEF NextSpec
<1>6. ASSUME NextSpecUnreadable(r) PROVE Quiet(r)
  BY <1>1, <1>2, <1>3, <1>6 DEF NextSpecUnreadable, Quiet, NewRun
<1>7. ASSUME prepareForReuse(r) PROVE Quiet(r)
  BY <1>1, <1>2, <1>3, <1>7 DEF prepareForReuse, Quiet, NewRun
<1>8. ASSUME FallBack(r) PROVE Quiet(r)
  <2> DEFINE u == Forget(s, r, SpecOf(r).service)
  <2>1. StartFresh(r, u, {}, {}) /\ s.phase = "reuse"
    BY <1>8 DEF FallBack
  <2>2. DOMAIN u = DOMAIN s /\ u.tries = s.tries /\ u.network = s.network
    BY <1>2 DEF Forget, NewRun
  <2> HIDE DEF u
  <2> QED BY <1>4, <2>1, <2>2
<1>9. ASSUME BeginTest(r) PROVE Quiet(r)
  BY <1>1, <1>2, <1>3, <1>9 DEF BeginTest, Quiet, NewRun
<1>10. ASSUME EndTest(r) PROVE Quiet(r)
  <2>1. DOMAIN containers' = DOMAIN containers
    BY <1>10 DEF EndTest, Dirtied
  <2>2. run'[r].tries = s.tries /\ run'[r].network = s.network /\ run'[r].phase \in {"next", "unwind"}
    <3> DEFINE f == SpecOf(r)
               rest == [s EXCEPT !.todo = << >>, !.on = None]
               failed == [rest EXCEPT !.failed = @ \cup {s.at}]
    <3>1. run'[r] \in {[failed EXCEPT !.phase = "next"], [rest EXCEPT !.phase = "next"], [failed EXCEPT !.phase = "unwind"],
                       [rest EXCEPT !.phase = "unwind"],
                       [rest EXCEPT !.phase = "next", !.undo = << >>,
                                    !.kept[f.service] = [spec |-> f, unread |-> s.unread]]}
      BY <1>1, <1>10 DEF EndTest
    <3>2. /\ DOMAIN rest = DOMAIN s /\ rest.tries = s.tries /\ rest.network = s.network
          /\ DOMAIN failed = DOMAIN s /\ failed.tries = s.tries /\ failed.network = s.network
      BY <1>2 DEF NewRun
    <3> HIDE DEF rest, failed
    <3> QED BY <1>2, <3>1, <3>2 DEF NewRun
  <2> QED BY <1>3, <2>1, <2>2 DEF Quiet
<1> QED BY <1>5, <1>6, <1>7, <1>8, <1>9, <1>10

LEMMA QuietRemovals ==
  ASSUME RunsOK, HostOK, NEW r \in Runs,
         EndMigration(r) \/ Unwind(r) \/ CleanupOwned(r) \/ CleanupPersistent(r)
  PROVE  Quiet(r)
<1> DEFINE s == run[r]
<1>1. RunOK(r, s) /\ DOMAIN run = Runs
  BY DEF RunsOK
<1>2. DOMAIN NewRun \subseteq DOMAIN s /\ s.phase \in Phases
  BY <1>1 DEF RunOK, StateTyped
<1>3. ASSUME NEW S, NEW q \in Seq(S), q # << >>
      PROVE  Tail(q) # q /\ Front(q) # q
  <2>1. Len(q) \in Nat \ {0} /\ DOMAIN q = 1..Len(q) /\ \A i \in 1..Len(q) : q[i] \in S
    BY <1>3, EmptySeq, LenProperties
  <2>2. Len(Tail(q)) = Len(q) - 1
    BY <1>3, HeadTailProperties
  <2>3. Front(q) \in Seq(S) /\ Len(Front(q)) = Len(q) - 1
    BY <2>1 DEF Front
  <2>4. Len(q) # Len(q) - 1
    <3>1. \A k \in Nat : k # k - 1
      OBVIOUS
    <3>2. Len(q) \in Nat
      BY <2>1
    <3> QED BY <3>1, <3>2
  <2> QED BY <2>2, <2>3, <2>4
<1>4. ASSUME EndMigration(r) PROVE Quiet(r)
  <2>1. s.phase \in {"setup", "fresh"} /\ s.todo # << >>
    BY <1>1, <1>4, DoingPhase DEF EndMigration, Doing
  <2>2. PICK t \in {Advance(s), Abort(r, s)} : run'[r] = t
    BY <1>1, <1>4 DEF EndMigration
  <2>3. Tail(s.todo) # s.todo
    BY <1>1, <1>3, <2>1 DEF RunOK, PlanTyped
  <2>4. t.tries = s.tries /\ t.network = s.network /\ t.phase # "done" /\ t # s
    BY <1>2, <2>1, <2>2, <2>3 DEF Advance, Abort, NewRun
  <2> QED BY <2>1, <2>2, <2>4 DEF Quiet
<1>5. ASSUME Unwind(r) PROVE Quiet(r)
  <2>1. s.phase = "unwind" /\ s.undo \in Seq(StartedBy(r, SpecAt(r, s)))
    BY <1>1, <1>5 DEF Unwind, RunOK, GuardsTyped
  <2>2. CASE s.undo = << >>
    BY <1>1, <1>2, <1>5, <2>1, <2>2 DEF Unwind, Goes, Quiet, NewRun
  <2>3. CASE s.undo # << >>
    <3>1. PICK left : run'[r] = [s EXCEPT !.undo = Front(@), !.lost = @ \cup left]
      BY <1>1, <1>5, <2>3 DEF Unwind
    <3>2. Front(s.undo) # s.undo
      BY <1>3, <2>1, <2>3
    <3> QED BY <1>2, <2>1, <3>1, <3>2 DEF Quiet, NewRun
  <2> QED BY <2>2, <2>3
<1>6. ASSUME CleanupOwned(r) PROVE Quiet(r)
  <2>1. PICK left : run'[r] = [s EXCEPT !.owned = Tail(@), !.lost = @ \cup left]
    BY <1>1, <1>6 DEF CleanupOwned
  <2>2. s.phase = "cleanup" /\ s.owned # << >> /\ Tail(s.owned) # s.owned
    BY <1>1, <1>3, <1>6 DEF CleanupOwned, RunOK, GuardsTyped
  <2> QED BY <1>2, <2>1, <2>2 DEF Quiet, NewRun
<1>7. ASSUME CleanupPersistent(r) PROVE Quiet(r)
  <2>1. PICK left : run'[r] = [s EXCEPT !.kept = [v \in Services |-> None], !.lost = @ \cup left]
    BY <1>1, <1>7 DEF CleanupPersistent
  <2>2. s.phase = "cleanup" /\ AllKept(r) # {}
    BY <1>7 DEF CleanupPersistent
  <2>3. PICK v \in Services : s.kept[v] # None
    BY <2>2 DEF AllKept
  <2>4. run'[r] # s
    <3>1. run'[r].kept[v] = None
      BY <1>2, <2>1 DEF NewRun
    <3> QED BY <2>3, <3>1
  <2> QED BY <1>2, <2>1, <2>2, <2>4 DEF Quiet, NewRun
<1> QED BY <1>4, <1>5, <1>6, <1>7

\* Every step of a run is one of the two kinds.
HostStep(r) == ContainerStep(r) /\ SameNetworks(r) /\ Quiet(r)

LEMMA StepOK ==
  ASSUME RunsOK, HostOK, NEW r \in Runs, Accounts(r), Step(r) \/ Interrupt(r)
  PROVE  /\ RunStep(r) /\ Accounts(r)'
         /\ HostStep(r) \/ (containers' = containers /\ NetworkStep(r))
<1>1. ASSUME Accountable(r), Quiet(r)
      PROVE  RunStep(r) /\ Accounts(r)' /\ HostStep(r)
  BY <1>1 DEF Accountable, HostStep
<1>2. CASE StartContainer(r) \/ Fails(r) \/ BeginMigration(r) \/ FetchSchema(r) \/ EndSetup(r)
            \/ InspectProxies(r) \/ Interrupt(r)
  BY <1>1, <1>2, QuietSetup, StartContainerOK, FailsOK, BeginMigrationOK, FetchSchemaOK, EndSetupOK,
     InspectProxiesOK, InterruptOK
<1>3. CASE NextSpec(r) \/ NextSpecUnreadable(r) \/ prepareForReuse(r) \/ FallBack(r) \/ BeginTest(r) \/ EndTest(r)
  BY <1>1, <1>3, QuietSpec, NextSpecOK, NextSpecUnreadableOK, PrepareForReuseOK, FallBackOK, BeginTestOK, EndTestOK
<1>4. CASE EndMigration(r) \/ Unwind(r) \/ CleanupOwned(r) \/ CleanupPersistent(r)
  BY <1>1, <1>4, QuietRemovals, EndMigrationOK, UnwindOK, CleanupOwnedOK, CleanupPersistentOK
<1>5. CASE CreateNetwork(r) \/ removeNetworkWithRetry(r)
  BY <1>5, CreateNetworkOK, RemoveNetworkOK
<1> QED BY <1>2, <1>3, <1>4, <1>5 DEF Step

-----------------------------------------------------------------------------
(***************************************************************************)
(* The invariant of the host.                                              *)
(***************************************************************************)
OwnNames == \A n \in DOMAIN containers : n \in NamesOf(containers[n].owner)

\* A network belongs to a run that knows of it, and a run has the network it knows of.
NetworksKnown == \A net \in DOMAIN networks : run[networks[net].owner].network

HasNetwork(r) ==
  run[r].network /\ run[r].phase # "done" =>
    NetworkName(r) \in DOMAIN networks /\ networks[NetworkName(r)].owner = r

\* A running container is attached to the network of its own run.
Endpoints ==
  \A n \in DOMAIN containers : containers[n].up =>
    containers[n].net \in DOMAIN networks /\ networks[containers[n].net].owner = containers[n].owner

Ended(r) == run[r].phase = "done" => run[r].owned = << >> /\ AllKept(r) = {}

HostInv ==
  /\ RunsOK /\ HostOK /\ OwnNames /\ NetworksKnown /\ Endpoints
  /\ \A r \in Runs : Accounts(r) /\ HasNetwork(r) /\ Ended(r)

LEMMA InitInv == Init => HostInv
<1> SUFFICES ASSUME Init PROVE HostInv
  OBVIOUS
<1>1. run = [r \in Runs |-> NewRun] /\ DOMAIN containers = {} /\ DOMAIN networks = {}
  BY DEF Init
<1>2. ASSUME NEW r \in Runs
      PROVE  RunOK(r, NewRun)
  <2>1. Len(Files[r]) \in Nat
    BY SuiteAssumption
  <2>2. StateTyped(r, NewRun)
    BY <2>1 DEF StateTyped, NewRun, Phases, OfASpec
  <2>3. PlanTyped(r, NewRun)
    BY DEF PlanTyped, NewRun
  <2>4. GuardsTyped(r, NewRun)
    BY DEF GuardsTyped, NewRun
  <2>5. KeptTyped(r, NewRun)
    BY DEF KeptTyped, NewRun
  <2> QED BY <2>2, <2>3, <2>4, <2>5 DEF RunOK
<1>3. RunsOK
  BY <1>1, <1>2 DEF RunsOK
<1>4. HostOK /\ OwnNames /\ NetworksKnown /\ Endpoints /\ \A r \in Runs : Accounts(r)
  BY <1>1 DEF HostOK, OwnNames, NetworksKnown, Endpoints, Accounts
<1>5. \A r \in Runs : HasNetwork(r) /\ Ended(r)
  BY <1>1 DEF HasNetwork, Ended, NewRun
<1> QED BY <1>3, <1>4, <1>5 DEF HostInv

LEMMA HostStepInv ==
  ASSUME HostInv, NEW r \in Runs, RunStep(r), Accounts(r)', HostStep(r)
  PROVE  HostInv'
<1>1. RunsOK /\ HostOK /\ ContainerStep(r) /\ SameNetworks(r) /\ Quiet(r)
  BY DEF HostInv, HostStep
<1>2. RunsOK'
  BY <1>1 DEF RunsOK, RunStep
<1>3. HostOK'
  <2>1. ASSUME NEW n \in DOMAIN containers'
        PROVE  /\ {"owner", "net", "up", "aliases", "schema", "dirty", "serves"} \subseteq DOMAIN containers'[n]
               /\ containers'[n].owner \in Runs /\ containers'[n].net = NetworkName(containers'[n].owner)
               /\ containers'[n].up \in BOOLEAN
    BY <1>1, <2>1 DEF ContainerStep, Stays, Starting, HostOK
  <2>2. ASSUME NEW net \in DOMAIN networks'
        PROVE  /\ {"owner", "lingers"} \subseteq DOMAIN networks'[net] /\ networks'[net].lingers \in BOOLEAN
               /\ networks'[net].owner \in Runs /\ net = NetworkName(networks'[net].owner)
    BY <1>1, <2>2 DEF SameNetworks, HostOK
  <2> QED BY <2>1, <2>2 DEF HostOK
<1>4. OwnNames'
  BY <1>1 DEF HostInv, OwnNames, ContainerStep, Stays, Starting
<1>5. NetworksKnown'
  <2>1. \A q \in Runs : run'[q].network = run[q].network
    BY <1>1 DEF RunStep, Quiet
  <2> QED BY <1>1, <2>1 DEF HostInv, NetworksKnown, SameNetworks, HostOK
<1>6. \A q \in Runs : HasNetwork(q)'
  BY <1>1 DEF HostInv, HasNetwork, RunStep, Quiet, SameNetworks
<1>7. Endpoints'
  <2>1. ASSUME NEW n \in DOMAIN containers', containers'[n].up
        PROVE  containers'[n].net \in DOMAIN networks' /\ networks'[containers'[n].net].owner = containers'[n].owner
    <3>1. CASE Stays(n)
      BY <1>1, <2>1, <3>1 DEF HostInv, Endpoints, Stays, SameNetworks
    <3>2. CASE Starting(r, n)
      <4>1. run[r].network /\ run[r].phase # "done"
        BY <1>1, <3>2 DEF Starting, RunsOK, RunOK, StateTyped, Phases
      <4>2. NetworkName(r) \in DOMAIN networks /\ networks[NetworkName(r)].owner = r
        BY <4>1 DEF HostInv, HasNetwork
      <4> QED BY <1>1, <3>2, <4>2 DEF Starting, SameNetworks
    <3> QED BY <1>1, <2>1, <3>1, <3>2 DEF ContainerStep
  <2> QED BY <2>1 DEF Endpoints
<1>8. \A q \in Runs : Accounts(q)'
  <2>1. ASSUME NEW q \in Runs, q # r, NEW n \in DOMAIN containers', containers'[n].owner = q
        PROVE  n \in Known(q, run'[q])
    <3>1. n \in DOMAIN containers /\ containers[n].owner = q
      BY <1>1, <2>1 DEF ContainerStep, Stays, Starting
    <3>2. run'[q] = run[q]
      BY <2>1 DEF RunStep
    <3> QED BY <3>1, <3>2 DEF HostInv, Accounts
  <2> QED BY <2>1 DEF Accounts
<1>9. \A q \in Runs : Ended(q)'
  BY <1>1 DEF HostInv, Ended, AllKept, RunStep, Quiet
<1> QED BY <1>2, <1>3, <1>4, <1>5, <1>6, <1>7, <1>8, <1>9 DEF HostInv

LEMMA NetworkStepInv ==
  ASSUME HostInv, NEW r \in Runs, RunStep(r), Accounts(r)', containers' = containers, NetworkStep(r)
  PROVE  HostInv'
<1>1. RunsOK /\ HostOK /\ RunOK(r, run[r])
  BY DEF HostInv, RunsOK
<1>2. RunsOK' /\ OwnNames'
  BY <1>1 DEF HostInv, RunsOK, RunStep, OwnNames
<1>3. \A q \in Runs : Accounts(q)'
  BY DEF HostInv, Accounts, RunStep
<1> DEFINE net == NetworkName(r)
<1>4. CASE /\ run[r].phase = "new" /\ net \notin DOMAIN networks
           /\ DOMAIN networks' = DOMAIN networks \cup {net} /\ run'[r].network = TRUE /\ run'[r].phase = "setup"
           /\ DOMAIN networks'[net] = {"owner", "lingers"} /\ networks'[net].owner = r /\ networks'[net].lingers = FALSE
           /\ \A other \in DOMAIN networks : networks'[other] = networks[other]
           /\ run'[r].tries = run[r].tries
  <2>1. HostOK'
    BY <1>1, <1>4 DEF HostOK
  <2>2. NetworksKnown'
    BY <1>1, <1>4 DEF HostInv, NetworksKnown, RunStep, HostOK
  <2>3. Endpoints'
    BY <1>4 DEF HostInv, Endpoints
  <2>4. \A q \in Runs : HasNetwork(q)' /\ Ended(q)'
    BY <1>4 DEF HostInv, HasNetwork, Ended, AllKept, RunStep
  <2> QED BY <1>2, <1>3, <2>1, <2>2, <2>3, <2>4 DEF HostInv
<1>5. CASE /\ run[r].phase = "new" /\ networks' = networks /\ run'[r].network = run[r].network
           /\ run'[r].phase = "cleanup" /\ run'[r].tries = run[r].tries
  <2>1. HostOK' /\ Endpoints'
    BY <1>1, <1>5 DEF HostInv, HostOK, Endpoints
  <2>2. NetworksKnown'
    BY <1>1, <1>5 DEF HostInv, NetworksKnown, RunStep, HostOK
  <2>3. \A q \in Runs : HasNetwork(q)' /\ Ended(q)'
    BY <1>5 DEF HostInv, HasNetwork, Ended, AllKept, RunStep
  <2> QED BY <1>2, <1>3, <2>1, <2>2, <2>3 DEF HostInv
<1>6. CASE /\ run[r].phase = "cleanup" /\ run[r].owned = << >> /\ AllKept(r) = {}
           /\ run'[r].owned = << >> /\ run'[r].kept = run[r].kept /\ run'[r].network = run[r].network
           /\ \/ /\ ~run[r].network \/ run[r].tries = Attempts \/ net \notin DOMAIN networks
                 /\ run'[r].phase = "done" /\ run'[r].tries = run[r].tries /\ networks' = networks
              \/ /\ run[r].network /\ net \in DOMAIN networks /\ (Attached(net) \/ networks[net].lingers)
                 /\ run'[r].phase = "cleanup" /\ run'[r].tries = run[r].tries + 1
                 /\ networks' = [networks EXCEPT ![net].lingers = FALSE]
              \/ /\ run[r].network /\ net \in DOMAIN networks /\ ~Attached(net)
                 /\ run'[r].phase = "done" /\ run'[r].tries = run[r].tries
                 /\ DOMAIN networks' = DOMAIN networks \ {net}
                 /\ \A other \in DOMAIN networks' : networks'[other] = networks[other]
  <2>1. \A q \in Runs : Ended(q)'
    BY <1>6 DEF HostInv, Ended, AllKept, RunStep
  <2>2. \A q \in Runs : run'[q].network = run[q].network
    BY <1>6 DEF RunStep
  <2>3. CASE networks' = networks /\ run'[r].phase = "done"
    <3>1. HostOK' /\ Endpoints'
      BY <1>1, <2>3 DEF HostInv, HostOK, Endpoints
    <3>2. NetworksKnown'
      BY <1>1, <2>2, <2>3 DEF HostInv, NetworksKnown, HostOK
    <3>3. \A q \in Runs : HasNetwork(q)'
      BY <2>2, <2>3 DEF HostInv, HasNetwork, RunStep
    <3> QED BY <1>2, <1>3, <2>1, <3>1, <3>2, <3>3 DEF HostInv
  <2>4. CASE net \in DOMAIN networks /\ networks' = [networks EXCEPT ![net].lingers = FALSE] /\ run'[r].phase = "cleanup"
    <3>1. /\ DOMAIN networks' = DOMAIN networks
          /\ \A other \in DOMAIN networks : /\ DOMAIN networks'[other] = DOMAIN networks[other]
                                            /\ networks'[other].owner = networks[other].owner
                                            /\ networks'[other].lingers \in BOOLEAN
      BY <1>1, <2>4 DEF HostOK
    <3>2. HostOK' /\ Endpoints'
      BY <1>1, <3>1 DEF HostInv, HostOK, Endpoints
    <3>3. NetworksKnown'
      BY <1>1, <2>2, <3>1 DEF HostInv, NetworksKnown, HostOK
    <3>4. \A q \in Runs : HasNetwork(q)'
      BY <1>6, <2>2, <2>4, <3>1 DEF HostInv, HasNetwork, RunStep
    <3> QED BY <1>2, <1>3, <2>1, <3>2, <3>3, <3>4 DEF HostInv
  <2>5. CASE /\ run[r].network /\ net \in DOMAIN networks /\ ~Attached(net) /\ run'[r].phase = "done"
             /\ DOMAIN networks' = DOMAIN networks \ {net}
             /\ \A other \in DOMAIN networks' : networks'[other] = networks[other]
    <3>1. HostOK'
      BY <1>1, <2>5 DEF HostOK
    <3>2. Endpoints'
      BY <1>1, <2>5 DEF HostInv, Endpoints, Attached
    <3>3. NetworksKnown'
      BY <1>1, <2>2, <2>5 DEF HostInv, NetworksKnown, HostOK
    <3>4. networks[net].owner = r
      BY <1>6, <2>5 DEF HostInv, HasNetwork
    <3>5. \A q \in Runs : HasNetwork(q)'
      BY <2>2, <2>5, <3>4 DEF HostInv, HasNetwork, RunStep
    <3> QED BY <1>2, <1>3, <2>1, <3>1, <3>2, <3>3, <3>5 DEF HostInv
  <2> QED BY <1>6, <2>3, <2>4, <2>5
<1> QED BY <1>4, <1>5, <1>6 DEF NetworkStep

LEMMA NextInv ==
  ASSUME HostInv, [Next]_vars
  PROVE  HostInv'
<1>1. CASE \E r \in Runs : Step(r) \/ Interrupt(r)
  <2>1. PICK r \in Runs : Step(r) \/ Interrupt(r)
    BY <1>1
  <2> QED BY <2>1, StepOK, HostStepInv, NetworkStepInv DEF HostInv
<1>2. CASE EditMigrations \/ UNCHANGED vars
  <2>1. UNCHANGED <<containers, networks, run>>
    BY <1>2 DEF EditMigrations, vars
  <2>2. RunsOK' /\ HostOK' /\ OwnNames' /\ NetworksKnown' /\ Endpoints'
    BY <2>1 DEF HostInv, RunsOK, HostOK, OwnNames, NetworksKnown, Endpoints
  <2>3. ASSUME NEW r \in Runs PROVE Accounts(r)' /\ HasNetwork(r)' /\ Ended(r)'
    <3>1. Accounts(r) /\ HasNetwork(r) /\ Ended(r)
      BY DEF HostInv
    <3>2. Accounts(r)'
      BY <2>1, <3>1 DEF Accounts
    <3>3. HasNetwork(r)'
      BY <2>1, <3>1 DEF HasNetwork
    <3>4. Ended(r)'
      BY <2>1, <3>1 DEF Ended, AllKept
    <3> QED BY <3>2, <3>3, <3>4
  <2> QED BY <2>2, <2>3 DEF HostInv
<1> QED BY <1>1, <1>2 DEF Next, AllDone

LEMMA Invariant == Spec => []HostInv
<1>1. HostInv /\ [Next]_vars => HostInv'
  BY NextInv
<1> QED BY <1>1, InitInv, PTL DEF Spec

-----------------------------------------------------------------------------
(***************************************************************************)
(* What one run may not do to another.                                     *)
(***************************************************************************)
Spares(r) ==
  /\ \A n \in DOMAIN containers : containers[n].owner = r => n \in DOMAIN containers' /\ containers'[n].owner = r
  /\ \A net \in DOMAIN networks : networks[net].owner = r => net \in DOMAIN networks' /\ networks'[net].owner = r

LEMMA OthersSpared ==
  ASSUME NamesApart, HostInv, [Next]_vars, NEW r \in Runs, run'[r] = run[r]
  PROVE  Spares(r)
<1>1. RunsOK /\ HostOK /\ OwnNames /\ \A q \in Runs : HasNetwork(q)
  BY DEF HostInv
<1>2. CASE UNCHANGED <<containers, networks>>
  BY <1>2 DEF Spares
<1>3. ASSUME NEW q \in Runs, Step(q) \/ Interrupt(q)
      PROVE  Spares(r)
  <2>1. RunStep(q) /\ (HostStep(q) \/ (containers' = containers /\ NetworkStep(q)))
    BY <1>3, StepOK DEF HostInv
  <2>2. CASE HostStep(q)
    <3>1. ContainerStep(q) /\ SameNetworks(q) /\ Quiet(q)
      BY <2>2 DEF HostStep
    <3>2. ASSUME NEW n \in DOMAIN containers, containers[n].owner = r
          PROVE  n \in DOMAIN containers' /\ containers'[n].owner = r
      <4>1. n \in NamesOf(r)
        BY <1>1, <3>2 DEF OwnNames
      <4>2. CASE q = r
        <5>1. n \in DOMAIN containers'
          BY <3>1, <4>2 DEF Quiet
        <5> QED BY <3>1, <3>2, <4>2, <5>1 DEF ContainerStep, Stays, Starting
      <4>3. CASE q # r
        <5>1. n \notin NamesOf(q)
          BY <4>1, <4>3 DEF NamesApart
        <5> QED BY <3>1, <3>2, <5>1 DEF ContainerStep, Stays, Starting
      <4> QED BY <4>2, <4>3
    <3> QED BY <3>1, <3>2 DEF Spares, SameNetworks
  <2>3. CASE containers' = containers /\ NetworkStep(q)
    <3>1. ASSUME NEW net \in DOMAIN networks, networks[net].owner = r
          PROVE  net \in DOMAIN networks' /\ networks'[net].owner = r
      <4>1. CASE q = r
        <5>1. networks' = networks
          BY <2>3, <4>1, <1>1 DEF NetworkStep, RunsOK, RunOK, StateTyped
        <5> QED BY <3>1, <5>1
      <4>2. CASE q # r
        <5>1. net = NetworkName(q) => ~(run[q].network /\ run[q].phase # "done")
          BY <1>1, <3>1, <4>2 DEF HasNetwork
        <5> QED BY <2>3, <1>1, <3>1, <5>1 DEF NetworkStep, HostOK
      <4> QED BY <4>1, <4>2
    <3> QED BY <2>3, <3>1 DEF Spares
  <2> QED BY <2>1, <2>2, <2>3
<1> QED BY <1>2, <1>3 DEF Next, AllDone, EditMigrations, vars

-----------------------------------------------------------------------------
(***************************************************************************)
(* Why the retries are enough: from the first refusal on nothing else of   *)
(* the run is left to stop, so the second one can only mean that a         *)
(* container is still attached, and it stays so.                           *)
(***************************************************************************)
OwnNetwork(r) == NetworkName(r) \in DOMAIN networks /\ networks[NetworkName(r)].owner = r

Trying(r) ==
  run[r].tries > 0 =>
    /\ run[r].owned = << >> /\ AllKept(r) = {}
    /\ OwnNetwork(r) => ~networks[NetworkName(r)].lingers

Holding(r) ==
  run[r].tries > 1 \/ run[r].phase = "done" => (OwnNetwork(r) => Attached(NetworkName(r)))

RetryInv == \A r \in Runs : Trying(r) /\ Holding(r)

\* The containers on the network of a run are its own.
LEMMA AttachedOwn ==
  ASSUME HostInv, NEW q \in Runs, OwnNetwork(q), NEW n \in DOMAIN containers,
         containers[n].up, containers[n].net = NetworkName(q)
  PROVE  containers[n].owner = q /\ n \in NamesOf(q)
BY DEF HostInv, OwnNetwork, Endpoints, OwnNames

LEMMA OthersKeepTrying ==
  ASSUME NamesApart, HostInv, RetryInv, NEW r \in Runs, RunStep(r), HostStep(r), NEW q \in Runs, q # r
  PROVE  Trying(q)' /\ Holding(q)'
<1>1. run'[q] = run[q] /\ ContainerStep(r) /\ SameNetworks(r) /\ AllKept(q)' = AllKept(q)
  BY DEF RunStep, HostStep, AllKept
<1>2. Trying(q) /\ Holding(q)
  BY DEF RetryInv
<1>3. OwnNetwork(q)' => OwnNetwork(q)
  BY <1>1 DEF OwnNetwork, SameNetworks
<1>4. ASSUME OwnNetwork(q) PROVE ~Disturbed(r, NetworkName(q))
  BY <1>4, AttachedOwn DEF Disturbed, Up, Exists, NamesApart
<1>5. Trying(q)'
  <2>1. OwnNetwork(q)' /\ networks'[NetworkName(q)].lingers => networks[NetworkName(q)].lingers
    BY <1>1, <1>3, <1>4 DEF SameNetworks, OwnNetwork
  <2> QED BY <1>1, <1>2, <1>3, <2>1 DEF Trying
<1>6. Holding(q)'
  <2>1. SUFFICES ASSUME run'[q].tries > 1 \/ run'[q].phase = "done", OwnNetwork(q)'
                 PROVE  Attached(NetworkName(q))'
    BY DEF Holding
  <2>2. PICK n \in DOMAIN containers : containers[n].net = NetworkName(q) /\ containers[n].up
    BY <1>1, <1>2, <1>3, <2>1 DEF Holding, Attached
  <2>3. n \notin NamesOf(r)
    BY <1>3, <2>1, <2>2, AttachedOwn DEF NamesApart
  <2>4. n \in DOMAIN containers' /\ Stays(n)
    BY <1>1, <2>3 DEF ContainerStep, Starting
  <2> QED BY <2>2, <2>4 DEF Attached, Stays, NetworkName
<1> QED BY <1>5, <1>6

LEMMA OwnHostStep ==
  ASSUME HostInv, RetryInv, NEW r \in Runs, HostStep(r)
  PROVE  Trying(r)' /\ Holding(r)'
<1>1. Quiet(r) /\ RunOK(r, run[r]) /\ Trying(r)
  BY DEF HostStep, HostInv, RunsOK, RetryInv
<1>2. run[r].tries \in Nat /\ (run[r].phase \notin {"cleanup", "done"} => run[r].tries = 0)
  BY <1>1 DEF RunOK, StateTyped
<1>3. run[r].tries = 0
  BY <1>1, <1>2 DEF Trying, Quiet
<1> QED BY <1>1, <1>3 DEF Trying, Holding, Quiet

LEMMA NetworkStepRetry ==
  ASSUME Attempts > 1, HostInv, RetryInv, NEW r \in Runs, RunStep(r), containers' = containers, NetworkStep(r),
         NEW q \in Runs
  PROVE  Trying(q)' /\ Holding(q)'
<1>1. RunOK(r, run[r]) /\ HostOK /\ Trying(q) /\ Holding(q) /\ run[r].tries \in Nat
  BY DEF HostInv, RunsOK, RetryInv, RunOK, StateTyped
<1>2. CASE q # r
  <2>1. run'[q] = run[q] /\ AllKept(q)' = AllKept(q) /\ Attached(NetworkName(q))' = Attached(NetworkName(q))
    BY <1>2 DEF RunStep, AllKept, Attached, NetworkName
  <2>2. OwnNetwork(q)' => /\ OwnNetwork(q)
                          /\ networks'[NetworkName(q)].lingers => networks[NetworkName(q)].lingers
    BY <1>1, <1>2 DEF NetworkStep, OwnNetwork, HostOK
  <2> QED BY <1>1, <2>1, <2>2 DEF Trying, Holding
<1>3. CASE q = r
  <2> DEFINE net == NetworkName(r)
  <2>1. Attached(net)' = Attached(net)
    BY DEF Attached, NetworkName
  <2>2. CASE run[r].phase = "new"
    <3>1. run'[r].tries = 0 /\ run'[r].phase # "done"
      BY <1>1, <2>2 DEF NetworkStep, RunOK, StateTyped
    <3> QED BY <1>3, <3>1 DEF Trying, Holding
  <2>3. CASE /\ run[r].owned = << >> /\ AllKept(r) = {}
             /\ run'[r].owned = << >> /\ run'[r].kept = run[r].kept /\ run'[r].network = run[r].network
             /\ ~run[r].network \/ run[r].tries = Attempts \/ net \notin DOMAIN networks
             /\ run'[r].phase = "done" /\ run'[r].tries = run[r].tries /\ networks' = networks
    <3>1. AllKept(r)' = {} /\ (OwnNetwork(r)' <=> OwnNetwork(r))
      BY <2>3 DEF AllKept, OwnNetwork
    <3>2. OwnNetwork(r) => run[r].network
      BY DEF HostInv, NetworksKnown, OwnNetwork
    <3>3. Trying(r)'
      BY <1>1, <1>3, <2>3, <3>1 DEF Trying
    <3>4. OwnNetwork(r) => Attached(net)
      BY <1>1, <1>3, <2>3, <3>2 DEF Holding, OwnNetwork
    <3>5. Holding(r)'
      BY <2>1, <3>1, <3>4 DEF Holding
    <3> QED BY <1>3, <3>3, <3>5
  <2>4. CASE /\ run[r].phase = "cleanup" /\ run[r].owned = << >> /\ AllKept(r) = {}
             /\ run'[r].owned = << >> /\ run'[r].kept = run[r].kept /\ run'[r].network = run[r].network
             /\ run[r].network /\ net \in DOMAIN networks /\ (Attached(net) \/ networks[net].lingers)
             /\ run'[r].phase = "cleanup" /\ run'[r].tries = run[r].tries + 1
             /\ networks' = [networks EXCEPT ![net].lingers = FALSE]
    <3>1. AllKept(r)' = {} /\ ~networks'[net].lingers
      <4>1. AllKept(r)' = {}
        BY <2>4 DEF AllKept
      <4>2. net \in DOMAIN networks' /\ "lingers" \in DOMAIN networks[net]
        BY <1>1, <2>4 DEF HostOK
      <4>3. networks'[net] = [networks[net] EXCEPT !.lingers = FALSE]
        BY <2>4
      <4> QED BY <4>1, <4>2, <4>3
    <3>2. OwnNetwork(r)
      BY <2>4 DEF HostInv, HasNetwork, OwnNetwork
    <3>3. Trying(r)'
      BY <2>4, <3>1 DEF Trying, NetworkName
    <3>4. run'[r].tries > 1 => Attached(net)
      BY <1>1, <1>3, <2>4, <3>2 DEF Trying
    <3>5. Holding(r)'
      BY <2>1, <2>4, <3>4 DEF Holding
    <3> QED BY <1>3, <3>3, <3>5
  <2>5. CASE /\ run[r].owned = << >> /\ AllKept(r) = {}
             /\ run'[r].owned = << >> /\ run'[r].kept = run[r].kept /\ run'[r].network = run[r].network
             /\ DOMAIN networks' = DOMAIN networks \ {net}
    <3>1. AllKept(r)' = {} /\ ~OwnNetwork(r)'
      BY <2>5 DEF AllKept, OwnNetwork, NetworkName
    <3> QED BY <1>3, <2>5, <3>1 DEF Trying, Holding
  <2> QED BY <2>2, <2>3, <2>4, <2>5 DEF NetworkStep
<1> QED BY <1>2, <1>3

LEMMA NextRetry ==
  ASSUME NamesApart, Attempts > 1, HostInv, RetryInv, [Next]_vars
  PROVE  RetryInv'
<1>1. CASE \E r \in Runs : Step(r) \/ Interrupt(r)
  <2>1. PICK r \in Runs : Step(r) \/ Interrupt(r)
    BY <1>1
  <2>2. RunStep(r) /\ (HostStep(r) \/ (containers' = containers /\ NetworkStep(r)))
    BY <2>1, StepOK DEF HostInv
  <2> QED BY <2>2, OthersKeepTrying, OwnHostStep, NetworkStepRetry DEF RetryInv
<1>2. CASE EditMigrations \/ UNCHANGED vars
  <2>1. UNCHANGED <<containers, networks, run>>
    BY <1>2 DEF EditMigrations, vars
  <2>2. ASSUME NEW r \in Runs PROVE Trying(r)' /\ Holding(r)'
    <3>1. Trying(r) /\ Holding(r)
      BY DEF RetryInv
    <3>2. Trying(r)'
      BY <2>1, <3>1 DEF Trying, OwnNetwork, AllKept
    <3>3. Holding(r)'
      BY <2>1, <3>1 DEF Holding, OwnNetwork, Attached
    <3> QED BY <3>2, <3>3
  <2> QED BY <2>2 DEF RetryInv
<1> QED BY <1>1, <1>2 DEF Next, AllDone

-----------------------------------------------------------------------------
(***************************************************************************)
(* The theorems.                                                           *)
(***************************************************************************)

\* A name nobody chose ends in the run that made it.
LEMMA NameEnds ==
  ASSUME NEW r, NEW role, role \notin Explicit, NEW S, NEW parts \in Seq(S)
  PROVE  Len(Named(r, role, parts)) = Len(parts) + 2 /\ Named(r, role, parts)[Len(parts) + 2] = r
<1> DEFINE T == S \cup {role, r}
           front == <<role>> \o parts
<1>1. <<role>> \in Seq(T) /\ Len(<<role>>) = 1 /\ <<r>> \in Seq(T) /\ Len(<<r>>) = 1 /\ <<r>>[1] = r
  OBVIOUS
<1>2. parts \in Seq(T) /\ Len(parts) \in Nat
  OBVIOUS
<1> HIDE DEF T
<1>3. front \in Seq(T) /\ Len(front) = Len(parts) + 1
  BY <1>1, <1>2, ConcatProperties
<1> HIDE DEF front
<1>4. Len(front \o <<r>>) = Len(parts) + 2 /\ (front \o <<r>>)[Len(parts) + 2] = r
  BY <1>1, <1>2, <1>3, ConcatProperties
<1> QED BY <1>4 DEF Named, front

\* Two runs have a name in common only where container_naming names a role of
\* containers; a network that is named for all of them is no such role.
LEMMA NetworkNameOnly ==
  ASSUME Explicit \subseteq {"network"}
  PROVE  NamesApart
<1>1. ASSUME NEW r \in Runs, NEW n \in NamesOf(r)
      PROVE  \E k \in {2, 3, 4, 5} : Len(n) = k /\ n[k] = r
  <2>1. \A role \in {"database", "kafka", "migrate", "proxy", "app"} : role \notin Explicit
    OBVIOUS
  <2>2. ASSUME NEW role, role \notin Explicit, NEW parts, NEW S, parts \in Seq(S), NEW k \in Nat, Len(parts) = k
        PROVE  Len(Named(r, role, parts)) = k + 2 /\ Named(r, role, parts)[k + 2] = r
    BY <2>2, NameEnds
  <2>3. /\ Len(SharedDB(r)) = 2 /\ SharedDB(r)[2] = r
        /\ Len(SharedKafka(r)) = 2 /\ SharedKafka(r)[2] = r
    <3>1. << >> \in Seq({}) /\ Len(<< >>) = 0
      OBVIOUS
    <3>2. Len(SharedDB(r)) = 0 + 2 /\ SharedDB(r)[0 + 2] = r
      BY <2>1, <2>2, <3>1 DEF SharedDB
    <3>3. Len(SharedKafka(r)) = 0 + 2 /\ SharedKafka(r)[0 + 2] = r
      BY <2>1, <2>2, <3>1 DEF SharedKafka
    <3> QED BY <3>2, <3>3
  <2>4. ASSUME NEW s PROVE Len(MigrateName(r, s)) = 3 /\ MigrateName(r, s)[3] = r
    <3>1. <<s>> \in Seq({s}) /\ Len(<<s>>) = 1
      OBVIOUS
    <3>2. Len(MigrateName(r, s)) = 1 + 2 /\ MigrateName(r, s)[1 + 2] = r
      BY <2>1, <2>2, <3>1 DEF MigrateName
    <3> QED BY <3>2
  <2>5. ASSUME NEW f PROVE Len(AppName(r, f)) = 3 /\ AppName(r, f)[3] = r
    <3>1. <<f.name>> \in Seq({f.name}) /\ Len(<<f.name>>) = 1
      OBVIOUS
    <3>2. Len(AppName(r, f)) = 1 + 2 /\ AppName(r, f)[1 + 2] = r
      BY <2>1, <2>2, <3>1 DEF AppName
    <3> QED BY <3>2
  <2>6. ASSUME NEW f, NEW type PROVE Len(ProxyName(r, f, type)) = 4 /\ ProxyName(r, f, type)[4] = r
    <3>1. <<type, f.name>> \in Seq({type, f.name}) /\ Len(<<type, f.name>>) = 2
      OBVIOUS
    <3>2. Len(ProxyName(r, f, type)) = 2 + 2 /\ ProxyName(r, f, type)[2 + 2] = r
      BY <2>1, <2>2, <3>1 DEF ProxyName
    <3> QED BY <3>2
  <2>7. CASE n \in {SharedDB(r), SharedKafka(r)}
    BY <2>3, <2>7
  <2>8. CASE n \in {MigrateName(r, s) : s \in Services}
    BY <2>4, <2>8
  <2>9. CASE n \in UNION {SpecNames(r, f) : f \in Specs(r)}
    <3>1. PICK f \in Specs(r) : n \in SpecNames(r, f)
      BY <2>9
    <3>2. CASE n = AppName(r, f)
      BY <2>5, <3>2
    <3>3. CASE \E type : n = ProxyName(r, f, type)
      BY <2>6, <3>3
    <3>4. CASE \E db : n = EngineName(r, f, db)
      BY <3>4 DEF EngineName
    <3> QED BY <3>1, <3>2, <3>3, <3>4 DEF SpecNames
  <2> QED BY <1>1, <2>7, <2>8, <2>9 DEF NamesOf
<1>2. ASSUME NEW r \in Runs, NEW q \in Runs, NEW n \in NamesOf(r) \cap NamesOf(q)
      PROVE  r = q
  <2>1. PICK k \in {2, 3, 4, 5} : Len(n) = k /\ n[k] = r
    BY <1>1, <1>2
  <2>2. PICK j \in {2, 3, 4, 5} : Len(n) = j /\ n[j] = q
    BY <1>1, <1>2
  <2> QED BY <2>1, <2>2
<1> QED BY <1>2 DEF NamesApart

\* Whatever another run does, fails at or is interrupted in, the containers and
\* the network of a run stay until it removes them itself, provided that no
\* configuration makes two runs share the name of a container
\* (provenance/prov-2026-c3977f44.yml:37).
THEOREM OnlyOwnAlwaysRemoved == NamesApart => (Spec => OnlyOwnRemoved)
<1> SUFFICES ASSUME NamesApart PROVE Spec => OnlyOwnRemoved
  OBVIOUS
<1>1. HostInv /\ [Next]_vars => [\A r \in Runs : run'[r] = run[r] => Spares(r)]_vars
  BY OthersSpared
<1>2. [\A r \in Runs : run'[r] = run[r] => Spares(r)]_vars =>
        [\A r \in Runs : run'[r] = run[r] =>
          /\ \A n \in DOMAIN containers : containers[n].owner = r =>
                n \in DOMAIN containers' /\ containers'[n].owner = r
          /\ \A net \in DOMAIN networks : networks[net].owner = r =>
                net \in DOMAIN networks' /\ networks'[net].owner = r]_vars
  BY DEF Spares
<1> QED BY <1>1, <1>2, Invariant, PTL DEF Spec, OnlyOwnRemoved

\* However a run ends, only containers the code lost sight of stay behind, and
\* its network only under one of those, provided that the removal of the network
\* is tried more than once and the names of the runs are their own (run()'s
\* deferred removals, CleanupSharedInfrastructure, removeNetworkWithRetry).
THEOREM NothingEverLeft == NamesApart /\ Attempts > 1 => (Spec => []NothingLeft)
<1> SUFFICES ASSUME NamesApart, Attempts > 1 PROVE Spec => []NothingLeft
  OBVIOUS
<1>1. Init => RetryInv
  <2> SUFFICES ASSUME Init, NEW r \in Runs PROVE Trying(r) /\ Holding(r)
    BY DEF RetryInv
  <2>1. run[r] = NewRun
    BY DEF Init
  <2> QED BY <2>1 DEF Trying, Holding, NewRun
<1>2. HostInv /\ RetryInv /\ [Next]_vars => RetryInv'
  BY NextRetry
<1>3. HostInv /\ RetryInv => NothingLeft
  <2> SUFFICES ASSUME HostInv, RetryInv, NEW r \in Runs, run[r].phase = "done"
               PROVE  /\ \A n \in DOMAIN containers : containers[n].owner = r => n \in run[r].lost
                      /\ \A net \in DOMAIN networks :
                            networks[net].owner = r => \E n \in run[r].lost : Up(n) /\ containers[n].net = net
    BY DEF NothingLeft
  <2>1. RunOK(r, run[r]) /\ HostOK /\ Accounts(r) /\ Ended(r) /\ Holding(r)
    BY DEF HostInv, RunsOK, RetryInv
  <2>2. run[r].owned = << >> /\ run[r].undo = << >> /\ run[r].todo = << >> /\ AllKept(r) = {}
    BY <2>1 DEF Ended, RunOK, PlanTyped, GuardsTyped
  <2>3. Known(r, run[r]) = run[r].lost
    <3>1. Range(run[r].owned) = {} /\ Range(run[r].undo) = {} /\ ~Migrating(run[r])
      BY <2>2 DEF Range, Migrating
    <3>2. Held(r, run[r]) = run[r].lost \cup AllKept(r)
      BY <3>1 DEF Held, AllKept
    <3> QED BY <2>2, <3>1, <3>2 DEF Known
  <2>4. \A n \in DOMAIN containers : containers[n].owner = r => n \in run[r].lost
    BY <2>1, <2>3 DEF Accounts
  <2>5. ASSUME NEW net \in DOMAIN networks, networks[net].owner = r
        PROVE  \E n \in run[r].lost : Up(n) /\ containers[n].net = net
    <3>1. net = NetworkName(r) /\ OwnNetwork(r)
      BY <2>1, <2>5 DEF HostOK, OwnNetwork
    <3>2. PICK n \in DOMAIN containers : containers[n].net = net /\ containers[n].up
      BY <2>1, <3>1 DEF Holding, Attached
    <3>3. containers[n].owner = r
      BY <3>1, <3>2, AttachedOwn
    <3> QED BY <2>4, <3>2, <3>3 DEF Up, Exists
  <2> QED BY <2>4, <2>5
<1> QED BY <1>1, <1>2, <1>3, Invariant, PTL DEF Spec
=============================================================================
