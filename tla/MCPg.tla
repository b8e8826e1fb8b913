---------------------------------- MODULE MCPg ----------------------------------
(***************************************************************************)
(* Instances of PgProperties for TLC.                                      *)
(***************************************************************************)
EXTENDS PgProperties, TLC

MCConns == {1, 2}

Q(name, verb) == [name |-> name, verb |-> verb, oids |-> TRUE, fails |-> FALSE]
Begin == Q("begin", "begin")
Commit == Q("commit", "end")
Mine == Q("mine", "select")                       \* mocked
Typeless == [Q("typeless", "select") EXCEPT !.oids = FALSE]   \* mocked, OIDs unknown
Insert == Q("insert", "write")                    \* mocked
Inserted == Q("inserted", "returning")            \* mocked
Theirs == [Q("theirs", "select") EXCEPT !.fails = TRUE]       \* not mocked
Change == Q("change", "write")                    \* not mocked
Prepared1 == Q("p1", "prepare")                   \* an SQL PREPARE
Wrong == Q("wrong", "select")                     \* mocked, breaks a VERIFY rule

Mock(channel, returns) ==
    [channel |-> channel, returns |-> returns, verify |-> "none", values |-> {"v"}, returning |-> FALSE]
Failing == [Mock("read", "rows") EXCEPT !.verify = "fails"]
Registry == (Mine :> Mock("read", "rows") @@ Typeless :> Mock("read", "empty")
             @@ Insert :> [Mock("write", "none") EXCEPT !.verify = "passes"]
             @@ Inserted :> Mock("write", "rows") @@ Wrong :> Failing
             @@ [Wrong EXCEPT !.oids = FALSE] :> Failing)
Other == (Theirs :> Mock("read", "rows") @@ Change :> Mock("write", "none"))

ParseM(s, q) == [t |-> "Parse", stmt |-> s, q |-> q]
BindM(s, v) == [t |-> "Bind", stmt |-> s, portal |-> "", v |-> v]
DescribeS(s) == [t |-> "Describe", of |-> "S", stmt |-> s]
DescribeP(s) == [t |-> "Describe", of |-> "P", stmt |-> s, portal |-> ""]
ExecuteM(s, q) == [t |-> "Execute", of |-> "P", stmt |-> s, portal |-> "", q |-> q]
CloseS(s) == [t |-> "Close", of |-> "S", stmt |-> s]
SyncM == [t |-> "Sync"]

Simple(q) == <<[t |-> "Query", q |-> q, v |-> "v"]>>
Prepare(q) == <<ParseM(q.name, q), DescribeS(q.name), SyncM>>
Run(q, v) == <<BindM(q.name, v), ExecuteM(q.name, q), SyncM>>
Unprepare(q) == <<CloseS(q.name), SyncM>>
OneShot(q, v) == <<ParseM("", q), BindM("", v), DescribeP(""), ExecuteM("", q), SyncM>>
Both(q, v, r) == SubSeq(OneShot(q, v), 1, 4) \o OneShot(r, "v")
Flushing(q) == <<ParseM("", q), DescribeS(""), [t |-> "Flush"], BindM("", "v"), ExecuteM("", q), SyncM>>
Quit == <<[t |-> "Terminate"]>>

Budget(n) == [steps |-> n, refusals |-> 0, deaths |-> 0]
Plain == [mocks |-> <<Registry>>, scripts |-> {}, early |-> {FALSE}, budget |-> Budget(3)]

\* Drivers that prepare first, and drivers that send one batch per query.
Preparing == [Plain EXCEPT !.budget = Budget(5), !.scripts =
    {Simple(Begin), Simple(Commit), Simple(Theirs), Simple(Prepared1), Run(Prepared1, "v")}
    \cup {Prepare(q) : q \in {Mine, Typeless, Inserted, Theirs}}
    \cup {Run(q, "v") : q \in {Mine, Typeless, Inserted, Theirs}} \cup {Run(Mine, "w"), Unprepare(Mine)}]
AtOnce == [Plain EXCEPT !.early = BOOLEAN, !.budget = Budget(2), !.scripts =
    {Simple(Begin), Simple(Commit), Simple(Theirs), Quit}
    \cup {OneShot(q, "v") : q \in {Mine, Insert, Theirs, Change}}
    \cup {OneShot(Mine, "w"), Flushing(Mine), Flushing(Theirs), Both(Mine, "v", Insert)}]
Reloaded == [Plain EXCEPT !.mocks = <<Registry, Other>>, !.budget = Budget(2), !.scripts =
    {Prepare(Mine), Run(Mine, "v"), OneShot(Change, "v")}]
Faulty == [Plain EXCEPT !.budget = [steps |-> 2, refusals |-> 1, deaths |-> 1],
    !.scripts = {Prepare(Mine), Run(Mine, "v"), OneShot(Change, "v")}]
\* A VERIFY rule refuses a Bind, of a statement parsed here or upstream; and
\* drivers whose simple queries are mocked.
Refusing == [Plain EXCEPT !.budget = Budget(2), !.scripts =
    {Prepare(Wrong), Run(Wrong, "v"), OneShot(Wrong, "v"), OneShot([Wrong EXCEPT !.oids = FALSE], "v"),
     OneShot(Insert, "v"), OneShot(Theirs, "v"), Both(Wrong, "v", Insert)}]
Simply == [Plain EXCEPT !.budget = Budget(3), !.scripts =
    {Simple(q) : q \in {Begin, Commit, Mine, Insert, Wrong, Theirs}} \cup {OneShot(Mine, "v")}]
PgConfigs == {Preparing, AtOnce, Reloaded, Faulty, [Faulty EXCEPT !.budget.deaths = 0], Refusing, Simply}

=============================================================================
