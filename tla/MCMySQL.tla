--------------------------------- MODULE MCMySQL ---------------------------------
(***************************************************************************)
(* A service and two specs for model checking MySQLConnection: a read that *)
(* the first spec expects twice, the second time with a VERIFY that fails, *)
(* a write expected only by the second spec, SET NAMES, and SHOW FIELDS of *)
(* a table in the schema cache and of one that is not.                     *)
(***************************************************************************)
EXTENDS MySQLProperties, TLC

Plain(name) == [name |-> name, class |-> "plain", cached |-> FALSE]
Read == Plain("read")
Write == Plain("write")
SetNames == [name |-> "set names", class |-> "session", cached |-> FALSE]
Fields(cached) == [name |-> "show fields", class |-> "fields", cached |-> cached]

TwoSpecs == <<Read :> <<"rows", "error">>, Write :> <<"ok">> @@ Read :> <<"rows">> >>

Config(mocks, queries, keep, isTransp, commands, deaths) ==
    [mocks |-> mocks, queries |-> queries, keep |-> keep, transparent |-> isTransp,
     budget |-> [commands |-> commands, deaths |-> deaths]]

\* A driver that closes each statement before the next; a proxy that starts
\* transparent; a server that dies, or cannot be reached.
MCConfigs ==
    {Config(TwoSpecs, {Read, Write}, 1, FALSE, 7, 0),
     Config(TwoSpecs, {Read, Write, SetNames}, 1, TRUE, 5, 0),
     Config(<<Read :> <<"rows">> >>, {Read, Write, SetNames, Fields(TRUE), Fields(FALSE)}, 1, FALSE, 4, 1)}

\* A driver that keeps two statements open.
TwoOpen == {Config(<<Read :> <<"rows">> >>, {Read, Write}, 2, FALSE, 3, 0)}
=============================================================================
