------------------------------- MODULE MCKafka -------------------------------
(* Consumers and producers; see the configurations. *)
EXTENDS KafkaProperties, TLC

CONSTANTS c1, c2, p1, p2

MCSeeds == "jobs" :> <<"a", "b">>

Event(with, verify, negative) == [with |-> with, verify |-> verify, negative |-> negative]

\* "done" expects x and then anything that passes the VERIFY, and counts both
\* against an EXPECT_NOT; the EXPECT_NOT of "lost" is never broken.
MCExpects ==
    "done" :> <<Event("x", "", FALSE), Event("", "y", FALSE), Event("", "", TRUE)>>
        @@ "lost" :> <<Event("", "", TRUE)>>

MCConsumers == {c1, c2}
MCProducers == {p1, p2}
MCSubscribes == c1 :> {"jobs", "other"} @@ c2 :> {"jobs"}
MCOffers == c1 :> <<"range", "sticky">> @@ c2 :> <<"range">>

\* The versions of clients of different age.  c1 and p2 assume those of a broker of
\* their time; the others negotiate.  c2 knows the one ListOffsets on offer, but also a
\* FindCoordinator that is on offer and laid out as an older one.
First ==
    [api \in {"ApiVersions", "Metadata", "FindCoordinator", "JoinGroup", "SyncGroup", "OffsetFetch",
              "OffsetCommit", "Heartbeat", "LeaveGroup", "Produce"} |-> {0}]
        @@ "Fetch" :> {1} @@ "ListOffsets" :> {1}

MCSupports ==
    c1 :> [First EXCEPT !["Fetch"] = {3}, !["Metadata"] = {1}, !["OffsetFetch"] = {1}, !["JoinGroup"] = {1}]
        @@ c2 :> [First EXCEPT !["Metadata"] = 0..5, !["ListOffsets"] = 0..2, !["FindCoordinator"] = 0..1]
        @@ p1 :> [First EXCEPT !["Produce"] = 0..7, !["Metadata"] = 0..5]
        @@ p2 :> [First EXCEPT !["Produce"] = {1}]

MCNegotiates == Clients \ {c1, p2}
MCRestarts == [c \in {c1, c2} |-> IF c = c1 THEN 1 ELSE 0]

ASSUME MCServed == {c \in Clients : Served(c)} = Clients \ {c2}

Batch(topic, record, compressed) ==
    [topic |-> topic, records |-> <<record>>, compressed |-> compressed, magic |-> 2]

MCBatches ==
    p1 :> <<Batch("done", "x", FALSE), Batch("done", "z", FALSE)>>
        @@ p2 :> <<Batch("done", "x", TRUE)>>

=============================================================================
