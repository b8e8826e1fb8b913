--------------------------- MODULE KafkaProperties ---------------------------
(* What a service can rely on when the interceptor stands in for its broker. *)
EXTENDS KafkaBroker

(***************************************************************************)
(* What the theorems suppose: mocks, offers and batches are lists, and a   *)
(* topic and an assignor have a name.                                      *)
(***************************************************************************)
IsList(s) == Len(s) \in Nat /\ DOMAIN s = 1..Len(s)

ASSUME ListAssumption ==
    /\ \A t \in EventTopics : IsList(Expects[t])
    /\ \A p \in Producers : IsList(Batches[p]) /\ Len(Batches[p]) # 0
    /\ \A c \in Consumers : IsList(Offers[c]) /\ Len(Offers[c]) # 0

BatchTopics == UNION {{Batches[p][i].topic : i \in DOMAIN Batches[p]} : p \in Producers}
Offered == UNION {{Offers[c][i] : i \in DOMAIN Offers[c]} : c \in Consumers}
Names == DOMAIN Seeds \cup BatchTopics \cup Offered

ASSUME NameAssumption ==
    /\ "" \notin Names
    /\ \A text \in Names \cup {"", Group, "consumer"} : Len(text) \in Nat /\ text # None
    /\ Advertised # None

(***************************************************************************)
(* The versions whose answer the interceptor lays out as that version      *)
(* does: not all it advertises.  A client is served that knows, of every   *)
(* API it needs, such a version as the one it will use.                    *)
(***************************************************************************)
Understood ==
    [ApiVersions |-> {0}, Metadata |-> 0..2, FindCoordinator |-> {0}, JoinGroup |-> 0..1, SyncGroup |-> {0},
     Heartbeat |-> {0}, LeaveGroup |-> {0}, OffsetFetch |-> 0..1, OffsetCommit |-> {0}, ListOffsets |-> {1},
     Fetch |-> 1..3, Produce |-> 0..3]

Chosen(c, api) ==
    IF c \in Negotiates /\ api # "ApiVersions" THEN Supports[c][api] \cap Advertised[api] ELSE Supports[c][api]

Served(c) == \A api \in Needs(c) \cup {"ApiVersions"} : Chosen(c, api) # {} /\ Max(Chosen(c, api)) \in Understood[api]

-----------------------------------------------------------------------------
Positives(topic) == DOMAIN Mocks(topic) \ Negatives(topic)

\* The mocks that a request has spent.
Spent == UNION {{<<t, i>> : i \in {j \in Positives(t) : hits[t][j] = 1}} : t \in EventTopics}

TimesProduced(topic) == Cardinality({i \in DOMAIN produced : produced[i].topic = topic})

\* A client that is served gets every answer in the layout of its version, about
\* the topic and the assignor it named, whoever else is connected: it never has
\* to give up (the send and parse functions).  A producer that negotiates can be
\* served, a consumer that negotiates cannot (NegotiatingConsumersUnserved), although
\* "they must complete the full handshake expected by real clients" (prov-2026-001.yml:24).
NobodyStuck == \A c \in Clients : Served(c) => client[c].next # "stuck"

\* Every Produce request leaves one trace in the registry, however the producers
\* interleave: the hit of a mock, each mock once, or a passthrough; and it hits
\* every EXPECT_NOT of its topic (handleConn, case 0).
EveryProduceAccounted ==
    /\ \A t \in EventTopics :
          /\ \A i \in Positives(t) : hits[t][i] <= 1
          /\ \A i \in Negatives(t) : hits[t][i] = TimesProduced(t)
    /\ Len(produced) = Len(passed) + Cardinality(Spent)

HandledOf(c, topic) == SelectSeq(client[c].handled, LAMBDA h : h[1] = topic)

\* "The proxy seeds a message into the topic so the service picks it up naturally"
\* (LINESPEC.md:242): a consumer that is served and stays handles every seeded
\* message of the topics it subscribes to, once and in order, although the broker
\* keeps neither a group nor an offset, and whoever else is connected.
SeedsHandled ==
    \A c \in {d \in Consumers : Served(d)} :
        []<>(\/ client[c].next = "left"
             \/ \A t \in Subscribes[c] \cap DOMAIN Seeds :
                   HandledOf(c, t) = [i \in DOMAIN Seeds[t] |-> <<t, Seeds[t][i]>>])

=============================================================================
