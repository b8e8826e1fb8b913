----------------------------- MODULE KafkaBroker -----------------------------
(***************************************************************************)
(* The broker the Kafka interceptor pretends to be (pkg/proxy/kafka): it   *)
(* keeps no group, no offsets and no log, and answers every request of a   *)
(* consumer or producer from the seeds and mocks of the spec.              *)
(*                                                                         *)
(* A request maps the byte at which a field starts, after the client id,   *)
(* to the field: its size and, of a STRING, its text.  The code reads at   *)
(* byte offsets; what starts in the middle of a field reads as nothing.    *)
(* A response is the sequence of the names of its fields, and their        *)
(* values.                                                                 *)
(***************************************************************************)
EXTENDS Integers, Sequences, FiniteSetsExt

CONSTANTS
    Seeds,          \* topic |-> its messages: the trigger of the spec
    Expects,        \* topic |-> its EVENT mocks: Seq([with, verify, negative])
    Consumers, Producers,
    Subscribes,     \* Subscribes[c]: the topics of a consumer
    Offers,         \* Offers[c]: the assignors it offers, a sequence
    Supports,       \* Supports[c][api]: the versions it knows
    Negotiates,     \* the clients that use only versions the broker advertises
    Batches,        \* Batches[p]: Seq([topic, records, compressed, magic])
    MaxRestarts,    \* MaxRestarts[c]: how often a consumer's process may end
    None

Clients == Consumers \cup Producers
EventTopics == DOMAIN Expects

ASSUME KafkaAssumption ==
    /\ Consumers \cap Producers = {} /\ Negotiates \subseteq Clients
    /\ \A c \in Consumers : MaxRestarts[c] \in Nat
    /\ \A p \in Producers : \A i \in DOMAIN Batches[p] : Batches[p][i].records # << >>

VARIABLES
    client,     \* the Kafka client of a process of the service
    net,        \* net[c]: a request, a response or None
    hits,       \* registry: hits of each mock
    passed,     \* registry: produce requests recorded as passthroughs
    errors,     \* registry: topics of failed VERIFY clauses
    produced    \* history: the produce requests that were answered

vars == <<client, net, hits, passed, errors, produced>>

-----------------------------------------------------------------------------
(* Requests on the wire. *)

Num(size) == [size |-> size, text |-> None]
Str(text) == [size |-> 2 + Len(text), text |-> text]

\* The byte each field starts at.
Starts(fields) ==
    LET start[i \in DOMAIN fields] == IF i = 1 THEN 0 ELSE start[i - 1] + fields[i - 1].size IN start

\* The fields by the byte they start at.
Wire(fields) ==
    LET start == Starts(fields)
    IN  [at \in {start[i] : i \in DOMAIN fields} |-> fields[CHOOSE i \in DOMAIN fields : start[i] = at]]

IsString(data, at) == at \in DOMAIN data /\ data[at].text # None

Nowhere == -100

skipString(data, at) == IF IsString(data, at) THEN at + data[at].size ELSE Nowhere

ReadString(data, at) == IF IsString(data, at) THEN data[at].text ELSE ""

parseFetchTopic(data, version) ==
    ReadString(data, 12 + (IF version >= 3 THEN 4 ELSE 0) + (IF version >= 4 THEN 1 ELSE 0) + 4)

parseListOffsetsTopic(data) == ReadString(data, 8)

parseOffsetCommitTopic(data) == ReadString(data, skipString(data, 0) + 4)

parseOffsetFetchRequest(data) == ReadString(data, skipString(data, 0) + 4)

ProtocolAt(data, timeouts) ==
    LET protocol == ReadString(data, skipString(data, skipString(data, skipString(data, 0) + timeouts)) + 4)
    IN  IF protocol = "" THEN "roundrobin" ELSE protocol

\* mutant: the rebalance timeout of v1 is not skipped
parseJoinGroupV0(data, version) == ProtocolAt(data, 4)

parseJoinGroupProtocol(data, version) == ProtocolAt(data, IF version >= 1 THEN 8 ELSE 4)

\* The topic of a Produce request: of the first, whatever follows.
produceTopic(data, version) ==
    ReadString(data, (IF version >= 3 THEN skipString(data, 0) ELSE 0) + 10)

\* What is read of a record set: the first record, and nothing of a compressed
\* one or of one in an unknown format.
extractProduceData(batch) ==
    IF batch.compressed \/ batch.magic \notin {0, 1, 2} THEN "" ELSE Head(batch.records)

(* What a client sends, by the protocol. *)

\* A client uses the latest version it knows; one that negotiates leaves out
\* what the answer to its ApiVersions does not offer.
Version(c, api) ==
    Max(IF c \in Negotiates /\ client[c].apis # None
        THEN Supports[c][api] \cap client[c].apis[api] ELSE Supports[c][api])

\* The APIs it needs once it is connected.
Needs(c) ==
    IF c \in Producers THEN {"Metadata", "Produce"}
    ELSE {"Metadata", "FindCoordinator", "JoinGroup", "SyncGroup", "OffsetFetch", "ListOffsets",
          "Fetch", "OffsetCommit", "Heartbeat", "LeaveGroup"}

Group == "group"
KafkaRequest(c, api, topic) ==
    LET v == Version(c, api) IN
    CASE api = "Fetch" ->
            <<Num(4), Num(4), Num(4)>> \o (IF v >= 3 THEN <<Num(4)>> ELSE << >>)
                \o (IF v >= 4 THEN <<Num(1)>> ELSE << >>) \o <<Num(4), Str(topic)>>
      [] api = "ListOffsets" -> <<Num(4), Num(4), Str(topic)>>
      [] api = "OffsetCommit" ->
            <<Str(Group)>> \o (IF v >= 1 THEN <<Num(4), Str(client[c].member)>> ELSE << >>) \o <<Num(4), Str(topic)>>
      [] api = "OffsetFetch" -> <<Str(Group), Num(4), Str(topic)>>
      [] api = "JoinGroup" ->
            <<Str(Group), Num(4)>> \o (IF v >= 1 THEN <<Num(4)>> ELSE << >>)
                \o <<Str(""), Str("consumer"), Num(4)>> \o [i \in DOMAIN Offers[c] |-> Str(Offers[c][i])]
      [] api = "Produce" ->
            (IF v >= 3 THEN <<Str("")>> ELSE << >>) \o <<Num(10), Str(topic)>>
      [] OTHER -> << >>

(* The fields of a response, by the protocol. *)
KafkaLayout(api, v) ==
    CASE api = "ApiVersions" -> <<"error", "apis">> \o (IF v >= 1 THEN <<"throttle">> ELSE << >>)
      [] api = "Metadata" ->
            IF v = 0 THEN <<"brokers", "topics">>
            ELSE IF v = 1 THEN <<"brokers", "rack", "controller", "topics", "internal">>
            ELSE (IF v = 2 THEN << >> ELSE <<"throttle">>)
                    \o <<"brokers", "rack", "cluster", "controller", "topics", "internal">>
      [] api = "FindCoordinator" ->
            IF v = 0 THEN <<"error", "node", "host", "port">>
            ELSE <<"throttle", "error", "message", "node", "host", "port">>
      [] api = "JoinGroup" -> <<"error", "generation", "protocol", "leader", "member", "members">>
      [] api = "SyncGroup" -> (IF v >= 1 THEN <<"throttle">> ELSE << >>) \o <<"error", "assignment">>
      [] api \in {"Heartbeat", "LeaveGroup"} -> (IF v >= 1 THEN <<"throttle">> ELSE << >>) \o <<"error">>
      [] api = "OffsetFetch" -> <<"topic", "partition", "offset", "metadata", "error">>
      [] api = "OffsetCommit" -> <<"topic", "partition", "error">>
      [] api = "ListOffsets" ->
            IF v = 0 THEN <<"topic", "partition", "error", "offsets">>
            ELSE <<"topic", "partition", "error", "timestamp", "offset">>
      [] api = "Fetch" ->
            (IF v >= 1 THEN <<"throttle">> ELSE << >>) \o <<"topic", "partition", "error", "highwater">>
                \o (IF v >= 4 THEN <<"stable", "aborted">> ELSE << >>) \o <<"records">>
      [] api = "Produce" ->
            <<"topic", "partition", "error", "offset">> \o (IF v >= 2 THEN <<"appended">> ELSE << >>)
                \o (IF v >= 1 THEN <<"throttle">> ELSE << >>)

-----------------------------------------------------------------------------
(***************************************************************************)
(* Responses.                                                              *)
(***************************************************************************)
Response(layout, body) == [kind |-> "response", layout |-> layout, body |-> body]

SeededFirst(topic) == IF topic # "" THEN {topic} ELSE IF Seeds = << >> THEN {"todo-events"} ELSE DOMAIN Seeds

Seeded(topic) == IF topic \in DOMAIN Seeds THEN Seeds[topic] ELSE << >>

\* Every record of the topic from offset 0, wherever the client wants to read.
sendFetchResponse(topic) ==
    Response(<<"throttle", "topic", "partition", "error", "highwater", "records">>,
             [topic |-> topic, base |-> 0, records |-> Seeded(topic)])

\* mutant: the end of the topic, not its start
sendListOffsetsLatest(topic) ==
    Response(<<"topic", "partition", "error", "timestamp", "offset">>, [topic |-> topic, offset |-> Len(Seeded(topic))])

sendListOffsetsResponse(topic) ==
    Response(<<"topic", "partition", "error", "timestamp", "offset">>, [topic |-> topic, offset |-> 0])

sendOffsetCommitResponse(topic) == Response(<<"topic", "partition", "error">>, [topic |-> topic])

sendOffsetFetchResponse(topic) ==
    Response(<<"topic", "partition", "offset", "metadata", "error">>, [topic |-> topic, offset |-> -1])

sendFindCoordinatorResponse == Response(<<"error", "node", "host", "port">>, [node |-> 1])

sendJoinGroupResponse(protocol) ==
    Response(<<"error", "generation", "protocol", "leader", "member", "members">>,
             [protocol |-> protocol, leader |-> "linespec-leader-0", member |-> "linespec-consumer-1"])

\* Partition 0 of every seeded topic, whoever asks.
buildPartitionAssignment == DOMAIN Seeds

sendSyncGroupResponse == Response(<<"error", "assignment">>, [assignment |-> buildPartitionAssignment])

sendHeartbeatResponse == Response(<<"error">>, [ok |-> TRUE])
sendLeaveGroupResponse == Response(<<"error">>, [ok |-> TRUE])

Advertised ==
    [Produce |-> 0..3, Fetch |-> {1}, ListOffsets |-> {0}, Metadata |-> 0..2, OffsetCommit |-> 0..1,
     OffsetFetch |-> 0..1, FindCoordinator |-> 0..1, JoinGroup |-> 0..1, Heartbeat |-> 0..1,
     LeaveGroup |-> 0..1, SyncGroup |-> 0..1, ApiVersions |-> 0..1]

sendApiVersionsResponse == Response(<<"error", "apis">>, [apis |-> Advertised])

getKnownTopics ==
    LET seen == DOMAIN Seeds \cup EventTopics IN IF seen = {} THEN {"todo-events"} ELSE seen

sendMetadataResponse(v) ==
    Response((IF v >= 3 THEN <<"throttle">> ELSE << >>) \o <<"brokers">> \o (IF v >= 1 THEN <<"rack">> ELSE << >>)
                \o (IF v >= 2 THEN <<"cluster">> ELSE << >>) \o (IF v >= 1 THEN <<"controller">> ELSE << >>)
                \o <<"topics">> \o (IF v >= 1 THEN <<"internal">> ELSE << >>),
             [topics |-> getKnownTopics])

sendProduceResponse(topic, v) ==
    Response(<<"topic", "partition", "error", "offset">> \o (IF v >= 2 THEN <<"appended">> ELSE << >>)
                \o (IF v >= 1 THEN <<"throttle">> ELSE << >>),
             [topic |-> topic])

sendGenericResponse == Response(<< >>, [ok |-> TRUE])

\* Every answer but that to a Produce; the code's map may yield any seeded topic
\* when the request names none.
Answers(req) ==
    CASE req.api = "Fetch" ->
            LET topic == parseFetchTopic(req.data, req.version) IN
            {sendFetchResponse(t) : t \in IF topic # "" \/ Seeds = << >> THEN {topic} ELSE DOMAIN Seeds}
      [] req.api = "ListOffsets" -> {sendListOffsetsResponse(parseListOffsetsTopic(req.data))}
      [] req.api = "Metadata" -> {sendMetadataResponse(req.version)}
      [] req.api = "OffsetCommit" ->
            {sendOffsetCommitResponse(t) : t \in SeededFirst(parseOffsetCommitTopic(req.data))}
      [] req.api = "OffsetFetch" ->
            {sendOffsetFetchResponse(t) : t \in SeededFirst(parseOffsetFetchRequest(req.data))}
      [] req.api = "FindCoordinator" -> {sendFindCoordinatorResponse}
      [] req.api = "JoinGroup" -> {sendJoinGroupResponse(parseJoinGroupProtocol(req.data, req.version))}
      [] req.api = "Heartbeat" -> {sendHeartbeatResponse}
      [] req.api = "LeaveGroup" -> {sendLeaveGroupResponse}
      [] req.api = "SyncGroup" -> {sendSyncGroupResponse}
      [] req.api = "ApiVersions" -> {sendApiVersionsResponse}
      [] OTHER -> {sendGenericResponse}

IsRequest(m) == m # None /\ m.kind = "request"

handleConn(c) ==
    /\ IsRequest(net[c]) /\ net[c].api # "Produce"
    /\ \E answer \in Answers(net[c]) : net' = [net EXCEPT ![c] = answer]
    /\ UNCHANGED <<client, hits, passed, errors, produced>>

-----------------------------------------------------------------------------
(* Produce. *)

Mocks(topic) == IF topic \in EventTopics THEN Expects[topic] ELSE << >>

Hit(h, topic, set) == [h EXCEPT ![topic] = [i \in DOMAIN @ |-> IF i \in set THEN @[i] + 1 ELSE @[i]]]

Negatives(topic) == {i \in DOMAIN Mocks(topic) : Mocks(topic)[i].negative}

\* The first mock that was not hit yet and whose body the message has.
FindKafkaMockWithBody(h, topic, value) ==
    LET fits == {i \in DOMAIN Mocks(topic) \ Negatives(topic) :
                    h[topic][i] = 0 /\ Mocks(topic)[i].with \in {"", value}}
    IN  {i \in fits : \A j \in fits : i <= j}

\* A VERIFY rule on a message nothing was read of is judged on empty fields.
Verified(mock, value) == mock.verify \in {"", value}

\* mutant: a message no mock takes is not recorded
ProduceUnrecorded(c) ==
    /\ IsRequest(net[c]) /\ net[c].api = "Produce"
    /\ LET req == net[c]
           topic == produceTopic(req.data, req.version)
           value == extractProduceData(req.batch)
           checked == IF topic \in EventTopics THEN Hit(hits, topic, Negatives(topic)) ELSE hits
           found == FindKafkaMockWithBody(checked, topic, value) IN
       /\ hits' = IF found = {} THEN checked ELSE Hit(checked, topic, found)
       /\ UNCHANGED <<passed, errors>>
       /\ \E t \in SeededFirst(topic) : net' = [net EXCEPT ![c] = sendProduceResponse(t, req.version)]
       /\ produced' = Append(produced, [topic |-> req.topic, batch |-> req.batch])
    /\ UNCHANGED client

\* A Produce is judged on its first record; the answer is success whatever the
\* registry says of it.
Produce(c) ==
    /\ IsRequest(net[c]) /\ net[c].api = "Produce"
    /\ LET req == net[c]
           topic == produceTopic(req.data, req.version)
           value == extractProduceData(req.batch)
           checked == IF topic \in EventTopics THEN Hit(hits, topic, Negatives(topic)) ELSE hits
           found == FindKafkaMockWithBody(checked, topic, value) IN
       /\ IF topic = ""
          THEN UNCHANGED <<hits, passed, errors>>
          ELSE /\ hits' = IF found = {} THEN checked ELSE Hit(checked, topic, found)
               /\ passed' = IF found = {} THEN Append(passed, topic) ELSE passed
               /\ errors' = IF \E i \in found : ~Verified(Mocks(topic)[i], value) THEN Append(errors, topic) ELSE errors
       /\ \E t \in SeededFirst(topic) : net' = [net EXCEPT ![c] = sendProduceResponse(t, req.version)]
       /\ produced' = Append(produced, [topic |-> req.topic, batch |-> req.batch])
    /\ UNCHANGED client

-----------------------------------------------------------------------------
(***************************************************************************)
(* Clients.  A consumer joins its group, asks where to start and fetches;  *)
(* a producer sends its batches once the metadata list the topic.          *)
(***************************************************************************)
NewClient(restarts) ==
    [next |-> "ApiVersions", apis |-> None, topic |-> None, assigned |-> {}, position |-> << >>, handled |-> << >>,
     member |-> "", sent |-> 0, restarts |-> restarts]

Init ==
    /\ client = [c \in Clients |-> NewClient(0)]
    /\ net = [c \in Clients |-> None]
    /\ hits = [t \in EventTopics |-> [i \in DOMAIN Expects[t] |-> 0]]
    /\ passed = << >> /\ errors = << >> /\ produced = << >>

Request(c, api, topic, batch) ==
    [kind |-> "request", api |-> api, version |-> Version(c, api), topic |-> topic, batch |-> batch,
     data |-> Wire(KafkaRequest(c, api, topic))]

NextBatch(p) == Batches[p][client[p].sent + 1]

\* The topics an API is asked about; "" for those that name none.
Asked(c) ==
    CASE client[c].next \in {"OffsetFetch", "ListOffsets"} -> client[c].assigned \ DOMAIN client[c].position
      [] client[c].next \in {"Fetch", "OffsetCommit"} -> client[c].assigned
      [] client[c].next = "Produce" -> {NextBatch(c).topic}
      [] OTHER -> {""}

Send(c) ==
    /\ net[c] = None /\ client[c].next \notin {"idle", "stuck", "left"}
    /\ \E topic \in IF client[c].topic = None THEN Asked(c) ELSE {client[c].topic} :
          /\ net' = [net EXCEPT ![c] = Request(c, client[c].next, topic,
                        IF client[c].next = "Produce" THEN NextBatch(c) ELSE None)]
          /\ client' = [client EXCEPT ![c].topic = topic]
    /\ UNCHANGED <<hits, passed, errors, produced>>

\* Records before the position are dropped by the client.
Handles(c, topic, body) ==
    LET dropped == client[c].position[topic] - body.base
        fresh == SubSeq(body.records, dropped + 1, Len(body.records)) IN
    [client[c] EXCEPT !.handled = @ \o [i \in DOMAIN fresh |-> <<topic, fresh[i]>>],
                      !.position[topic] = @ + Len(fresh)]

Started(state) == IF state.assigned \subseteq DOMAIN state.position THEN "Fetch" ELSE "OffsetFetch"

WithPosition(state, topic, offset) ==
    [state EXCEPT !.position = [t \in DOMAIN @ \cup {topic} |-> IF t = topic THEN offset ELSE @[t]]]

\* What the client does next; it gives up on a response it cannot read or that is
\* not about what it asked, and on a broker that lacks an API it needs.
After(c, api, body) ==
    LET state == client[c]
        topic == state.topic
        stuck == [state EXCEPT !.next = "stuck"] IN
    CASE api = "ApiVersions" ->
            IF c \in Negotiates /\ \E need \in Needs(c) : Supports[c][need] \cap body.apis[need] = {}
            THEN stuck ELSE [state EXCEPT !.next = "Metadata", !.apis = body.apis]
      [] api = "Metadata" ->
            IF c \in Producers
            THEN [state EXCEPT !.next = IF NextBatch(c).topic \in body.topics THEN "Produce" ELSE "Metadata"]
            ELSE [state EXCEPT !.next = "FindCoordinator"]
      [] api = "FindCoordinator" -> [state EXCEPT !.next = "JoinGroup"]
      [] api = "JoinGroup" ->
            IF body.protocol \in {Offers[c][i] : i \in DOMAIN Offers[c]} /\ body.leader # body.member
            THEN [state EXCEPT !.next = "SyncGroup", !.member = body.member] ELSE stuck
      [] api = "SyncGroup" ->
            LET mine == body.assignment \cap Subscribes[c] IN
            [state EXCEPT !.assigned = mine, !.next = IF mine = {} THEN "idle" ELSE "OffsetFetch"]
      [] api = "OffsetFetch" ->
            IF body.topic # topic THEN stuck
            ELSE IF body.offset = -1 THEN [state EXCEPT !.next = "ListOffsets"]
            ELSE LET at == WithPosition(state, topic, body.offset) IN [at EXCEPT !.next = Started(at)]
      [] api = "ListOffsets" ->
            IF body.topic # topic THEN stuck
            ELSE LET at == WithPosition(state, topic, body.offset) IN [at EXCEPT !.next = Started(at)]
      [] api = "Fetch" ->
            IF body.topic # topic THEN stuck ELSE [Handles(c, topic, body) EXCEPT !.next = "OffsetCommit"]
      [] api = "OffsetCommit" -> IF body.topic # topic THEN stuck ELSE [state EXCEPT !.next = "Heartbeat"]
      [] api = "Heartbeat" -> [state EXCEPT !.next = "Fetch"]
      [] api = "LeaveGroup" -> [state EXCEPT !.next = "left"]
      [] api = "Produce" ->
            IF body.topic # topic THEN stuck
            ELSE [state EXCEPT !.sent = @ + 1,
                               !.next = IF state.sent + 1 = Len(Batches[c]) THEN "idle" ELSE "Metadata"]

Receive(c) ==
    /\ net[c] # None /\ net[c].kind = "response"
    /\ LET api == client[c].next
           state == IF net[c].layout = KafkaLayout(api, Version(c, api))
                    THEN After(c, api, net[c].body) ELSE [client[c] EXCEPT !.next = "stuck"]
           keep == api = "OffsetFetch" /\ state.next = "ListOffsets" IN
       client' = [client EXCEPT ![c] = [state EXCEPT !.topic = IF keep THEN @ ELSE None]]
    /\ net' = [net EXCEPT ![c] = None]
    /\ UNCHANGED <<hits, passed, errors, produced>>

\* A consumer of a service that is shut down leaves its group.
Shutdown(c) ==
    /\ c \in Consumers /\ net[c] = None /\ client[c].next \in {"Fetch", "Heartbeat"}
    /\ client[c].restarts < MaxRestarts[c]
    /\ client' = [client EXCEPT ![c].next = "LeaveGroup", ![c].topic = None]
    /\ UNCHANGED <<net, hits, passed, errors, produced>>

\* A process of the service ends, at any time, and is started again.
Restart(c) ==
    /\ c \in Consumers /\ client[c].restarts < MaxRestarts[c]
    /\ client' = [client EXCEPT ![c] = NewClient(client[c].restarts + 1)]
    /\ net' = [net EXCEPT ![c] = None]
    /\ UNCHANGED <<hits, passed, errors, produced>>

Turn(c) == Send(c) \/ handleConn(c) \/ Produce(c) \/ Receive(c)

Next == \E c \in Clients : Turn(c) \/ Shutdown(c) \/ Restart(c)

\* A consumer keeps running, and a goroutine serves its connection.
Fairness == \A c \in Consumers : WF_vars(Turn(c))

Spec == Init /\ [][Next]_vars /\ Fairness

=============================================================================
