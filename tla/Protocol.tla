------------------------------ MODULE Protocol ------------------------------
(***************************************************************************)
(* The messages of msg.proto between IMchat and ChatServer, which were     *)
(* generated apart by two versions of protoc, and the way of a Snowflake   *)
(* id through them: from the sender's nextId to the server, back to the    *)
(* sender, on to the receiver, and into the receiver's sync key.           *)
(***************************************************************************)
EXTENDS Snowflake, Wire

S == INSTANCE ServerMessages
C == INSTANCE ClientMessages

\* The ids fit into an int64 (in the code until 69 years after kEpoch).
ASSUME IdsAssumption == 2 * (Compose(MaxClock, SeqSize - 1) + 1) < Word64

\* The texts the properties put into messages are UTF-8.
ASSUME SampleAssumption == BadText \notin {"text", "other"}

ToServer(type, values) == S!Read(S!Codec[type], C!Write(C!Codec[type], values))
ToClient(type, values) == C!Read(C!Codec[type], S!Write(S!Codec[type], values))

----------------------------------------------------------------------------
Sender == 1
Receiver == 2

\* sendOneChat: the bytes the server forwards, caches and may read.
ChatBytes(id) ==
    C!Write(C!Codec["OneChatRequest"],
            [from_id |-> Sender, to_id |-> Receiver, msg |-> "text", msg_id |-> id])

\* oneChat reads them, to acknowledge the message.
ChatAtServer(id) == S!Read(S!Codec["OneChatRequest"], ChatBytes(id))
SendAck(id) ==
    ToClient("MsgSendAck",
             [msg_id |-> ChatAtServer(id).msg_id, success |-> TRUE, err_msg |-> ""])

\* The receiver's client reads the same bytes and acknowledges them in its turn.
ChatAtReceiver(id) == C!Read(C!Codec["OneChatRequest"], ChatBytes(id))
RecvAck(id) ==
    LET m == ChatAtReceiver(id)
    IN ToServer("MsgRecvAck", [msg_id |-> m.msg_id, from_id |-> m.from_id, to_id |-> m.to_id])

\* syncMessages puts what it kept of the message into its answer; the client's
\* next SYNC_REQ carries the key of that answer.
SyncAnswer(id) ==
    ToClient("SyncResp", [success |-> TRUE, messages |-> <<ChatAtServer(id)>>,
                          new_sync_key |-> ChatAtServer(id).msg_id])
NextSync(id) ==
    ToServer("SyncReq", [uid |-> Receiver, last_sync_key |-> SyncAnswer(id).new_sync_key])

\* ChatWidget reads the time of a message from its id.
TimeShown(id) == id \div (WorkerSize * SeqSize)

\* Every id a client gives a message comes through all of its journeys: the
\* sender's pending message, the receiver's deduplication window, the server's
\* pending acknowledgement and the sync key are compared by it; and the time the
\* receiver shows is the millisecond the sender numbered the message in.
IdTravels ==
    \A c \in Clients : LET id == lastId[c] IN id # -1 =>
        /\ SendAck(id).msg_id = id /\ RecvAck(id).msg_id = id
        /\ SyncAnswer(id).messages = <<ChatAtReceiver(id)>>
        /\ NextSync(id).last_sync_key = id
        /\ TimeShown(ChatAtReceiver(id).msg_id) = lastTimestamp[c]

----------------------------------------------------------------------------
\* Values for a message: field n takes the (k+n)-th value of its type, so two
\* fields differ for some k and each field takes every value for some k. The run
\* varies k with the id and the clock.
Pick(values, n) == values[1 + (n % Len(values))]

Sample(type, n, id) ==
    IF type = "int32" THEN Pick(<<0, 1, 2, -1>>, n)
    ELSE IF type = "int64" THEN Pick(<<0, id, -1, id + 1>>, n)
    ELSE IF type = "bool" THEN n % 2 = 0
    ELSE Pick(<<"", "text", "other", BadText>>, n)

FilledFlat(fields, k, id) ==
    [name \in Names(fields) |-> LET f == FieldNamed(fields, name) IN Sample(f.type, k + f.num, id)]

Filled(fields, k, id) ==
    LET Value(f, n) ==
            IF IsNested(f.type)
            THEN [j \in 1..(n % (IF f.type = "message" THEN 2 ELSE 3)) |-> FilledFlat(f.of, k + j, id)]
            ELSE Sample(f.type, n, id)
    IN [name \in Names(fields) |->
           LET f == FieldNamed(fields, name) IN Value(f, k + f.num)]

LegibleFlat(fields, values) ==
    \A i \in DOMAIN fields : fields[i].type = "string" => values[fields[i].name] # BadText

Legible(fields, values) ==
    /\ LegibleFlat(fields, values)
    /\ \A i \in DOMAIN fields : LET f == fields[i] IN
          IsNested(f.type) => \A j \in DOMAIN values[f.name] : LegibleFlat(f.of, values[f.name][j])

\* Where the run looks: in the millisecond of the newest id.
JustNumbered(c) == lastId[c] # -1 /\ clock[c] = lastTimestamp[c]

\* What one side's generated code writes, the other side's reads as it was
\* meant, for every message of msg.proto and in both directions: numbers that
\* are negative, fields left at their default, nested messages that are absent,
\* lists. A message with a text that is not UTF-8 is written all the same, and
\* then the whole of it is refused by the reader.
SidesAgree ==
    \A c \in {d \in Clients : JustNumbered(d)}, type \in DOMAIN S!Codec :
        LET fields == S!Codec[type].fields
            values == Filled(fields, lastId[c] + clock[c], lastId[c])
            expected == IF Legible(fields, values) THEN values ELSE Failed
        IN ToServer(type, values) = expected /\ ToClient(type, values) = expected
=============================================================================
