--------------------------- MODULE ClientMessages ---------------------------
(***************************************************************************)
(* The code a later protoc generated for IMchat (msg.pb.cc, msg.pb.h): for *)
(* each message the entries of its parse table _table_, which its Clear,   *)
(* _InternalSerialize, ByteSizeLong and MergeImpl repeat, each with the    *)
(* number of its has-bit; and the has-bit each accessor sets. An object is *)
(* its values and its has-bits; what is written must have its bit set.     *)
(***************************************************************************)
EXTENDS Wire

\* An entry of a table: the has-bit is the generated code's own number.
Field(name, num, bit, type) == [name |-> name, num |-> num, bit |-> bit, type |-> type]
String(name, num, bit) == Field(name, num, bit, "string")
Int32(name, num, bit) == Field(name, num, bit, "int32")
Int64(name, num, bit) == Field(name, num, bit, "int64")
Bool(name, num, bit) == Field(name, num, bit, "bool")
Nested(name, num, bit, type, of, bits) ==
    [name |-> name, num |-> num, bit |-> bit, type |-> type, of |-> of, bits |-> bits]
Message(name, num, bit, of, bits) == Nested(name, num, bit, "message", of, bits)
Repeated(name, num, bit, of, bits) == Nested(name, num, bit, "repeated", of, bits)

LoginRequest == <<String("username", 1, 0), String("password", 2, 1)>>
LoginRequestBits == [username |-> 0, password |-> 1]

FriendInfo == <<Int32("id", 1, 2), String("name", 2, 0), String("state", 3, 1)>>
FriendInfoBits == [id |-> 2, name |-> 0, state |-> 1]

FriendRequestNotify ==
    <<Int32("apply_id", 1, 1), Int32("from_id", 2, 2), String("from_name", 3, 0)>>
FriendRequestNotifyBits == [apply_id |-> 1, from_id |-> 2, from_name |-> 0]

LoginResponse ==
    <<Bool("success", 1, 3), String("msg", 2, 2), Int32("uid", 3, 4),
      Repeated("friends", 4, 0, FriendInfo, FriendInfoBits),
      Repeated("pending_applies", 5, 1, FriendRequestNotify, FriendRequestNotifyBits)>>
LoginResponseBits ==
    [success |-> 3, msg |-> 2, uid |-> 4, friends |-> 0, pending_applies |-> 1]

RegRequest == <<String("username", 1, 0), String("password", 2, 1)>>
RegRequestBits == [username |-> 0, password |-> 1]

RegResponse == <<Bool("success", 1, 1), Int32("uid", 2, 2), String("msg", 3, 0)>>
RegResponseBits == [success |-> 1, uid |-> 2, msg |-> 0]

OneChatRequest ==
    <<Int32("from_id", 1, 1), Int32("to_id", 2, 2), String("msg", 3, 0),
      Int64("msg_id", 4, 3)>>
OneChatRequestBits == [from_id |-> 1, to_id |-> 2, msg |-> 0, msg_id |-> 3]

MsgSendAck == <<Int64("msg_id", 1, 1), Bool("success", 2, 2), String("err_msg", 3, 0)>>
MsgSendAckBits == [msg_id |-> 1, success |-> 2, err_msg |-> 0]

MsgRecvAck == <<Int64("msg_id", 1, 0), Int32("from_id", 2, 1), Int32("to_id", 3, 2)>>
MsgRecvAckBits == [msg_id |-> 0, from_id |-> 1, to_id |-> 2]

AddFriendReq == <<Int32("from_id", 1, 0), Int32("to_id", 2, 1)>>
AddFriendReqBits == [from_id |-> 0, to_id |-> 1]

AddFriendResp == <<Bool("success", 1, 1), String("msg", 2, 0)>>
AddFriendRespBits == [success |-> 1, msg |-> 0]

ProcessFriendReq ==
    <<Int32("apply_id", 1, 0), Int32("from_id", 2, 1), Int32("to_id", 3, 2),
      Bool("accept", 4, 3)>>
ProcessFriendReqBits == [apply_id |-> 0, from_id |-> 1, to_id |-> 2, accept |-> 3]

ProcessFriendResp ==
    <<Bool("success", 1, 2), String("msg", 2, 0), Int32("apply_id", 3, 4),
      Bool("accept", 4, 3), Message("friend_info", 5, 1, FriendInfo, FriendInfoBits)>>
ProcessFriendRespBits ==
    [success |-> 2, msg |-> 0, apply_id |-> 4, accept |-> 3, friend_info |-> 1]

UserStatusNotify == <<Int32("uid", 1, 1), String("state", 2, 0)>>
UserStatusNotifyBits == [uid |-> 1, state |-> 0]

AddFriendSuccessNotify == <<Message("friend_info", 1, 0, FriendInfo, FriendInfoBits)>>
AddFriendSuccessNotifyBits == [friend_info |-> 0]

SyncReq == <<Int32("uid", 1, 1), Int64("last_sync_key", 2, 0)>>
SyncReqBits == [uid |-> 1, last_sync_key |-> 0]

SyncResp ==
    <<Bool("success", 1, 2),
      Repeated("messages", 2, 0, OneChatRequest, OneChatRequestBits),
      Int64("new_sync_key", 3, 1)>>
SyncRespBits == [success |-> 2, messages |-> 0, new_sync_key |-> 1]

Codec ==
    [LoginRequest |-> [fields |-> LoginRequest, bits |-> LoginRequestBits],
     FriendInfo |-> [fields |-> FriendInfo, bits |-> FriendInfoBits],
     FriendRequestNotify |-> [fields |-> FriendRequestNotify, bits |-> FriendRequestNotifyBits],
     LoginResponse |-> [fields |-> LoginResponse, bits |-> LoginResponseBits],
     RegRequest |-> [fields |-> RegRequest, bits |-> RegRequestBits],
     RegResponse |-> [fields |-> RegResponse, bits |-> RegResponseBits],
     OneChatRequest |-> [fields |-> OneChatRequest, bits |-> OneChatRequestBits],
     MsgSendAck |-> [fields |-> MsgSendAck, bits |-> MsgSendAckBits],
     MsgRecvAck |-> [fields |-> MsgRecvAck, bits |-> MsgRecvAckBits],
     AddFriendReq |-> [fields |-> AddFriendReq, bits |-> AddFriendReqBits],
     AddFriendResp |-> [fields |-> AddFriendResp, bits |-> AddFriendRespBits],
     ProcessFriendReq |-> [fields |-> ProcessFriendReq, bits |-> ProcessFriendReqBits],
     ProcessFriendResp |-> [fields |-> ProcessFriendResp, bits |-> ProcessFriendRespBits],
     UserStatusNotify |-> [fields |-> UserStatusNotify, bits |-> UserStatusNotifyBits],
     AddFriendSuccessNotify |-> [fields |-> AddFriendSuccessNotify, bits |-> AddFriendSuccessNotifyBits],
     SyncReq |-> [fields |-> SyncReq, bits |-> SyncReqBits],
     SyncResp |-> [fields |-> SyncResp, bits |-> SyncRespBits]]

----------------------------------------------------------------------------
New(fields) ==
    [bits |-> {}, val |-> [n \in Names(fields) |-> Default(FieldNamed(fields, n).type)]]

Put(o, name, bit, v) ==
    [bits |-> o.bits \cup {bit}, val |-> [o.val EXCEPT ![name] = v]]

\* _InternalSerialize: a field whose has-bit is not set is not looked at.
Plain(f, o) ==
    IF f.bit \notin o.bits \/ o.val[f.name] = Default(f.type) THEN <<>>
    ELSE <<Scalar(f.num, f.type, o.val[f.name])>>

\* What is inside a message is flat, as on the server's side.
SerializeFlat(fields, o) == FlattenSeq([i \in DOMAIN fields |-> Plain(fields[i], o)])

Written(f, o) ==
    IF ~IsNested(f.type) THEN Plain(f, o)
    ELSE IF f.bit \notin o.bits THEN <<>>
    ELSE [j \in DOMAIN o.val[f.name] |->
             Token(f.num, f.type, SerializeFlat(f.of, o.val[f.name][j]))]

Serialize(fields, o) == FlattenSeq([i \in DOMAIN fields |-> Written(fields[i], o)])

\* TcParser with an entry of the table: a field that is read sets its bit.
Assign(o, f, t) ==
    IF Readable(f.type, t.val) THEN Put(o, f.name, f.bit, Valued(f.type, t.val)) ELSE Failed

TakeFlat(fields, o, t) ==
    IF Skips(fields, o, t) THEN o ELSE Assign(o, FieldFor(fields, t), t)

\* TcParser::ParseLoop, from the object o on.
ParseFlat(fields, o, wire) ==
    LET object[k \in 0..Len(wire)] ==
            IF k = 0 THEN o ELSE TakeFlat(fields, object[k - 1], wire[k])
    IN object[Len(wire)]

\* A repeated message is added, any other is merged into.
Nest(o, f, t) ==
    LET old == o.val[f.name]
        in == ParseFlat(f.of, IF f.type = "repeated" \/ old = <<>> THEN New(f.of) ELSE old[1],
                        t.val)
    IN IF in = Failed THEN Failed
       ELSE Put(o, f.name, f.bit, IF f.type = "repeated" THEN Append(old, in) ELSE <<in>>)

Take(fields, o, t) ==
    IF Skips(fields, o, t) THEN o
    ELSE LET f == FieldFor(fields, t)
         IN IF IsNested(f.type) THEN Nest(o, f, t) ELSE Assign(o, f, t)

Parse(fields, o, wire) ==
    LET object[k \in 0..Len(wire)] ==
            IF k = 0 THEN o ELSE Take(fields, object[k - 1], wire[k])
    IN object[Len(wire)]

\* The setters, mutable_x and add_x: each sets the bit of its field.
MakeFlat(fields, bits, values) ==
    [bits |-> {bits[n] : n \in Names(fields)}, val |-> [n \in Names(fields) |-> values[n]]]

\* A nested message that the program does not ask for stays unset.
Make(fields, bits, values) ==
    LET Value(n, f) ==
            IF IsNested(f.type)
            THEN [j \in DOMAIN values[n] |-> MakeFlat(f.of, f.bits, values[n][j])]
            ELSE values[n]
        IsSet(n, f) == IsNested(f.type) => values[n] # <<>>
    IN [bits |-> {bits[n] : n \in {x \in Names(fields) : IsSet(x, FieldNamed(fields, x))}},
        val |-> [n \in Names(fields) |-> Value(n, FieldNamed(fields, n))]]

\* The getters. A nested message is there if its accessor's bit is set; in one that
\* is flat they return what the object holds.
Values(fields, bits, o) ==
    LET Value(n, f) ==
            IF ~IsNested(f.type) THEN o.val[n]
            ELSE IF f.type = "message" /\ bits[n] \notin o.bits THEN <<>>
            ELSE [j \in DOMAIN o.val[n] |-> o.val[n][j].val]
    IN [n \in DOMAIN o.val |-> Value(n, FieldNamed(fields, n))]

Write(message, values) == Serialize(message.fields, Make(message.fields, message.bits, values))
Read(message, wire) ==
    LET o == Parse(message.fields, New(message.fields), wire)
    IN IF o = Failed THEN Failed ELSE Values(message.fields, message.bits, o)
=============================================================================
