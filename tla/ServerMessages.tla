--------------------------- MODULE ServerMessages ---------------------------
(***************************************************************************)
(* The code protoc generated for ChatServer (msg.pb.cc, msg.pb.h): for     *)
(* each message the fields its Clear, _InternalParse, _InternalSerialize,  *)
(* ByteSizeLong and MergeFrom go through, and the object its accessors     *)
(* work on. This side keeps no has-bits: a field is there when it is not   *)
(* its default, a nested message when its pointer is set. Unknown fields   *)
(* are kept aside by the code and read by nobody; they are left out.       *)
(***************************************************************************)
EXTENDS Wire

\* A field of the switch in _InternalParse.
Field(name, num, type) == [name |-> name, num |-> num, type |-> type]
String(name, num) == Field(name, num, "string")
Int32(name, num) == Field(name, num, "int32")
Int64(name, num) == Field(name, num, "int64")
Bool(name, num) == Field(name, num, "bool")
Nested(name, num, type, of, new) ==
    [name |-> name, num |-> num, type |-> type, of |-> of, new |-> new]
Message(name, num, of, new) == Nested(name, num, "message", of, new)
Repeated(name, num, of, new) == Nested(name, num, "repeated", of, new)

LoginRequest == <<String("username", 1), String("password", 2)>>
NewLoginRequest == [username |-> "", password |-> ""]

FriendInfo == <<Int32("id", 1), String("name", 2), String("state", 3)>>
NewFriendInfo == [id |-> 0, name |-> "", state |-> ""]

FriendRequestNotify ==
    <<Int32("apply_id", 1), Int32("from_id", 2), String("from_name", 3)>>
NewFriendRequestNotify == [apply_id |-> 0, from_id |-> 0, from_name |-> ""]

LoginResponse ==
    <<Bool("success", 1), String("msg", 2), Int32("uid", 3),
      Repeated("friends", 4, FriendInfo, NewFriendInfo),
      Repeated("pending_applies", 5, FriendRequestNotify, NewFriendRequestNotify)>>
NewLoginResponse ==
    [success |-> FALSE, msg |-> "", uid |-> 0, friends |-> <<>>,
     pending_applies |-> <<>>]

RegRequest == <<String("username", 1), String("password", 2)>>
NewRegRequest == [username |-> "", password |-> ""]

RegResponse == <<Bool("success", 1), Int32("uid", 2), String("msg", 3)>>
NewRegResponse == [success |-> FALSE, uid |-> 0, msg |-> ""]

\* Bug: the id is declared an int32.
OneChatRequestNarrow ==
    <<Int32("from_id", 1), Int32("to_id", 2), String("msg", 3), Int32("msg_id", 4)>>

OneChatRequest ==
    <<Int32("from_id", 1), Int32("to_id", 2), String("msg", 3), Int64("msg_id", 4)>>
NewOneChatRequest == [from_id |-> 0, to_id |-> 0, msg |-> "", msg_id |-> 0]

MsgSendAck == <<Int64("msg_id", 1), Bool("success", 2), String("err_msg", 3)>>
NewMsgSendAck == [msg_id |-> 0, success |-> FALSE, err_msg |-> ""]

MsgRecvAck == <<Int64("msg_id", 1), Int32("from_id", 2), Int32("to_id", 3)>>
NewMsgRecvAck == [msg_id |-> 0, from_id |-> 0, to_id |-> 0]

AddFriendReq == <<Int32("from_id", 1), Int32("to_id", 2)>>
NewAddFriendReq == [from_id |-> 0, to_id |-> 0]

AddFriendResp == <<Bool("success", 1), String("msg", 2)>>
NewAddFriendResp == [success |-> FALSE, msg |-> ""]

ProcessFriendReq ==
    <<Int32("apply_id", 1), Int32("from_id", 2), Int32("to_id", 3), Bool("accept", 4)>>
NewProcessFriendReq == [apply_id |-> 0, from_id |-> 0, to_id |-> 0, accept |-> FALSE]

ProcessFriendResp ==
    <<Bool("success", 1), String("msg", 2), Int32("apply_id", 3), Bool("accept", 4),
      Message("friend_info", 5, FriendInfo, NewFriendInfo)>>
NewProcessFriendResp ==
    [success |-> FALSE, msg |-> "", apply_id |-> 0, accept |-> FALSE,
     friend_info |-> <<>>]

UserStatusNotify == <<Int32("uid", 1), String("state", 2)>>
NewUserStatusNotify == [uid |-> 0, state |-> ""]

AddFriendSuccessNotify == <<Message("friend_info", 1, FriendInfo, NewFriendInfo)>>
NewAddFriendSuccessNotify == [friend_info |-> <<>>]

SyncReq == <<Int32("uid", 1), Int64("last_sync_key", 2)>>
NewSyncReq == [uid |-> 0, last_sync_key |-> 0]

SyncResp ==
    <<Bool("success", 1), Repeated("messages", 2, OneChatRequest, NewOneChatRequest),
      Int64("new_sync_key", 3)>>
NewSyncResp == [success |-> FALSE, messages |-> <<>>, new_sync_key |-> 0]

Codec ==
    [LoginRequest |-> [fields |-> LoginRequest, new |-> NewLoginRequest],
     FriendInfo |-> [fields |-> FriendInfo, new |-> NewFriendInfo],
     FriendRequestNotify |-> [fields |-> FriendRequestNotify, new |-> NewFriendRequestNotify],
     LoginResponse |-> [fields |-> LoginResponse, new |-> NewLoginResponse],
     RegRequest |-> [fields |-> RegRequest, new |-> NewRegRequest],
     RegResponse |-> [fields |-> RegResponse, new |-> NewRegResponse],
     OneChatRequest |-> [fields |-> OneChatRequest, new |-> NewOneChatRequest],
     MsgSendAck |-> [fields |-> MsgSendAck, new |-> NewMsgSendAck],
     MsgRecvAck |-> [fields |-> MsgRecvAck, new |-> NewMsgRecvAck],
     AddFriendReq |-> [fields |-> AddFriendReq, new |-> NewAddFriendReq],
     AddFriendResp |-> [fields |-> AddFriendResp, new |-> NewAddFriendResp],
     ProcessFriendReq |-> [fields |-> ProcessFriendReq, new |-> NewProcessFriendReq],
     ProcessFriendResp |-> [fields |-> ProcessFriendResp, new |-> NewProcessFriendResp],
     UserStatusNotify |-> [fields |-> UserStatusNotify, new |-> NewUserStatusNotify],
     AddFriendSuccessNotify |-> [fields |-> AddFriendSuccessNotify, new |-> NewAddFriendSuccessNotify],
     SyncReq |-> [fields |-> SyncReq, new |-> NewSyncReq],
     SyncResp |-> [fields |-> SyncResp, new |-> NewSyncResp]]

----------------------------------------------------------------------------
\* _InternalSerialize: a scalar is written only if it is not its default. A text
\* that is not UTF-8 is logged and written.
Plain(f, v) == IF v = Default(f.type) THEN <<>> ELSE <<Scalar(f.num, f.type, v)>>

\* The fields in the order of their numbers. No message of msg.proto is nested
\* in one that is nested: what is inside a message is flat.
SerializeFlat(fields, m) ==
    FlattenSeq([i \in DOMAIN fields |-> Plain(fields[i], m[fields[i].name])])

Written(f, v) ==
    IF IsNested(f.type)
    THEN [j \in DOMAIN v |-> Token(f.num, f.type, SerializeFlat(f.of, v[j]))]
    ELSE Plain(f, v)

Serialize(fields, m) ==
    FlattenSeq([i \in DOMAIN fields |-> Written(fields[i], m[fields[i].name])])

\* A case of the switch in _InternalParse: a scalar that comes again replaces the
\* one before.
Assign(o, f, t) ==
    IF Readable(f.type, t.val) THEN [o EXCEPT ![f.name] = Valued(f.type, t.val)] ELSE Failed

TakeFlat(fields, o, t) ==
    IF Skips(fields, o, t) THEN o ELSE Assign(o, FieldFor(fields, t), t)

\* The loop of _InternalParse, from the object m on.
ParseFlat(fields, m, wire) ==
    LET object[k \in 0..Len(wire)] ==
            IF k = 0 THEN m ELSE TakeFlat(fields, object[k - 1], wire[k])
    IN object[Len(wire)]

\* ParseMessage: a repeated message is added, any other is merged into.
Nest(o, f, t) ==
    LET old == o[f.name]
        in == ParseFlat(f.of, IF f.type = "repeated" \/ old = <<>> THEN f.new ELSE old[1], t.val)
    IN IF in = Failed THEN Failed
       ELSE [o EXCEPT ![f.name] = IF f.type = "repeated" THEN Append(@, in) ELSE <<in>>]

Take(fields, o, t) ==
    IF Skips(fields, o, t) THEN o
    ELSE LET f == FieldFor(fields, t)
         IN IF IsNested(f.type) THEN Nest(o, f, t) ELSE Assign(o, f, t)

Parse(fields, m, wire) ==
    LET object[k \in 0..Len(wire)] ==
            IF k = 0 THEN m ELSE Take(fields, object[k - 1], wire[k])
    IN object[Len(wire)]

\* The setters: what the program puts into an object is what it holds.
Make(message, values) == [name \in DOMAIN message.new |-> values[name]]

Write(message, values) == Serialize(message.fields, Make(message, values))
Read(message, wire) == Parse(message.fields, message.new, wire)
=============================================================================
