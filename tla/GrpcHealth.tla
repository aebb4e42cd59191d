----------------------------- MODULE GrpcHealth -----------------------------
(***************************************************************************)
(* grpc.rs of crates/open-runo-router: a call over HTTP/2, its frame, the  *)
(* hand-written protobuf codec, the Health and ServerReflection services,  *)
(* and check_remote_health, which asks any such server.  A byte is a       *)
(* number; a name is told by its length, and all its bytes are alike.      *)
(***************************************************************************)
EXTENDS Integers, Sequences, SequencesExt

CONSTANTS
    MaxFields,      \* bound: fields of a message the caller sends
    LongName        \* the length of a name no service has

ASSUME GrpcAssumption == MaxFields \in Nat /\ LongName \in Nat \ {0, 21, 27, 35}

VARIABLES
    rpc,        \* the call: idle, sent, answered, heard
    meant,      \* what the caller put into its message
    wire,       \* the bytes of the request's body
    reply,      \* the answer: grpc-status, the message's bytes
    verdict     \* what check_remote_health returns

grpcVars == <<rpc, meant, wire, reply, verdict>>

HealthName == 21            \* grpc.health.v1.Health
CheckName == 27             \* grpc.health.v1.Health.Check
ReflectionName == 35        \* grpc.reflection.v1.ServerReflection
KnownServices == {HealthName, ReflectionName}
HealthSymbols == {HealthName, CheckName}      \* and three more of the same file
Name(len) == [i \in 1 .. len |-> 103]
-----------------------------------------------------------------------------
(* The codec.                                                               *)

EncodeVarintLate(v) ==                                   \* mutant
    LET digits[n \in 0 .. v] ==
            IF n <= 128 THEN <<n>> ELSE <<(n % 128) + 128>> \o digits[n \div 128]
    IN  digits[v]
EncodeVarint(v) ==
    LET digits[n \in 0 .. v] ==
            IF n < 128 THEN <<n>> ELSE <<(n % 128) + 128>> \o digits[n \div 128]
    IN  digits[v]

\* decode_varint: the value and the bytes it takes, of at most ten; none: 0 bytes.
DecodeVarint(buf) ==
    LET ends == {i \in DOMAIN buf : i <= 10 /\ buf[i] < 128}
        size == IF ends = {} THEN 0 ELSE CHOOSE i \in ends : \A j \in ends : i <= j
        value[i \in 0 .. size] ==
            IF i = 0 THEN 0 ELSE value[i - 1] + (buf[i] % 128) * 128 ^ (i - 1)
    IN  [value |-> value[size], size |-> size]

Tag(number, wiretype) == EncodeVarint(8 * number + wiretype)
StringField(number, bytes) == Tag(number, 2) \o EncodeVarint(Len(bytes)) \o bytes
VarintField(number, value) == Tag(number, 0) \o EncodeVarint(value)

\* The loop the decoders share: the first field that begins at buf, and what is
\* left; "bad" when it is cut short or of a wire type they do not skip.
Bad == [kind |-> "bad", number |-> 0, body |-> <<>>, value |-> 0, rest |-> <<>>]
FirstField(buf) ==
    LET tag  == DecodeVarint(buf)
        rest == SubSeq(buf, tag.size + 1, Len(buf))
        size == DecodeVarint(rest)
        body == SubSeq(rest, size.size + 1, Len(rest))
        number == tag.value \div 8
    IN  CASE tag.size = 0 \/ size.size = 0 -> Bad
          [] tag.value % 8 = 0 ->
                [kind |-> "varint", number |-> number, body |-> <<>>, value |-> size.value,
                 rest |-> body]
          [] tag.value % 8 = 2 /\ size.value <= Len(body) ->
                [kind |-> "bytes", number |-> number, body |-> SubSeq(body, 1, size.value),
                 value |-> 0, rest |-> SubSeq(body, size.value + 1, Len(body))]
          [] OTHER -> Bad

RECURSIVE ServiceIn(_, _), Scan(_, _), StatusIn(_, _)
\* decode_health_check_request: the length of the service's name; -1: malformed.
ServiceIn(buf, service) ==
    IF buf = <<>> THEN service
    ELSE LET f == FirstField(buf) IN
         CASE f.kind = "bad" -> -1
           [] f.kind = "bytes" /\ f.number = 1 -> ServiceIn(f.rest, Len(f.body))
           [] OTHER -> ServiceIn(f.rest, service)

\* request_is_list_services and extract_file_containing_symbol: the first such
\* field, whatever follows; -1: none before something malformed.
Scan(buf, number) ==
    IF buf = <<>> THEN -1
    ELSE LET f == FirstField(buf) IN
         CASE f.kind = "bad" -> -1
           [] f.kind = "bytes" /\ f.number = number -> Len(f.body)
           [] OTHER -> Scan(f.rest, number)

\* decode_health_check_response takes nothing but its one field.
StatusIn(buf, status) ==
    IF buf = <<>> THEN status
    ELSE LET f == FirstField(buf) IN
         IF f.kind = "varint" /\ f.number = 1
         THEN StatusIn(f.rest, IF f.value \in {1, 2} THEN f.value ELSE 0)
         ELSE -1

\* encode_grpc_frame; decode_grpc_frame takes the first message of the body.
Framed(flag, message) == <<flag, 0, 0, Len(message) \div 256, Len(message) % 256>> \o message
Unframed(body) ==
    IF Len(body) < 5 THEN [status |-> 3, message |-> <<>>]
    ELSE IF body[1] # 0 THEN [status |-> 12, message |-> <<>>]
    ELSE LET len == body[4] * 256 + body[5] IN
         IF Len(body) < 5 + len THEN [status |-> 3, message |-> <<>>]
         ELSE [status |-> 0, message |-> SubSeq(body, 6, 5 + len)]
-----------------------------------------------------------------------------
(* The server.                                                              *)

Reply(status, message) == [status |-> status, message |-> message]
Refuse(status) == Reply(status, <<>>)
Serving == VarintField(1, 1)

\* list_services: every known service, one after the other, in the list, in the
\* response; a symbol's file is described by its name alone.
Listed(names) ==
    StringField(6, FoldLeft(LAMBDA out, n : out \o StringField(1, StringField(1, Name(n))),
                            <<>>, names))
Described == StringField(4, StringField(1, Name(HealthName)))

CheckHealth(message) ==
    LET service == ServiceIn(message, 0) IN
    CASE service = -1 -> Refuse(3)
      [] service > 0 /\ service \notin KnownServices -> Refuse(5)
      [] OTHER -> Reply(0, Serving)

Reflect(message) ==
    IF Scan(message, 7) >= 0 THEN Reply(0, Listed(<<HealthName, ReflectionName>>))
    ELSE IF Scan(message, 4) >= 0
         THEN IF Scan(message, 4) \in HealthSymbols THEN Reply(0, Described) ELSE Refuse(5)
    ELSE Refuse(12)

ServeGrpc ==
    /\ rpc = "sent"
    /\ LET frame == Unframed(wire) IN
       reply' = CASE meant.path = "other" -> Refuse(12)
                  [] meant.path # "other" /\ frame.status # 0 -> Refuse(frame.status)
                  [] meant.path \in {"Check", "Watch"} /\ frame.status = 0 ->
                        CheckHealth(frame.message)
                  [] meant.path = "Reflection" /\ frame.status = 0 -> Reflect(frame.message)
    /\ rpc' = "answered"
    /\ UNCHANGED <<meant, wire, verdict>>
-----------------------------------------------------------------------------
(* The caller: one of another implementation, with fields this server does *)
(* not know before, between and after its own; or check_remote_health.     *)

FieldsSent ==
    {[number |-> n, len |-> l] : n \in {1, 4, 7}, l \in {0, HealthName, ReflectionName, LongName}}
        \cup {[number |-> 20, len |-> 0 - 1]}       \* a varint field nobody knows
Encoded(f) == IF f.len < 0 THEN VarintField(f.number, 300) ELSE StringField(f.number, Name(f.len))
Message(fields) == FoldLeft(LAMBDA out, f : out \o Encoded(f), <<>>, fields)

Call(path, fields, flag) ==
    /\ rpc = "idle"
    /\ meant' = [path |-> path, fields |-> fields, flag |-> flag]
    /\ wire' = Framed(flag, Message(fields))
    /\ rpc' = "sent"
    /\ UNCHANGED <<reply, verdict>>

CheckRemoteHealth(service) ==
    Call("Check", IF service = 0 THEN <<>> ELSE <<[number |-> 1, len |-> service]>>, 0)

\* The rest of check_remote_health: the status, then the frame, then the message.
RemoteStatus == IF reply.status # 0 THEN -1 ELSE StatusIn(reply.message, 0)
HearReply ==
    /\ rpc = "answered"
    /\ verdict' = RemoteStatus /\ rpc' = "heard"
    /\ UNCHANGED <<meant, wire, reply>>

HangUpCall ==
    /\ rpc = "heard" /\ rpc' = "idle"
    /\ meant' = [path |-> "none", fields |-> <<>>, flag |-> 0] /\ wire' = <<>>
    /\ reply' = Refuse(-1) /\ verdict' = -2
-----------------------------------------------------------------------------
GrpcInit ==
    /\ rpc = "idle" /\ meant = [path |-> "none", fields |-> <<>>, flag |-> 0] /\ wire = <<>>
    /\ reply = Refuse(-1) /\ verdict = -2

GrpcNext ==
    \/ \E path \in {"Check", "Watch", "Reflection", "other"},
          fields \in BoundedSeq(FieldsSent, MaxFields), flag \in {0, 1} : Call(path, fields, flag)
    \/ \E service \in {0} \cup KnownServices \cup {LongName} : CheckRemoteHealth(service)
    \/ ServeGrpc \/ HearReply \/ HangUpCall

GrpcSpec == GrpcInit /\ [][GrpcNext]_grpcVars
-----------------------------------------------------------------------------
GrpcTypeOK ==
    /\ rpc \in {"idle", "sent", "answered", "heard"}
    /\ \A i \in DOMAIN wire : wire[i] \in 0 .. 255
    /\ reply.status \in {-1, 0, 3, 5, 12} /\ verdict \in -2 .. 2

\* What the caller's message says, read from its fields and not from its bytes.
Lens(number) == SelectSeq(meant.fields, LAMBDA f : f.number = number)
Asked == LET named == Lens(1) IN IF named = <<>> THEN 0 ELSE Last(named).len
ServiceStatus == IF Asked = 0 \/ Asked \in KnownServices THEN 0 ELSE 5
ReflectionStatus ==
    IF Lens(7) # <<>> THEN 0
    ELSE IF Lens(4) = <<>> THEN 12
    ELSE IF Head(Lens(4)).len \in HealthSymbols THEN 0 ELSE 5

\* The hand-written codec says what protobuf says: whatever fields of another
\* version of the protocol stand around, and however long the names are, the server
\* takes from the bytes the service that was asked for, and the client that asks it
\* hears SERVING exactly when that service is served.
BytesMeanFields ==
    (rpc \in {"answered", "heard"} /\ meant.flag = 0) =>
        /\ meant.path \in {"Check", "Watch"} => reply.status = ServiceStatus
        /\ meant.path = "Reflection" => reply.status = ReflectionStatus
        /\ meant.path = "Check" /\ rpc = "heard" =>
              verdict = IF ServiceStatus = 0 THEN 1 ELSE -1
=============================================================================
