--------------------------- MODULE FrameworkProto ---------------------------
(***************************************************************************)
(* The StateBroadcast message of FrameworkProto.proto as the generated     *)
(* code keeps, writes and reads it.                                        *)
(*                                                                         *)
(* A message is a function: its domain are the fields whose has-bit is     *)
(* set.  On the wire a field is its tag and value, one unit here; a string,*)
(* bytes or the nested SenderId is a unit with the length, then its own    *)
(* units.  How many bytes a varint takes, unknown fields and reflection    *)
(* are left out.                                                           *)
(***************************************************************************)
EXTENDS Naturals, FiniteSets, SequencesExt, FiniteSetsExt

\* The fields in the order of their numbers, and the required ones.
Fields == <<"zmqPubPort", "zmqRepPort", "senderId", "senderName", "version", "lifecycleState",
            "additionalLifecycleInfos", "additionalStateInfos", "multicastIdentifier">>
Strings == {"senderName", "additionalStateInfos"}
Required == ToSet(Fields) \ {"additionalLifecycleInfos", "additionalStateInfos"}
SenderIdFields == <<"typeId", "instanceId">>

EmptyMessage == <<>>

Has(m, field) == field \in DOMAIN m
SetField(m, field, value) == [f \in DOMAIN m \cup {field} |-> IF f = field THEN value ELSE m[f]]

\* What an accessor returns for a field that is not set.
Default(field) == CASE field \in Strings -> <<>> [] field = "senderId" -> EmptyMessage [] OTHER -> 0
Field(m, field) == IF Has(m, field) THEN m[field] ELSE Default(field)

\* The fields that are set in `from`, on top of those of m.
Overlay(m, from) == [f \in DOMAIN m \cup DOMAIN from |-> IF Has(from, f) THEN from[f] ELSE m[f]]

\* The nested message is merged field by field.
MergeFrom(m, from) ==
    IF Has(m, "senderId") /\ Has(from, "senderId")
    THEN SetField(Overlay(m, from), "senderId", Overlay(m["senderId"], from["senderId"]))
    ELSE Overlay(m, from)

\* Seeded fault: only the fields of the first byte of has-bits are copied.
CopyFirstByte(m) == MergeFrom(EmptyMessage, [f \in DOMAIN m \ {Fields[9]} |-> m[f]])

\* The copy constructor, and CopyFrom().
Copy(m) == MergeFrom(EmptyMessage, m)

IsInitialized(m) ==
    /\ Required \subseteq DOMAIN m
    /\ ToSet(SenderIdFields) \subseteq DOMAIN m["senderId"]

\* The sizes are counted before anything is written, of the fields that are set.
FieldSize(field, value) ==
    CASE field \in Strings -> 1 + Len(value)
      [] field = "senderId" -> 1 + Cardinality(DOMAIN value)
      [] OTHER -> 1

Counted(m, field) == IF Has(m, field) THEN FieldSize(field, m[field]) ELSE 0

ByteSize(m) ==
    Counted(m, "zmqPubPort") + Counted(m, "zmqRepPort") + Counted(m, "senderId")
    + Counted(m, "senderName") + Counted(m, "version") + Counted(m, "lifecycleState")
    + Counted(m, "additionalLifecycleInfos") + Counted(m, "additionalStateInfos")
    + Counted(m, "multicastIdentifier")

Unit(field, value) == [field |-> field, value |-> value]
Header(field, length) == [field |-> field, length |-> length]
IsHeader(unit) == "length" \in DOMAIN unit

SerializeSenderId(m) ==
    LET Written(field) == IF Has(m, field) THEN <<Unit(field, m[field])>> ELSE <<>>
    IN  Written("typeId") \o Written("instanceId")

SerializeField(field, value) ==
    CASE field \in Strings -> <<Header(field, Len(value))>> \o [k \in 1..Len(value) |-> Unit(field, value[k])]
      [] field = "senderId" -> <<Header(field, FieldSize(field, value) - 1)>> \o SerializeSenderId(value)
      [] OTHER -> <<Unit(field, value)>>

Serialize(m) ==
    LET Written(field) == IF Has(m, field) THEN SerializeField(field, m[field]) ELSE <<>>
    IN  Written("zmqPubPort") \o Written("zmqRepPort") \o Written("senderId") \o Written("senderName")
        \o Written("version") \o Written("lifecycleState") \o Written("additionalLifecycleInfos")
        \o Written("additionalStateInfos") \o Written("multicastIdentifier")

Begun(bytes, fields) == {f \in ToSet(fields) : \E k \in DOMAIN bytes : bytes[k].field = f}

ReadNumber(bytes, field) == bytes[CHOOSE k \in DOMAIN bytes : bytes[k].field = field].value

\* As many units as are announced, as far as they are there.
ReadString(bytes, field) ==
    LET header == CHOOSE k \in DOMAIN bytes : bytes[k].field = field /\ IsHeader(bytes[k])
    IN  [k \in 1 .. Min({bytes[header].length, Len(bytes) - header}) |-> bytes[header + k].value]

ReadSenderId(bytes) == [f \in Begun(bytes, SenderIdFields) |-> ReadNumber(bytes, f)]

\* Clear() and MergePartialFromCodedStream(): the fields one by one, up to the end
\* or to the first that breaks off.  A string is filled as it is read, and its
\* has-bit, as that of the nested message, is set before.
ParsePartial(bytes) ==
    [f \in Begun(bytes, Fields) |->
        CASE f \in Strings -> ReadString(bytes, f)
          [] f = "senderId" -> ReadSenderId(bytes)
          [] OTHER -> ReadNumber(bytes, f)]

\* Every length that was announced was there.
NothingBreaksOff(bytes) == \A k \in DOMAIN bytes :
    IsHeader(bytes[k]) => k + bytes[k].length <= Len(bytes)

\* The result of ParseFromArray().
Parses(bytes) == NothingBreaksOff(bytes) /\ IsInitialized(ParsePartial(bytes))
=============================================================================
