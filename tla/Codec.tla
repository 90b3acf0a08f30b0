------------------------------- MODULE Codec -------------------------------
(***************************************************************************)
(* Packets and the five codecs.  A packet is a type, an optional key and   *)
(* optional data; bytes are what a codec made of a value, tagged with the  *)
(* wire format it is written in.  The formats themselves are third-party   *)
(* serializers: bytes of one format do not deserialize as another (the     *)
(* first byte of a packet already differs), which is all that is assumed.  *)
(***************************************************************************)
CONSTANTS None,     \* Option::None
          Failed    \* a deserializer's error

Codecs == {"Cbor", "Msgpack", "Postcard", "SerdeJson", "SonicRs"}

\* The two JSON codecs write the same text.
Format(codec) ==
  [Cbor |-> "cbor", Msgpack |-> "msgpack", Postcard |-> "postcard",
   SerdeJson |-> "json", SonicRs |-> "json"][codec]

IsText(codec) == Format(codec) = "json"

EncodeData(codec, data) == [format |-> Format(codec), value |-> data]

DecodeData(codec, bytes) ==
  IF bytes.format = Format(codec) THEN bytes.value ELSE Failed

New(type, key, data) == [type |-> type, key |-> key, data |-> data]
NewDisconnect == New("Disconnect", None, None)
NewEvent(event, data) == New("Event", event, data)
NewInit(data) == New("Init", None, data)
NewReady == New("Ready", None, None)

ToInnerRef(packet) == <<packet.type, packet.key, packet.data>>

\* Mutant: the event's name is left behind.
FromInnerKeyless(inner) == [data |-> inner[3], key |-> None, type |-> inner[1]]

FromInner(inner) == [data |-> inner[3], key |-> inner[2], type |-> inner[1]]

\* A packet is serialized as the bare tuple of its fields.
Encode(codec, packet) == EncodeData(codec, ToInnerRef(packet))

Decode(codec, bytes) ==
  LET inner == DecodeData(codec, bytes)
  IN  IF inner = Failed THEN Failed ELSE FromInner(inner)

\* encode_packet_to_message(): text codecs make text frames.
EncodePacketToMessage(codec, packet) ==
  [kind |-> IF IsText(codec) THEN "Text" ELSE "Binary", bytes |-> Encode(codec, packet)]
=============================================================================
