-------------------------------- MODULE Packets --------------------------------
(***************************************************************************)
(* The Socket.IO frames of sio_protocol.cpp and the values that            *)
(* msgpack_codec.cpp carries in them, as operators.                        *)
(*                                                                         *)
(* A JSON value is a record whose t is the kind that nlohmann::json knows  *)
(* it by; "uint" and "int" are its two kinds of integer, of which a        *)
(* parsed nonnegative number is the first and a C++ int the second.  A     *)
(* MessagePack object is a record whose m is its msgpack::type.  Text      *)
(* packets carry JSON text, which is the record itself.                    *)
(***************************************************************************)
EXTENDS Integers, Sequences

CONSTANTS
  Strings,  \* texts
  Numbers,  \* integers, of both signs
  Keys      \* the keys of JSON objects

ASSUME DataAssumption == Numbers \subseteq Int

-----------------------------------------------------------------------------
(* JSON values, two levels deep. *)

Null == [t |-> "null"]

Scalars ==
  {Null} \cup [t : {"bool"}, b : BOOLEAN] \cup [t : {"str"}, s : Strings]
  \cup [t : {"uint"}, n : {n \in Numbers : n >= 0}] \cup [t : {"int"}, n : Numbers]
  \cup [t : {"float"}, n : Numbers]

ArraysOf(S, longest) == [t : {"array"}, items : UNION {[1..n -> S] : n \in 0..longest}]
ObjectsOf(S, keySets) == [t : {"object"}, fields : UNION {[K -> S] : K \in keySets}]

Flat == Scalars \cup ArraysOf(Scalars, 2) \cup ObjectsOf(Scalars, SUBSET Keys)
Values == Flat \cup ArraysOf(Flat, 1) \cup ObjectsOf(Flat, {{k} : k \in Keys})

\* What a value is to nlohmann's ==, which takes both kinds of integer for numbers.
Canonical[v \in Values] ==
  CASE v.t = "int" /\ v.n >= 0 -> [t |-> "uint", n |-> v.n]
    [] v.t = "array" -> [v EXCEPT !.items = [i \in DOMAIN v.items |-> Canonical[v.items[i]]]]
    [] v.t = "object" -> [v EXCEPT !.fields = [k \in DOMAIN v.fields |-> Canonical[v.fields[k]]]]
    [] OTHER -> v

-----------------------------------------------------------------------------
(* Plausible bugs. *)

\* Every integer is packed by pack_uint64 (with a word of eight bits).
AllUnsigned(n) == [m |-> "positive", n |-> n % 256]

-----------------------------------------------------------------------------
(* msgpack_codec.cpp *)

\* pack_uint64 and pack_int64 choose the type by the sign.
PackInteger(n) == [m |-> IF n >= 0 THEN "positive" ELSE "negative", n |-> n]

PackString(s) == [m |-> "str", s |-> s]

pack_json[v \in Values] ==
  CASE v.t = "null" -> [m |-> "nil"]
    [] v.t = "bool" -> [m |-> "boolean", b |-> v.b]
    [] v.t \in {"uint", "int"} -> PackInteger(v.n)
    [] v.t = "float" -> [m |-> "float64", n |-> v.n]
    [] v.t = "str" -> PackString(v.s)
    [] v.t = "array" -> [m |-> "array", items |-> [i \in DOMAIN v.items |-> pack_json[v.items[i]]]]
    [] v.t = "object" -> [m |-> "map", fields |-> [k \in DOMAIN v.fields |-> pack_json[v.fields[k]]]]

Objects == {pack_json[v] : v \in Values}

unpack_object[o \in Objects] ==
  CASE o.m = "nil" -> Null
    [] o.m = "boolean" -> [t |-> "bool", b |-> o.b]
    [] o.m = "positive" -> [t |-> "uint", n |-> o.n]
    [] o.m = "negative" -> [t |-> "int", n |-> o.n]
    [] o.m = "float64" -> [t |-> "float", n |-> o.n]
    [] o.m = "str" -> [t |-> "str", s |-> o.s]
    [] o.m = "array" -> [t |-> "array", items |-> [i \in DOMAIN o.items |-> unpack_object[o.items[i]]]]
    [] o.m = "map" -> [t |-> "object", fields |-> [k \in DOMAIN o.fields |-> unpack_object[o.fields[k]]]]

-----------------------------------------------------------------------------
(* sio_protocol.cpp: what is sent *)

Text(head, packet) == [binary |-> FALSE, head |-> head, packet |-> packet]

build_open_frame(sid, interval, timeout) ==
  Text("0", [sid |-> sid, pingInterval |-> interval, pingTimeout |-> timeout])
build_connect_ack_frame == Text("4", [type |-> 0])
build_disconnect_frame == Text("4", [type |-> 1])
PING_PACKET == Text("2", <<>>)
PONG_PACKET == Text("3", <<>>)

\* Data that is null is left out of the arguments.
build_event_frame(event, data) ==
  [binary |-> TRUE, head |-> 4,
   packet |-> [type |-> 2,
               data |-> <<PackString(event)>> \o
                        IF data = Null THEN <<>> ELSE <<pack_json[data]>>]]

-----------------------------------------------------------------------------
(* sio_protocol.cpp: parse_frame, for frames of peers that keep to the protocol *)

Other == [kind |-> "Other"]

EventData(args) == IF Len(args) > 1 THEN args[2] ELSE pack_json[Null]

parse_binary(packet) ==
  IF packet.type \in {2, 5} /\ packet.data # <<>> /\ packet.data[1].m = "str"
    THEN [kind |-> "Event", event |-> packet.data[1].s,
          data |-> unpack_object[EventData(packet.data)]]
    ELSE Other

parse_text(head, packet) ==
  CASE head = "0" -> [kind |-> "Open", sid |-> packet.sid, pingInterval |-> packet.pingInterval,
                     pingTimeout |-> packet.pingTimeout]
    [] head = "1" -> [kind |-> "Close"]
    [] head = "2" -> [kind |-> "Ping"]
    [] head = "3" -> [kind |-> "Pong"]
    [] head = "4" /\ packet.type = 0 -> [kind |-> "Connect"]
    [] head = "4" /\ packet.type = 1 -> [kind |-> "Disconnect"]
    [] head = "4" /\ packet.type = 4 -> [kind |-> "Error"]
    [] OTHER -> Other

parse_frame(f) ==
  IF f.binary THEN IF f.head = 4 THEN parse_binary(f.packet) ELSE Other
              ELSE parse_text(f.head, f.packet)
=============================================================================
