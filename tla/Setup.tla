------------------------------- MODULE Setup -------------------------------
(***************************************************************************)
(* From the builders to an open session: the server's builder, a namespace *)
(* builder inheriting its settings, the client's builder, the upgrade      *)
(* request and the Init packets that both sides encode with their codec.   *)
(* Timeouts, shutdown and the interleavings of the handshake are the       *)
(* business of ServerConnection, ServerRuntime and ClientSession.          *)
(***************************************************************************)
EXTENDS Integers, Codec, Routing

CONSTANTS Settings,        \* the settings a namespace inherits
          Values,          \* Values[k]: what setting k is set to
          Default,         \* Default[k]: its value in WsIoServerBuilder::new()
          NamespacePaths,  \* the texts namespaces are created with
          RequestPaths,    \* the texts given to request_path()
          Urls,            \* the URLs clients are given
          Foreign,         \* requests that no client of this library made
          Inner,           \* the answer of the wrapped service
          MaxBuilders,     \* bound: namespace builders
          MaxSets          \* bound: setter calls of the server's and of the namespaces' builders

VARIABLES config,      \* the server's settings
          request_path,
          built,       \* the server is running
          builder,     \* the namespace builder in use, or None
          namespaces,  \* the registered namespaces: a function from paths
          client,      \* the client, or None, or Failed
          request,     \* the upgrade request on its way, or None
          answer,      \* the last answer: a status, or Inner
          link,        \* the client's connection, or None
          sets         \* calls so far that a bound limits

server == <<config, request_path, built>>
spaces == <<builder, namespaces>>
net    == <<request, answer, link>>
vars == <<server, spaces, client, net, sets>>

ASSUME SetupAssumption ==
  /\ "packet_codec" \in Settings /\ Values["packet_codec"] \subseteq Codecs
  /\ "websocket_config" \in Settings
  /\ Values["websocket_config"] \subseteq [max : Nat \cup {-1}, write : Nat \cup {-1}]
  /\ Default = [k \in Settings |-> Default[k]] /\ \A k \in Settings : Default[k] \in Values[k]
  /\ \A r \in Foreign : r.foreign = TRUE
  /\ MaxSets \in Nat /\ MaxBuilders \in Nat

\* The packets a side with this codec sends.
PacketsOf(codec) ==
  {NewInit(None), NewInit(EncodeData(codec, "hello")), NewReady, NewDisconnect,
   NewEvent("event", None), NewEvent("event", EncodeData(codec, "data"))}

\* A deserializer's error is none of the values it returns.
ASSUME FailedAssumption ==
  /\ Failed \notin {"hello", "data"}
  /\ \A codec \in Codecs : \A packet \in PacketsOf(codec) :
       Failed \notin {packet, ToInnerRef(packet)}

WsIo == <<"", "ws.io">>

\* A map after insert(key, value).
With(map, key, value) ==
  [k \in DOMAIN map \cup {key} |-> IF k = key THEN value ELSE map[k]]

(***************************************************************************)
(* channel_capacity_from_websocket_config().  Buffer sizes are powers of   *)
(* two, given by their exponents, or 0 bytes, given by -1.  The floating   *)
(* point ratio to a buffer of 0 bytes is infinite, or not a number, which  *)
(* max(1.0) replaces.                                                      *)
(***************************************************************************)
Clamp(n, low, high) == IF n < low THEN low ELSE IF n > high THEN high ELSE n

\* Mutant: the capacity is not clamped.
ChannelCapacityUnclamped(ws) == 256 * (ws.max - ws.write)

ChannelCapacity(ws) ==
  IF ws.max = -1 THEN 64
  ELSE IF ws.write = -1 THEN 16384
  ELSE Clamp(256 * (ws.max - ws.write), 64, 16384)

(***************************************************************************)
(* The builders.                                                           *)
(***************************************************************************)
Init ==
  /\ config = Default /\ request_path = WsIo /\ built = FALSE
  /\ builder = None /\ namespaces = <<>>
  /\ client = None /\ request = None /\ answer = None /\ link = None
  /\ sets = [server |-> 0, builders |-> 0, namespaces |-> 0]

Count(calls, max) == /\ sets[calls] < max
                     /\ sets' = [sets EXCEPT ![calls] = @ + 1]

ServerSet(k, v) ==
  /\ ~built /\ config' = [config EXCEPT ![k] = v]
  /\ Count("server", MaxSets)
  /\ UNCHANGED <<request_path, built, spaces, client, net>>

\* The text is kept as it is.
ServerRequestPath(p) ==
  /\ ~built /\ request_path' = p
  /\ Count("server", MaxSets)
  /\ UNCHANGED <<config, built, spaces, client, net>>

Build ==
  /\ ~built /\ built' = TRUE
  /\ UNCHANGED <<config, request_path, spaces, client, net, sets>>

\* Mutant: a builder starts from the built-in defaults.
NewNamespaceBuilderDefaults(p) ==
  /\ built /\ builder = None /\ Count("builders", MaxBuilders)
  /\ builder' = [path |-> p, config |-> Default, own |-> <<>>]
  /\ UNCHANGED <<server, namespaces, client, net>>

\* new_namespace_builder(): every setting starts from the server's.  own keeps
\* what the builder itself was told.
NewNamespaceBuilder(p) ==
  /\ built /\ builder = None /\ Count("builders", MaxBuilders)
  /\ builder' = [path |-> p, config |-> config, own |-> <<>>]
  /\ UNCHANGED <<server, namespaces, client, net>>

NamespaceSet(k, v) ==
  /\ builder # None /\ Count("namespaces", MaxSets)
  /\ builder' = [builder EXCEPT !.config[k] = v, !.own = With(@, k, v)]
  /\ UNCHANGED <<server, namespaces, client, net>>

\* register() consumes the builder; a path that is taken is an error.
Register ==
  /\ builder # None /\ builder' = None
  /\ namespaces' = IF builder.path \in DOMAIN namespaces THEN namespaces
                   ELSE With(namespaces, builder.path, builder)
  /\ UNCHANGED <<server, client, net, sets>>

\* WsIoClientBuilder is a value until build(): its constructor, of a ws or
\* wss URL, and two of its setters.
ClientNew(url) == [url |-> url, path |-> WsIo, query |-> ConnectQuery(url), codec |-> "SerdeJson"]
ClientRequestPath(b, p) == [b EXCEPT !.path = NormalizeUrlPath(p)]
ClientPacketCodec(b, codec) == [b EXCEPT !.codec = codec]

ClientBuild(url) ==
  /\ client = None
  /\ IF url.scheme \notin {"ws", "wss"} THEN client' = Failed
     ELSE \E p \in RequestPaths, codec \in Values["packet_codec"] :
            client' = ClientPacketCodec(ClientRequestPath(ClientNew(url), p), codec)
  /\ UNCHANGED <<server, spaces, net, sets>>

(***************************************************************************)
(* The upgrade request.  The client's comes from tungstenite with the      *)
(* headers of a WebSocket handshake; it asks again after a refusal.        *)
(***************************************************************************)
HandshakeHeaders == [name \in HeaderNames |->
  CASE name = "upgrade" -> << {"websocket"} >>
    [] name = "connection" -> << {"keep-alive", "upgrade"} >>
    [] name = "sec-websocket-version" -> << {"13"} >>
    [] name = "sec-websocket-key" -> << {"key"} >>]

Connect ==
  /\ client \notin {None, Failed} /\ built /\ link = None /\ request = None
  /\ request' = [path |-> client.path, method |-> "GET", headers |-> HandshakeHeaders,
                 query |-> client.query, upgradable |-> TRUE, foreign |-> FALSE]
  /\ answer' = None
  /\ UNCHANGED <<server, spaces, client, link, sets>>

ForeignRequest(r) ==
  /\ built /\ request = None /\ client = None
  /\ request' = r /\ answer' = None
  /\ UNCHANGED <<server, spaces, client, link, sets>>

\* init(): the connection's channel and its Init packet, with the data its
\* init-request handler returned, if any.
OpenLink(path, data) ==
  LET ns == namespaces[path]
      codec == ns.config["packet_codec"]
      packet == NewInit(IF data = None THEN None ELSE EncodeData(codec, data))
  IN  [path |-> path, capacity |-> ChannelCapacity(ns.config["websocket_config"]),
       stage |-> "Init", packet |-> packet, read |-> None,
       message |-> EncodePacketToMessage(codec, packet)]

\* WsIoServerService::call(): another path goes to the wrapped service.
Serve ==
  /\ request # None /\ request' = None
  /\ LET response == DispatchRequest(request, DOMAIN namespaces)
     IN  IF request.path # request_path
         THEN answer' = Inner /\ UNCHANGED link
         ELSE /\ answer' = response.status
              /\ IF response.status = 101 /\ ~request.foreign
                 THEN \E data \in {None, "hello"} : link' = OpenLink(response.namespace, data)
                 ELSE UNCHANGED link
  /\ UNCHANGED <<server, spaces, client, sets>>

(***************************************************************************)
(* The packets of the handshake and after it, one on its way at a time.    *)
(* Each side encodes and decodes with its own codec.                       *)
(***************************************************************************)
ServerCodec == namespaces[link.path].config["packet_codec"]

Send(codec, stage, packet) ==
  link' = [link EXCEPT !.stage = stage, !.packet = packet, !.read = None,
                       !.message = EncodePacketToMessage(codec, packet)]

\* What a side reads, from a frame of either kind; a packet or data that does
\* not decode ends its reader.
Reads(codec) == Decode(codec, link.message.bytes)
Broken(codec) ==
  \/ Reads(codec) = Failed
  \/ Reads(codec).data # None /\ DecodeData(codec, Reads(codec).data) = Failed

Fails == link' = [link EXCEPT !.stage = "Failed", !.read = Failed]

\* handle_init_packet() of the session: the handler's data, then the answer.
ClientReadsInit ==
  /\ link # None /\ link.stage = "Init"
  /\ IF Broken(client.codec) THEN Fails
     ELSE Send(client.codec, "Response", NewInit(EncodeData(client.codec, "hello")))
  /\ UNCHANGED <<server, spaces, client, request, answer, sets>>

\* handle_init_packet() of the connection.
ServerReadsInit ==
  /\ link # None /\ link.stage = "Response"
  /\ IF Broken(ServerCodec) THEN Fails ELSE Send(ServerCodec, "Sent", NewReady)
  /\ UNCHANGED <<server, spaces, client, request, answer, sets>>

ClientReads ==
  /\ link # None /\ link.stage = "Sent"
  /\ IF Broken(client.codec) THEN Fails
     ELSE link' = [link EXCEPT !.stage = "Open", !.read = Reads(client.codec)]
  /\ UNCHANGED <<server, spaces, client, request, answer, sets>>

\* emit(), with or without data, and disconnect().
ServerSends ==
  /\ link # None /\ link.stage = "Open"
  /\ \E packet \in {NewEvent("event", EncodeData(ServerCodec, "data")),
                     NewEvent("event", None), NewDisconnect} :
       Send(ServerCodec, "Sent", packet)
  /\ UNCHANGED <<server, spaces, client, request, answer, sets>>

Next ==
  \/ \E k \in Settings : \E v \in Values[k] : ServerSet(k, v) \/ NamespaceSet(k, v)
  \/ \E p \in RequestPaths : ServerRequestPath(p)
  \/ \E p \in NamespacePaths : NewNamespaceBuilder(p)
  \/ Build \/ Register
  \/ \E url \in Urls : ClientBuild(url)
  \/ \E r \in Foreign : ForeignRequest(r)
  \/ Connect \/ Serve
  \/ ClientReadsInit \/ ServerReadsInit \/ ClientReads \/ ServerSends

Spec == Init /\ [][Next]_vars

-----------------------------------------------------------------------------
(***************************************************************************)
(* Properties.                                                             *)
(***************************************************************************)
\* The path the application wrote, as URL syntax reads it: percent-decoded,
\* without empty pieces.
Own(url) ==
  LET path == NormalizeUrlPath(url.path)
  IN  [i \in DOMAIN path |-> IF path[i] = "a%26b" THEN "a&b" ELSE path[i]]

\* URLs whose pairs and path have no bare ampersand or plus once decoded.
Unreserved(url) ==
  \A i \in DOMAIN ConnectQuery(url) :
    \A j \in DOMAIN ConnectQuery(url)[i].value :
      ConnectQuery(url)[i].value[j] \notin {"a+"} \cup DOMAIN Ampersand

Capacities == {n \in Nat : 64 <= n /\ n <= 16384}

\* Types; the capacity of a connection's channel is between 64 and 16384
\* whatever the buffer sizes, so that mpsc::channel() never gets 0.
TypeOK ==
  /\ DOMAIN config = Settings /\ \A k \in Settings : config[k] \in Values[k]
  /\ request_path \in RequestPaths \cup {WsIo} /\ built \in BOOLEAN
  /\ builder # None => builder.path \in NamespacePaths /\ built
  /\ DOMAIN namespaces \subseteq NamespacePaths
  /\ client \in {None, Failed} \/ client.codec \in Codecs
  /\ answer \in {None, Inner, 101, 400, 404, 405, 500}
  /\ link # None => /\ link.path \in DOMAIN namespaces
                    /\ link.capacity \in Capacities
                    /\ link.stage \in {"Init", "Response", "Sent", "Open", "Failed"}

\* A client is upgraded exactly when it asks on the server's request path for
\* a registered namespace, and then to the namespace its URL's path names: no
\* other namespace, setting or earlier refusal, no way to write the path and no
\* namespace= pair of the URL itself changes that.  A bare ampersand or plus,
\* which WsIoClientBuilder::new() writes back without encoding it, is excepted.
RoutedByPath ==
  [][Serve /\ ~request.foreign /\ Unreserved(client.url) =>
       /\ answer' = 101 <=> /\ client.path = request_path
                           /\ Own(client.url) \in DOMAIN namespaces
       /\ answer' = 101 => link'.path = Own(client.url)]_vars

\* Settings of a namespace are the ones its builder was given and otherwise
\* the server's, also after other namespaces overrode them.
OverridesAreLocal ==
  \A p \in DOMAIN namespaces : \A k \in Settings :
    namespaces[p].config[k] = IF k \in DOMAIN namespaces[p].own
                              THEN namespaces[p].own[k] ELSE config[k]

\* A handshake completes exactly when both sides write the same format: a
\* session between SerdeJson and SonicRs opens, no other mixture passes the
\* first Init packet, and in an open session the client reads the packet the
\* server meant, field by field.
CodecsAgree ==
  link # None =>
    LET codecs == {client.codec, ServerCodec}
        same == client.codec = ServerCodec \/ codecs = {"SerdeJson", "SonicRs"}
    IN  /\ link.stage \in {"Sent", "Open"} => same
        /\ link.stage = "Failed" => ~same
        /\ link.stage = "Open" => link.read = link.packet
=============================================================================
