------------------------------ MODULE MCSetup ------------------------------
(***************************************************************************)
(* An instance of Setup: two settings, namespaces in and out of normal     *)
(* form, URLs with every kind of piece and of query.                       *)
(***************************************************************************)
EXTENDS Setup

MCSettings == {"packet_codec", "websocket_config"}
MCDefault == ("packet_codec" :> "SerdeJson")
          @@ ("websocket_config" :> [max |-> 21, write |-> 13])
MCValues == ("packet_codec" :> {"SerdeJson", "SonicRs", "Postcard"})
         @@ ("websocket_config" :> {[max |-> 21, write |-> 13], [max |-> 10, write |-> 10],
                                    [max |-> 21, write |-> -1]})

MCNamespacePaths == { <<"", "a">>, <<"", "a", "">>, <<"", "b">>, <<"", "a&b">>, <<"", "">> }
MCRequestPaths == { WsIo, <<"ws", "">>, <<"", "ws">> }

NoQuery == <<>>
OldNamespace == << [key |-> "namespace", value |-> <<"", "b">>] >>
Nested == << [key |-> "token", value |-> <<"x&namespace=", "b">>] >>
Url(scheme, path, query) == [scheme |-> scheme, path |-> path, query |-> query]
MCUrls == { Url("ws", <<"", "a">>, NoQuery), Url("wss", <<"", "", "a", "">>, OldNamespace),
            Url("ws", <<"", "">>, NoQuery), Url("ws", <<"", "a%26b">>, OldNamespace),
            Url("ws", <<"", "a&b">>, NoQuery), Url("ws", <<"", "a+">>, NoQuery),
            Url("ws", <<"", "a">>, Nested), Url("http", <<"", "a">>, NoQuery) }

Upgrade(r) == [r EXCEPT !.headers = HandshakeHeaders]
Bare == [path |-> WsIo, method |-> "GET", headers |-> [name \in HeaderNames |-> <<>>],
         query |-> NoQuery, upgradable |-> TRUE, foreign |-> TRUE]
MCForeign == { [Bare EXCEPT !.method = "POST"], Bare, Upgrade(Bare),
               [Upgrade(Bare) EXCEPT !.query = OldNamespace, !.upgradable = FALSE],
               [Upgrade(Bare) EXCEPT !.query = OldNamespace] }
=============================================================================
