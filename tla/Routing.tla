------------------------------ MODULE Routing ------------------------------
(***************************************************************************)
(* How a client's URL selects a namespace of the server: the client's      *)
(* builder moves the URL's path into a `namespace` query pair, and the     *)
(* server's service and dispatch_request() find the namespace by it.       *)
(*                                                                         *)
(* A text is the sequence of its pieces between slashes: "/a/b" is         *)
(* <<"", "a", "b">> and "/" is <<"", "">>.  Pieces are plain names, or one *)
(* of the four that URL syntax gives a meaning to.                         *)
(***************************************************************************)
EXTENDS Naturals, Sequences, FiniteSets, SequencesExt

\* What form_urlencoded::parse makes of a piece of a value.
ParsePiece(s) == CASE s = "a+"    -> "a "
                   [] s = "a%26b" -> "a&b"
                   [] OTHER       -> s

\* Pieces with a bare ampersand end the pair they are in; the rest of the
\* piece begins the next pair, which may be one named namespace.
Ampersand == "a&b" :> [head |-> "a", key |-> "b"]
          @@ "x&namespace=" :> [head |-> "x", key |-> "namespace"]

ParseText(text) == [i \in DOMAIN text |-> ParsePiece(text[i])]

\* The pairs the server reads where the client wrote one pair.
ParsePair(pair) ==
  LET cuts == {i \in DOMAIN pair.value : pair.value[i] \in DOMAIN Ampersand}
  IN  IF cuts = {}
      THEN << [key |-> pair.key, value |-> ParseText(pair.value)] >>
      ELSE LET i == Min(cuts)
               cut == Ampersand[pair.value[i]]
           IN  << [key |-> pair.key,
                   value |-> ParseText(SubSeq(pair.value, 1, i - 1)) \o <<cut.head>>],
                  [key |-> cut.key,
                   value |-> <<"">> \o ParseText(SubSeq(pair.value, i + 1, Len(pair.value)))] >>

ParseQuery(pairs) == FlattenSeq([i \in DOMAIN pairs |-> ParsePair(pairs[i])])

NormalizeUrlPath(path) ==
  LET names == SelectSeq(path, LAMBDA s : s # "")
  IN  IF names = <<>> THEN <<"", "">> ELSE <<"">> \o names

\* Mutant: the URL's own namespace pairs are kept.
ConnectQueryKeepingAll(url) ==
  Append(url.query, [key |-> "namespace", value |-> NormalizeUrlPath(url.path)])

\* WsIoClientBuilder::new(): the pairs of the URL come decoded, the ones named
\* namespace are dropped, the path becomes the last pair, and all are written
\* back as they are.
ConnectQuery(url) ==
  Append(SelectSeq(url.query, LAMBDA pair : pair.key # "namespace"),
         [key |-> "namespace", value |-> NormalizeUrlPath(url.path)])

(***************************************************************************)
(* Requests.  A header is the sequence of its values, a value the set of   *)
(* its comma-separated tokens.                                             *)
(***************************************************************************)
HeaderNames == {"upgrade", "connection", "sec-websocket-version", "sec-websocket-key"}

CheckHeaderValue(request, name, expected) ==
  LET values == request.headers[name] IN values # <<>> /\ Head(values) = {expected}

CheckHeaderToken(request, name, expected) ==
  \E i \in DOMAIN request.headers[name] : expected \in request.headers[name][i]

\* The first pair named namespace, as a sequence of at most one value.
NamespaceOf(request) ==
  LET named == SelectSeq(ParseQuery(request.query), LAMBDA pair : pair.key = "namespace")
  IN  IF named = <<>> THEN <<>> ELSE << Head(named).value >>

\* dispatch_request(), up to the upgrade: the status it answers with, and the
\* namespace the connection goes to when that is 101.
DispatchRequest(request, namespaces) ==
  LET respond(status) == [status |-> status, namespace |-> <<>>]
      path == NamespaceOf(request)
      valid == /\ CheckHeaderValue(request, "upgrade", "websocket")
               /\ CheckHeaderToken(request, "connection", "upgrade")
               /\ CheckHeaderValue(request, "sec-websocket-version", "13")
               /\ request.headers["sec-websocket-key"] # <<>>
               /\ path # <<>>
  IN  IF request.method # "GET" THEN respond(405)
      ELSE IF ~valid THEN respond(400)
      ELSE IF path[1] \notin namespaces THEN respond(404)
      ELSE IF ~request.upgradable THEN respond(500)
      ELSE [status |-> 101, namespace |-> path[1]]
=============================================================================
