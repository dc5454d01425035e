------------------------------- MODULE Scopes -------------------------------
(***************************************************************************)
(* What an application is told of the call it is made for: the scopes of    *)
(* asgispec/src/scope, built by ScopeFactory (aras/src/scope.rs) from a     *)
(* request and its connection, and the dictionaries made of them for a      *)
(* Python application (aras_py/src/convert.rs).                             *)
(*                                                                          *)
(* A value is kept by where it comes from; a header is a record of a name   *)
(* and a value, which is the sequence of its comma-separated parts.         *)
(***************************************************************************)
EXTENDS SequencesExt

ASGIScopeDefault == [version |-> "3.0", spec_version |-> "2.5"]

HTTPScopeFields ==
    {"asgi", "http_version", "method", "scheme", "path", "raw_path", "query_string",
     "root_path", "headers", "client", "server", "state"}

WebsocketScopeFields ==
    {"asgi", "http_version", "scheme", "path", "raw_path", "query_string", "root_path",
     "headers", "client", "server", "subprotocols", "state"}

LifespanScopeFields == {"asgi", "state"}

(* What both protocols take from the request and the connection. *)
FromRequest(conn, request, state) ==
    [asgi         |-> ASGIScopeDefault,
     http_version |-> request.version,
     scheme       |-> "http",
     path         |-> request.path,
     raw_path     |-> request.path,
     query_string |-> request.query,
     root_path    |-> "",
     headers      |-> request.headers,
     client       |-> conn.client,
     server       |-> conn.server,
     state        |-> state]

(* A scope with one field more. *)
WithField(scope, field, value) ==
    [f \in DOMAIN scope \cup {field} |-> IF f = field THEN value ELSE scope[f]]

build_http(conn, request, state) ==
    WithField(FromRequest(conn, request, state), "method", request.method)

(* Every Sec-WebSocket-Protocol header, in order, taken apart. *)
Subprotocols(headers) ==
    LET IsProtocol(h) == h.name = "sec-websocket-protocol"
        offers == SelectSeq(headers, IsProtocol)
    IN  FlattenSeq([i \in DOMAIN offers |-> offers[i].value])

build_websocket(conn, request, state) ==
    WithField(FromRequest(conn, request, state), "subprotocols", Subprotocols(request.headers))

build_lifespan(state) == [asgi |-> ASGIScopeDefault, state |-> state]

-----------------------------------------------------------------------------
(* To Python: the keys that are set, one by one. *)

asgi_scope_into_py(asgi) == [version |-> asgi.version, spec_version |-> asgi.spec_version]

WithKeys(type, scope, keys) ==
    [k \in keys |->
        CASE k = "type" -> type
          [] k = "asgi" -> asgi_scope_into_py(scope.asgi)
          [] OTHER      -> scope[k]]

http_scope_into_py(scope) ==
    WithKeys("http", scope,
        {"type", "asgi", "http_version", "method", "scheme", "path", "raw_path",
         "query_string", "root_path", "headers", "client", "server", "state"})

lifespan_scope_into_py(scope) == WithKeys("lifespan", scope, {"type", "asgi", "state"})

websocket_scope_into_py(scope) ==
    WithKeys("websocket", scope,
        {"type", "asgi", "http_version", "scheme", "path", "raw_path", "query_string",
         "root_path", "headers", "client", "server", "subprotocols", "state"})

(* PyScope::into_pyobject, for a scope of a protocol. *)
ScopeIntoPy(protocol, scope) ==
    CASE protocol = "http"      -> http_scope_into_py(scope)
      [] protocol = "lifespan"  -> lifespan_scope_into_py(scope)
      [] protocol = "websocket" -> websocket_scope_into_py(scope)

FieldsOfScope(protocol) ==
    CASE protocol = "http"      -> HTTPScopeFields
      [] protocol = "lifespan"  -> LifespanScopeFields
      [] protocol = "websocket" -> WebsocketScopeFields
=============================================================================
