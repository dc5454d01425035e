------------------------------ MODULE PyEvents ------------------------------
(***************************************************************************)
(* What crosses the border between Rust and Python: the events of asgispec  *)
(* (asgispec/src/spec.rs and events/), the extraction of one from the       *)
(* mapping a Python application sends, and the dictionary made of one for   *)
(* it to receive (aras_py/src/wrappers.rs, convert.rs).                     *)
(*                                                                          *)
(* Of the value of a field only this is kept: is it there, and does it have *)
(* the type the extraction asks for.  An event is its variant and its       *)
(* "own" fields, the ones that carry the value the application gave; the    *)
(* others have their default.                                               *)
(***************************************************************************)

(* variant_str of ASGISendEvent and of ASGIReceiveEvent. *)
SendTypes ==
    [StartupComplete   |-> "lifespan.startup.complete",
     StartupFailed     |-> "lifespan.startup.failed",
     ShutdownComplete  |-> "lifespan.shutdown.complete",
     ShutdownFailed    |-> "lifespan.shutdown.failed",
     HTTPResponseStart |-> "http.response.start",
     HTTPResponseBody  |-> "http.response.body",
     WebsocketAccept   |-> "websocket.accept",
     WebsocketClose    |-> "websocket.close",
     WebsocketSend     |-> "websocket.send"]

ReceiveTypes ==
    [Startup             |-> "lifespan.startup",
     Shutdown            |-> "lifespan.shutdown",
     HTTPRequest         |-> "http.request",
     HTTPDisconnect      |-> "http.disconnect",
     WebsocketConnect    |-> "websocket.connect",
     WebsocketReceive    |-> "websocket.receive",
     WebsocketDisconnect |-> "websocket.disconnect"]

SendVariants    == DOMAIN SendTypes
ReceiveVariants == DOMAIN ReceiveTypes

(* The fields of the event structs; those of the lifespan protocol have a   *)
(* message if they report a failure, and none otherwise.                    *)
HttpFields(v) ==
    CASE v = "HTTPResponseStart" -> {"status", "headers"}
      [] v \in {"HTTPRequest", "HTTPResponseBody"} -> {"body", "more_body"}
      [] v = "HTTPDisconnect" -> {}

WebsocketFields(v) ==
    CASE v = "WebsocketConnect" -> {}
      [] v = "WebsocketAccept" -> {"subprotocol", "headers"}
      [] v \in {"WebsocketReceive", "WebsocketSend"} -> {"bytes", "text"}
      [] v \in {"WebsocketDisconnect", "WebsocketClose"} -> {"code", "reason"}

LifespanFields(v) == IF v \in {"StartupFailed", "ShutdownFailed"} THEN {"message"} ELSE {}

FieldsOf(v) ==
    CASE v \in {"HTTPResponseStart", "HTTPResponseBody", "HTTPRequest", "HTTPDisconnect"} ->
            HttpFields(v)
      [] v \in {"WebsocketConnect", "WebsocketAccept", "WebsocketReceive", "WebsocketSend",
                "WebsocketDisconnect", "WebsocketClose"} -> WebsocketFields(v)
      [] OTHER -> LifespanFields(v)

SendEvents == UNION {[variant : {v}, own : SUBSET FieldsOf(v)] : v \in SendVariants}

-----------------------------------------------------------------------------
(* From Python.  A message has a type and the fields of the event of that   *)
(* type: well typed, ill typed, or absent.  Or it is malformed: its type is *)
(* missing, not a string ("none") or of no event ("unknown").               *)

MessagesOf(v) ==
    {m \in [type : {SendTypes[v]}, well : SUBSET FieldsOf(v), ill : SUBSET FieldsOf(v)] :
        m.well \cap m.ill = {}}

Malformed == [type : {"none", "unknown"}, well : {{}}, ill : {{}}]

(* The constructor of a variant, given the fields that could be extracted;  *)
(* a field that is absent or ill typed has its default.                     *)
New(variant, m, optional) == [variant |-> variant, own |-> m.well \cap optional]

(* Where `?` follows the extraction of a field, its failure raises. *)
PyErr == [variant |-> "PyErr", own |-> {}]
Needs(m, required, event) ==
    IF required \in m.well THEN [event EXCEPT !.own = @ \cup {required}] ELSE PyErr

parse_py_http_response_start(m) ==
    Needs(m, "status", New("HTTPResponseStart", m, {"headers"}))

parse_py_http_response_body(m) ==
    Needs(m, "body", New("HTTPResponseBody", m, {"more_body"}))

parse_startup_failed(m)  == New("StartupFailed", m, {"message"})
parse_shutdown_failed(m) == New("ShutdownFailed", m, {"message"})

parse_websocket_accept(m) == New("WebsocketAccept", m, {"subprotocol", "headers"})

\* Mutant: an extracted text replaces the bytes.
parse_websocket_send_text(m) ==
    New("WebsocketSend", m, IF "text" \in m.well THEN {"text"} ELSE {"bytes"})

parse_websocket_send(m) == New("WebsocketSend", m, {"bytes", "text"})

parse_websocket_close(m) == New("WebsocketClose", m, {"code", "reason"})

extract(m) ==
    CASE m.type = "http.response.start"        -> parse_py_http_response_start(m)
      [] m.type = "http.response.body"         -> parse_py_http_response_body(m)
      [] m.type = "lifespan.startup.complete"  -> New("StartupComplete", m, {})
      [] m.type = "lifespan.startup.failed"    -> parse_startup_failed(m)
      [] m.type = "lifespan.shutdown.complete" -> New("ShutdownComplete", m, {})
      [] m.type = "lifespan.shutdown.failed"   -> parse_shutdown_failed(m)
      [] m.type = "websocket.accept"           -> parse_websocket_accept(m)
      [] m.type = "websocket.send"             -> parse_websocket_send(m)
      [] m.type = "websocket.close"            -> parse_websocket_close(m)
      [] OTHER                                 -> PyErr

(* What an extraction should be: the event the message names, with the      *)
(* value of every field that is well typed, and of no other.                *)
Says(m, e) == SendTypes[e.variant] = m.type /\ e.own = m.well

-----------------------------------------------------------------------------
(* To Python. *)

Dict(type, keys) == [type |-> type, keys |-> keys]

http_request_event_into_py   == Dict("http.request", {"body", "more_body"})
http_disconnect_event_into_py == Dict("http.disconnect", {})
lifespan_startup_into_py     == Dict("lifespan.startup", {})
lifespan_shutdown_into_py    == Dict("lifespan.shutdown", {})
websocket_connect_into_py    == Dict("websocket.connect", {})
websocket_receive_into_py    == Dict("websocket.receive", {"bytes", "text"})
websocket_disconnect_into_py == Dict("websocket.disconnect", {"code", "reason"})

into_pyobject(v) ==
    CASE v = "HTTPRequest"         -> http_request_event_into_py
      [] v = "HTTPDisconnect"      -> http_disconnect_event_into_py
      [] v = "Startup"             -> lifespan_startup_into_py
      [] v = "Shutdown"            -> lifespan_shutdown_into_py
      [] v = "WebsocketConnect"    -> websocket_connect_into_py
      [] v = "WebsocketReceive"    -> websocket_receive_into_py
      [] v = "WebsocketDisconnect" -> websocket_disconnect_into_py

(* What a dictionary should be: it names the event and has its fields. *)
Shows(d, v) == d.type = ReceiveTypes[v] /\ d.keys = FieldsOf(v)
=============================================================================
