-------------------------------- MODULE Http --------------------------------
(***************************************************************************)
(* One HTTP request: HTTPHandler (aras/src/protocols/http.rs), the body     *)
(* stream it hands to hyper, the request timeout around it                  *)
(* (aras/src/server.rs) and the status the error layer answers with         *)
(* (aras/src/layers/error_handler.rs), over the link of Communication.      *)
(*                                                                          *)
(* handle() runs read_body and make_response with try_join!, in one task:   *)
(* they are the two processes "reader" and "responder".  Bodies are         *)
(* abstracted to their more_body flag, so an event is one of                *)
(*   more, last, disconnect                    (server to application)      *)
(*   start, body.more, body.last, other        (application to server)      *)
(* where "other" is an event of another protocol, or a start whose status   *)
(* or headers http::Response::builder refuses.                              *)
(***************************************************************************)
EXTENDS Communication, ErrorHandler

HttpReceiveEvents == {"more", "last", "disconnect"}
HttpSendEvents    == {"start", "body.more", "body.last", "other"}

ASSUME HttpAssumption ==
    /\ ServerEvents = HttpReceiveEvents
    /\ AppEvents = HttpSendEvents
    /\ MaxMessages >= 3

VARIABLES
    phase,      \* of handle(): "join", "joined", "disconnecting", "returned"
    reader,     \* of read_body
    moreBody,   \* its more_body
    responder,  \* of make_response
    outcome,    \* of try_join!: "pending", "ok", "error"
    status,     \* what the client is answered: "none", "app", "500", "504"
    stream,     \* of the response body stream
    client      \* "reading", "stalled" (it leaves hyper no room to write), "gone"

httpVars == <<phase, reader, moreBody, responder, outcome, status, stream, client>>
vars     == <<commVars, httpVars>>

HttpInit ==
    /\ CommInit
    /\ phase = "join" /\ outcome = "pending"
    /\ reader = "part" /\ moreBody = TRUE
    /\ responder = "ready"
    /\ status = "none" /\ stream = "none"
    /\ client = "reading"

ReaderFailed == {"badBody", "tooLarge", "slowBody", "refused"}

(* try_join! polls both branches until one of them fails. *)
Joining == phase = "join" /\ reader \notin ReaderFailed /\ responder # "failed"

-----------------------------------------------------------------------------
(* read_body *)

(* The stream yields a part; its size hint says whether it was the last     *)
(* (it never does for a body of unknown length).                            *)
ReadPart(more) ==
    /\ Joining /\ reader = "part" /\ moreBody
    /\ Len(sent["toApp"]) < MaxMessages - 2
    /\ moreBody' = more
    /\ BeginSend(IF more THEN "more" ELSE "last")
    /\ reader' = "sending"
    /\ UNCHANGED <<phase, responder, outcome, status, stream, client>>

\* Mutant: the end of the stream is always announced.
ReadEndAlways ==
    /\ Joining /\ reader = "part"
    /\ BeginSend("last") /\ reader' = "ending"
    /\ UNCHANGED <<phase, moreBody, responder, outcome, status, stream, client>>

(* The stream ends; unless the size hint has announced it, an empty last    *)
(* part does.                                                               *)
ReadEnd ==
    /\ Joining /\ reader = "part"
    /\ IF moreBody THEN BeginSend("last") /\ reader' = "ending"
                   ELSE UNCHANGED commVars /\ reader' = "done"
    /\ UNCHANGED <<phase, moreBody, responder, outcome, status, stream, client>>

(* stream.next() fails (the transfer broke off, the body exceeds the limit  *)
(* of RequestBodyLimitLayer) or takes longer than the timeout.              *)
ReadFails(why) ==
    /\ Joining /\ reader = "part"
    /\ reader' = why
    /\ UNCHANGED <<commVars, phase, moreBody, responder, outcome, status, stream, client>>

(* send_to_app.send(msg).await? *)
ReadSent ==
    /\ Joining /\ reader \in {"sending", "ending"} /\ at["toApp"] = "idle"
    /\ reader' = IF answer["toApp"] # "ok" THEN "refused"
                 ELSE IF reader = "sending" THEN "part" ELSE "done"
    /\ UNCHANGED <<commVars, phase, moreBody, responder, outcome, status, stream, client>>

-----------------------------------------------------------------------------
(* make_response up to the response head *)

Respond ==
    /\ Joining /\ responder = "ready"
    /\ BeginReceive
    /\ responder' = "waiting"
    /\ UNCHANGED <<phase, reader, moreBody, outcome, status, stream, client>>

RespondStart ==
    /\ Joining /\ responder = "waiting" /\ at["fromApp"] = "idle"
    /\ responder' = IF answer["fromApp"] = "start" THEN "head" ELSE "failed"
    /\ UNCHANGED <<commVars, phase, reader, moreBody, outcome, status, stream, client>>

RespondTimeout ==
    /\ Joining /\ responder = "waiting" /\ at["fromApp"] # "idle"
    /\ Abandon({"fromApp"}, {})
    /\ responder' = "failed"
    /\ UNCHANGED <<phase, reader, moreBody, outcome, status, stream, client>>

-----------------------------------------------------------------------------
(* handle *)

JoinOk ==
    /\ Joining /\ reader = "done" /\ responder = "head"
    /\ phase' = "joined" /\ outcome' = "ok"
    /\ UNCHANGED <<commVars, reader, moreBody, responder, status, stream, client>>

(* The first error drops the other branch, and receive_from_app with        *)
(* make_response or the response it has built.                              *)
JoinFails ==
    /\ phase = "join" /\ ~Joining
    /\ Abandon({"toApp"}, {"fromApp"})
    /\ phase' = "joined" /\ outcome' = "error"
    /\ UNCHANGED <<reader, moreBody, responder, status, stream, client>>

SendDisconnect ==
    /\ phase = "joined"
    /\ BeginSend("disconnect")
    /\ phase' = "disconnecting"
    /\ UNCHANGED <<reader, moreBody, responder, outcome, status, stream, client>>

\* Mutant: both handles end with handle(), the one of the body stream too.
FinishDroppingBoth ==
    /\ phase = "disconnecting" /\ at["toApp"] = "idle"
    /\ Abandon({}, serverHas)
    /\ phase' = "returned"
    /\ IF outcome = "ok" THEN status' = "app" /\ stream' = "ready"
                         ELSE status' = ErrorResponse("other") /\ stream' = stream
    /\ UNCHANGED <<reader, moreBody, responder, outcome, client>>

(* handle() returns, whatever became of the disconnect event: hyper writes  *)
(* the head and polls the body stream, or ErrorHandlerService answers 500.  *)
Finish ==
    /\ phase = "disconnecting" /\ at["toApp"] = "idle"
    /\ Abandon({}, {"toApp"})
    /\ phase' = "returned"
    /\ IF outcome = "ok" THEN status' = "app" /\ stream' = "ready"
                         ELSE status' = ErrorResponse("other") /\ stream' = stream
    /\ UNCHANGED <<reader, moreBody, responder, outcome, client>>

\* Mutant: the timeout covers try_join! only.
RequestTimeoutInJoin ==
    /\ phase = "join" /\ client # "gone"
    /\ Abandon({}, serverHas)
    /\ phase' = "returned" /\ status' = ErrorResponse("Elapsed")
    /\ UNCHANGED <<reader, moreBody, responder, outcome, stream, client>>

(* tower's Timeout drops handle() wherever it is. *)
RequestTimeout ==
    /\ phase # "returned"
    /\ Abandon({}, serverHas)
    /\ phase' = "returned" /\ status' = ErrorResponse("Elapsed")
    /\ UNCHANGED <<reader, moreBody, responder, outcome, stream, client>>

-----------------------------------------------------------------------------
(* The body stream of make_response.  hyper polls it, and with it the       *)
(* receive and the timeout in it, as long as the connection has room to     *)
(* write.                                                                   *)

Streaming == {"ready", "waiting", "last"}

Polled(stages) == stream \in stages /\ client = "reading"

StreamReceive ==
    /\ Polled({"ready"})
    /\ BeginReceive
    /\ stream' = "waiting"
    /\ UNCHANGED <<phase, reader, moreBody, responder, outcome, status, client>>

\* Mutant: an application that has returned ends the body.
StreamEventLenient ==
    /\ Polled({"waiting"}) /\ at["fromApp"] = "idle"
    /\ CASE answer["fromApp"] = "body.more" -> stream' = "ready" /\ UNCHANGED commVars
         [] answer["fromApp"] \in {"body.last", "Completed"} ->
                stream' = "last" /\ UNCHANGED commVars
         [] OTHER -> stream' = "aborted" /\ Abandon({}, {"fromApp"})
    /\ UNCHANGED <<phase, reader, moreBody, responder, outcome, status, client>>

(* A part is yielded, or an error, on which hyper gives the body up. *)
StreamEvent ==
    /\ Polled({"waiting"}) /\ at["fromApp"] = "idle"
    /\ CASE answer["fromApp"] = "body.more" -> stream' = "ready" /\ UNCHANGED commVars
         [] answer["fromApp"] = "body.last" -> stream' = "last" /\ UNCHANGED commVars
         [] OTHER -> stream' = "aborted" /\ Abandon({}, {"fromApp"})
    /\ UNCHANGED <<phase, reader, moreBody, responder, outcome, status, client>>

StreamTimeout ==
    /\ Polled({"waiting"}) /\ at["fromApp"] # "idle"
    /\ Abandon({}, {"fromApp"})
    /\ stream' = "aborted"
    /\ UNCHANGED <<phase, reader, moreBody, responder, outcome, status, client>>

\* Mutant: the receiving half outlives the stream.
StreamEndsKeeping ==
    /\ Polled({"last"})
    /\ stream' = "complete"
    /\ UNCHANGED <<commVars, phase, reader, moreBody, responder, outcome, status, client>>

(* !more_data breaks the loop, and the stream is dropped. *)
StreamEnds ==
    /\ Polled({"last"})
    /\ Abandon({}, {"fromApp"})
    /\ stream' = "complete"
    /\ UNCHANGED <<phase, reader, moreBody, responder, outcome, status, client>>

(* hyper's buffer of the connection fills up, or drains again. *)
ClientStalls ==
    /\ Polled(Streaming)
    /\ client' = "stalled"
    /\ UNCHANGED <<commVars, phase, reader, moreBody, responder, outcome, status, stream>>

ClientReads ==
    /\ client = "stalled"
    /\ client' = "reading"
    /\ UNCHANGED <<commVars, phase, reader, moreBody, responder, outcome, status, stream>>

(* hyper finds the connection closed and drops what it was running for it. *)
ClientLeaves ==
    /\ client # "gone"
    /\ client' = "gone"
    /\ Abandon({}, serverHas)
    /\ phase' = "returned"
    /\ stream' = IF stream \in Streaming THEN "aborted" ELSE stream
    /\ UNCHANGED <<reader, moreBody, responder, outcome, status>>

-----------------------------------------------------------------------------
(* A call is polled only while the future it belongs to is. *)
HandleCall(c) ==
    /\ phase = "join" => Joining
    /\ client # "stalled"
    /\ CallStep(c)
    /\ UNCHANGED httpVars

Server ==
    \/ \E more \in BOOLEAN : ReadPart(more)
    \/ ReadEnd
    \/ \E why \in ReaderFailed \ {"refused"} : ReadFails(why)
    \/ ReadSent
    \/ Respond \/ RespondStart \/ RespondTimeout
    \/ JoinOk \/ JoinFails \/ SendDisconnect \/ Finish

Stream == StreamReceive \/ StreamEvent \/ StreamTimeout \/ StreamEnds

HttpNext ==
    \/ AppStep /\ UNCHANGED httpVars
    \/ \E c \in Channels : HandleCall(c)
    \/ Server
    \/ Stream
    \/ RequestTimeout
    \/ ClientStalls \/ ClientReads \/ ClientLeaves

HttpSpec == HttpInit /\ [][HttpNext]_vars

(* The runtime polls the woken tasks and its timers fire; nothing is        *)
(* assumed of the application or of the client.  The timers are part of     *)
(* Server (stream.next and receive are bounded by the handler's timeout),   *)
(* of Stream and of RequestTimeout.                                         *)
(*                                                                          *)
(* The body stream has no more than what the client leaves it: every time   *)
(* the connection has room again hyper polls it, however soon it is full    *)
(* (SF); while the client stalls nothing of it runs, its timeout included.  *)
FairHttpSpec ==
    /\ HttpSpec
    /\ WF_vars(Server)
    /\ \A c \in Channels : WF_vars(HandleCall(c))
    /\ SF_vars(Stream \/ (Polled(Streaming) /\ HandleCall("fromApp")))
    /\ WF_vars(RequestTimeout)

-----------------------------------------------------------------------------
(* Properties. *)

HttpTypeOK ==
    /\ TypeOK
    /\ phase \in {"join", "joined", "disconnecting", "returned"}
    /\ reader \in {"part", "sending", "ending", "done"} \cup ReaderFailed
    /\ moreBody \in BOOLEAN
    /\ responder \in {"ready", "waiting", "head", "failed"}
    /\ outcome \in {"pending", "ok", "error"}
    /\ status \in {"none", "app", "500", "504"}
    /\ stream \in {"none", "ready", "waiting", "last", "complete", "aborted"}
    /\ client \in {"reading", "stalled", "gone"}
    /\ client = "stalled" => stream \in Streaming

(* What a sequence of application events must be to be a whole response. *)
WholeResponse(s) ==
    /\ Len(s) >= 2
    /\ s[1] = "start" /\ s[Len(s)] = "body.last"
    /\ \A i \in 2 .. Len(s) - 1 : s[i] = "body.more"

(* A client that sees a response end regularly has been given the whole     *)
(* response of the application: an application that fails, returns early    *)
(* or is too slow never looks like one that has finished (http.rs:88-104).  *)
CompleteMeansWhole ==
    stream = "complete" => WholeResponse(got["fromApp"])

(* The application is sent a well-formed request: parts, then one last      *)
(* part, then at most one disconnect and nothing after it, although three   *)
(* places send and any of them may fail or be cancelled (http.rs:40-72).    *)
RequestWellFormed ==
    LET s == sent["toApp"] IN
    \A i, j \in 1 .. Len(s) : i < j =>
        /\ s[i] # "disconnect"
        /\ s[i] = "last" => s[j] = "disconnect"

(* A send of the application is refused only when its response is over, its *)
(* client is gone or the request has failed: while the client can still be  *)
(* given what it sends, past the end of handle() and however long the       *)
(* client stalls, it is not told otherwise (http.rs:33-44, 88-104,          *)
(* communication.rs:181).                                                   *)
Over ==
    \/ outcome = "error" \/ status = "504" \/ client = "gone"
    \/ stream \in {"complete", "aborted"}

RefusedMeansOver == "fromApp" \in told => Over

(* Every request of a client that stays is answered, even if the handler    *)
(* waits for a full channel with no timeout of its own (server.rs:309).     *)
RequestAnswered == <>(status # "none" \/ client = "gone")

(* The server sooner or later lets go of both channels, so that an          *)
(* application blocked in send or receive learns that the request is over,  *)
(* if the client never stops reading for good or leaves.  That much must be *)
(* assumed: the timeout of a receive is only polled with the body stream,   *)
(* which has no timeout for its writes, and RequestTimeout is over once     *)
(* handle has returned (http.rs:88-104, server.rs:309).                     *)
AppReleased == []<>(client # "stalled") => <>(serverHas = {})

-----------------------------------------------------------------------------
(* What the tests and docs say, and the code does not do. *)

(* "must still serve HTTP requests normally" (tests/test_asgi_protocol.py): *)
(* an application that has sent its whole response and returned, so that it *)
(* takes no more of the request body, is not answered for with 500.         *)
WholeResponseServed ==
    status = "500" /\ reader = "refused" =>
        ~(app = "Completed" /\ WholeResponse(sent["fromApp"]))
=============================================================================
