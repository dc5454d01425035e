------------------------------ MODULE WebSocket ------------------------------
(***************************************************************************)
(* One WebSocket connection (aras/src/protocols/websocket.rs): the          *)
(* handshake of WebsocketHandler::handle under the request timeout of       *)
(* aras/src/server.rs, then run_protocol, a task of its own that no timeout *)
(* bounds: it selects between a frame of the client and an event of the     *)
(* application, over the link of Communication.                             *)
(*                                                                          *)
(* A frame or event is abstracted to its kind.  The fragmentation of what   *)
(* is sent to the client is in FrameBuilder.                                *)
(***************************************************************************)
EXTENDS Communication, ErrorHandler, FiniteSets

WsReceiveEvents == {"connect", "receive", "disconnect"}
WsSendEvents    == {"accept", "send", "close", "other"}

ASSUME WebSocketAssumption ==
    /\ ServerEvents = WsReceiveEvents
    /\ AppEvents = WsSendEvents
    /\ MaxMessages >= 2

(* What ws.read_frame() can yield: a data frame, a close frame, an error    *)
(* (or an opcode nobody expects), an ill-formed close frame, text or reason *)
(* that is not UTF-8, and the end of the connection.                        *)
Frames == {"data", "close", "error", "badClose", "badUtf8", "closed"}

(* CloseCode, the code of the application's or of the client's close event. *)
Codes == {"Normal", "Error", "Protocol", "Invalid", "app", "client"}

VARIABLES
    step,     \* of handle(), then of the loop of run_protocol
    status,   \* answer to the handshake: "none", "101", "403", "500", "504"
    code,     \* code of the close frame the server has decided on
    why,      \* the result of the application that made it close, if any
    written,  \* events of the application written to the client
    online    \* is the client still there

wsVars == <<step, status, code, why, written, online>>
vars   == <<commVars, wsVars>>

WsInit ==
    /\ CommInit
    /\ step = "start" /\ status = "none"
    /\ code = "none" /\ why = "none"
    /\ written = 0 /\ online = TRUE

-----------------------------------------------------------------------------
(* handle: accept, upgrade *)

SendConnect ==
    /\ step = "start"
    /\ BeginSend("connect")
    /\ step' = "connect"
    /\ UNCHANGED <<status, code, why, written, online>>

(* handle() returns without having accepted, and drops both handles. *)
Refuse(s) ==
    /\ step' = "refused" /\ status' = s
    /\ Abandon({}, Channels)
    /\ UNCHANGED <<code, why, written, online>>

ConnectSent ==
    /\ step = "connect" /\ at["toApp"] = "idle"
    /\ \/ /\ answer["toApp"] = "ok"
          /\ BeginReceive
          /\ step' = "accept"
          /\ UNCHANGED <<status, code, why, written, online>>
       \/ answer["toApp"] # "ok" /\ Refuse(ErrorResponse("other"))

\* Mutant: whatever the application sends first accepts the connection.
AcceptLax ==
    /\ step = "accept" /\ at["fromApp"] = "idle"
    /\ \/ /\ answer["fromApp"] \in AppEvents \ {"close"}
          /\ step' = "upgrading" /\ status' = "101"
          /\ UNCHANGED <<commVars, code, why, written, online>>
       \/ answer["fromApp"] = "close" /\ Refuse("403")
       \/ answer["fromApp"] \in Results /\ Refuse(ErrorResponse("other"))

(* ConnectResponse::try_from, then upgrade::upgrade and the spawn.          *)
Accept ==
    /\ step = "accept" /\ at["fromApp"] = "idle"
    /\ \/ /\ answer["fromApp"] = "accept"
          /\ step' = "upgrading" /\ status' = "101"
          /\ UNCHANGED <<commVars, code, why, written, online>>
       \/ answer["fromApp"] = "close" /\ Refuse("403")
       \/ answer["fromApp"] # "close" /\ Refuse(ErrorResponse("other"))

AcceptTimeout ==
    /\ step = "accept" /\ at["fromApp"] # "idle"
    /\ Refuse(ErrorResponse("other"))

(* tower's Timeout drops handle(). *)
RequestTimeout ==
    /\ step \in {"start", "connect", "accept"}
    /\ Refuse(ErrorResponse("Elapsed"))

Upgraded ==
    /\ step = "upgrading"
    /\ step' = "next"
    /\ UNCHANGED <<commVars, status, code, why, written, online>>

(* upgrade_future fails: run_protocol returns and drops both handles. *)
UpgradeFails ==
    /\ step = "upgrading"
    /\ step' = "refused"
    /\ Abandon({}, Channels)
    /\ UNCHANGED <<status, code, why, written, online>>

-----------------------------------------------------------------------------
(* Event::next *)

Select ==
    /\ step = "next"
    /\ BeginReceive
    /\ step' = "select"
    /\ UNCHANGED <<status, code, why, written, online>>

CloseWith(c) == step' = "close" /\ code' = c

\* Mutant: the end of the connection is left to the next read.
OnFrameLax(f) ==
    /\ CASE f = "data"     -> step' = "frame" /\ code' = code
         [] f = "close"    -> CloseWith("client")
         [] f = "error"    -> CloseWith("Error")
         [] f = "badClose" -> CloseWith("Protocol")
         [] f = "badUtf8"  -> CloseWith("Invalid")
         [] f = "closed"   -> step' = "next" /\ code' = code
    /\ UNCHANGED <<status, why, written>>

(* What on_event makes of a frame. *)
OnFrame(f) ==
    /\ CASE f = "data"     -> step' = "frame" /\ code' = code
         [] f = "close"    -> CloseWith("client")
         [] f = "error"    -> CloseWith("Error")
         [] f = "badClose" -> CloseWith("Protocol")
         [] f = "badUtf8"  -> CloseWith("Invalid")
         [] f = "closed"   -> CloseWith("Normal")
    /\ UNCHANGED <<status, why, written>>

(* read_frame() wins: select! drops the future of app.receive(). *)
FrameWins(f) ==
    /\ step = "select" /\ at["fromApp"] # "idle"
    /\ f = "data" => Len(sent["toApp"]) < MaxMessages - 1
    /\ online \/ f = "closed"
    /\ online' = (f # "closed")
    /\ Abandon({"fromApp"}, {})
    /\ OnFrame(f)

OnAppEvent ==
    \/ answer["fromApp"] = "send" /\ step' = "write" /\ UNCHANGED code
    \/ answer["fromApp"] = "close" /\ CloseWith("app")
    \/ answer["fromApp"] \in {"accept", "other"} /\ CloseWith("Error")

\* Mutant: only a normal return of the application ends the connection.
OnAppGoneLax ==
    /\ why' = answer["fromApp"]
    /\ IF why' = "Completed" THEN CloseWith("Normal") ELSE step' = "next" /\ code' = code

OnAppGone ==
    /\ why' = answer["fromApp"]
    /\ CloseWith(IF why' = "Completed" THEN "Normal" ELSE "Error")

(* app.receive() wins. *)
AppWins ==
    /\ step = "select" /\ at["fromApp"] = "idle"
    /\ \/ answer["fromApp"] \in AppEvents /\ OnAppEvent /\ UNCHANGED why
       \/ answer["fromApp"] \in Results /\ OnAppGone
    /\ UNCHANGED <<commVars, status, written, online>>

-----------------------------------------------------------------------------
(* on_asgi_received, on_frame_received, on_error, close *)

(* The frames of a send are written one after the other.  A client that     *)
(* does not read holds up the write, and with it the loop; an error of the  *)
(* socket goes to on_error.                                                 *)
Written ==
    /\ step = "write"
    /\ step' = "next" /\ written' = written + 1
    /\ UNCHANGED <<commVars, status, code, why, online>>

\* Mutant: what cannot be written is skipped.
WriteSkipped ==
    /\ step = "write" /\ step' = "next"
    /\ UNCHANGED <<commVars, status, code, why, written, online>>

WriteFails ==
    /\ step = "write"
    /\ CloseWith("Error")
    /\ UNCHANGED <<commVars, status, why, written, online>>

Forward ==
    /\ step = "frame"
    /\ BeginSend("receive")
    /\ step' = "forward"
    /\ UNCHANGED <<status, code, why, written, online>>

(* Any result of the application, Completed too, goes to on_error. *)
Forwarded ==
    /\ step = "forward" /\ at["toApp"] = "idle"
    /\ \/ answer["toApp"] = "ok" /\ step' = "next" /\ UNCHANGED <<code, why>>
       \/ answer["toApp"] # "ok" /\ CloseWith("Error") /\ why' = answer["toApp"]
    /\ UNCHANGED <<commVars, status, written, online>>

\* Mutant: the application is not told of a close it did not ask for.
SendDisconnectIfAsked ==
    /\ step = "close"
    /\ IF code = "Error" THEN UNCHANGED commVars /\ step' = "closing"
                         ELSE BeginSend("disconnect") /\ step' = "closing"
    /\ UNCHANGED <<status, code, why, written, online>>

(* The close frame is written, whatever comes of it, once the client lets   *)
(* it; then the event.                                                      *)
SendDisconnect ==
    /\ step = "close"
    /\ BeginSend("disconnect")
    /\ step' = "closing"
    /\ UNCHANGED <<status, code, why, written, online>>

\* Mutant: the loop does not end with the close.
DisconnectSentAgain ==
    /\ step = "closing" /\ at["toApp"] = "idle"
    /\ step' = "next"
    /\ UNCHANGED <<commVars, status, code, why, written, online>>

(* run_protocol leaves its loop and drops both handles and the socket. *)
DisconnectSent ==
    /\ step = "closing" /\ at["toApp"] = "idle"
    /\ Abandon({}, Channels)
    /\ step' = "done"
    /\ UNCHANGED <<status, code, why, written, online>>

(* The client goes away without a word. *)
ClientLeaves ==
    /\ online /\ online' = FALSE
    /\ UNCHANGED <<commVars, step, status, code, why, written>>

-----------------------------------------------------------------------------
WsCall(c) == CallStep(c) /\ UNCHANGED wsVars

Handshake ==
    \/ SendConnect \/ ConnectSent \/ Accept \/ AcceptTimeout
    \/ Upgraded \/ UpgradeFails

Writes == Written \/ WriteFails \/ SendDisconnect

Protocol ==
    \/ Select \/ AppWins
    \/ Forward \/ Forwarded
    \/ DisconnectSent

WsNext ==
    \/ AppStep /\ UNCHANGED wsVars
    \/ \E c \in Channels : WsCall(c)
    \/ Handshake
    \/ RequestTimeout
    \/ \E f \in Frames : FrameWins(f)
    \/ Protocol
    \/ Writes
    \/ ClientLeaves

WsSpec == WsInit /\ [][WsNext]_vars

(* Tasks are polled and timers fire; a lost connection shows in the next    *)
(* read or write, but a client that is there need not read what is written  *)
(* to it.  A ready event of the application is in time taken although the    *)
(* client goes on sending: select! chooses its first branch at random.      *)
FairWsSpec ==
    /\ WsSpec
    /\ WF_vars(Handshake) /\ WF_vars(RequestTimeout)
    /\ WF_vars(Protocol)
    /\ \A c \in Channels : WF_vars(WsCall(c))
    /\ WF_vars(~online /\ FrameWins("closed"))
    /\ WF_vars(~online /\ Writes)
    /\ WF_vars(AppWindsUp /\ UNCHANGED wsVars)

-----------------------------------------------------------------------------
(* Properties. *)

WsTypeOK ==
    /\ TypeOK
    /\ step \in {"start", "connect", "accept", "refused", "upgrading", "next", "select",
                 "write", "frame", "forward", "close", "closing", "done"}
    /\ status \in {"none", "101", "403", "500", "504"}
    /\ code \in {"none"} \cup Codes
    /\ why \in {"none"} \cup Results
    /\ written \in 0 .. MaxMessages
    /\ online \in BOOLEAN

Established == {"next", "select", "write", "frame", "forward", "close", "closing"}

(* A client is given the protocol only by an application whose first event  *)
(* accepts it (websocket.rs:43-51, 115-125).                                *)
ServedMeansAccepted ==
    step \in Established \cup {"done"} =>
        got["fromApp"] # <<>> /\ Head(got["fromApp"]) = "accept"

(* The application is sent one connect, then the client's frames, then at   *)
(* most one disconnect and nothing after it, although a frame, an event, an *)
(* error and a failed send may each close the connection.                   *)
WsEventOrder ==
    LET s == sent["toApp"] IN
    \A i \in 1 .. Len(s) :
        /\ s[i] = "connect" <=> i = 1
        /\ s[i] = "disconnect" => i = Len(s)

(* However an established connection ended, an application that still       *)
(* listens has been told (websocket.rs:289-300).                            *)
CloseIsTold ==
    step = "done" => \/ "toApp" \notin appHas
                     \/ sent["toApp"][Len(sent["toApp"])] = "disconnect"

(* When the connection is closed because the application returned, the      *)
(* client has been written everything the application had sent.             *)
NormalCloseDeliversAll ==
    code = "Normal" /\ why = "Completed" =>
        written = Cardinality({i \in 1 .. Len(sent["fromApp"]) : sent["fromApp"][i] = "send"})

(* As in ArasServer: send() on a half the application has dropped waits for *)
(* the application to end, with no timeout.                                 *)
Deaf == app = "running" /\ "toApp" \notin appHas

(* The task of a connection whose application has ended ends, whatever the  *)
(* client sends and however it goes, if it reads what it is written while   *)
(* it is there: nothing bounds the time of a write (websocket.rs:253, 297). *)
ClientReads == WF_vars(Writes)
AppEndsConnection ==
    ClientReads => ((step \in Established /\ app # "running") ~> step = "done")

(* The task of a connection whose client is gone ends, if the application   *)
(* receives what it is sent: a write to such a client fails, and the loop   *)
(* goes on from there.                                                      *)
Attentive == WF_vars(AppReceive /\ UNCHANGED wsVars)
ClientLossEnds == Attentive => ((step \in Established /\ ~online) ~> (step = "done" \/ Deaf))

-----------------------------------------------------------------------------
(* What comments say, and the code does not do. *)

(* Unexpected: "Application stopped running but we never got a result"      *)
(* (communication.rs:30-31): it is what the connection is closed for only   *)
(* if the application ended without a result.                               *)
UnexpectedMeansNoResult == why = "Unexpected" => app = "Panicked"
=============================================================================
