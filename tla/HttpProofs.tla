----------------------------- MODULE HttpProofs -----------------------------
(***************************************************************************)
(* Proofs about one HTTP request, for every capacity of the channels and    *)
(* every length of body.                                                    *)
(*                                                                          *)
(* HTTPHandler uses the link as User of Communication may, so what is       *)
(* proved of the link holds under it (HandlerUsesLink).  Of what it sends   *)
(* and receives, RequestInv and ResponseInv say where in the protocol each  *)
(* step of its two halves can be; RefusalInv how long the server keeps its  *)
(* receiving half.                                                          *)
(***************************************************************************)
EXTENDS Http, CommunicationProofs

(* Every step of the handler is one of the link, or uses its handles as a   *)
(* handler may.                                                             *)
LEMMA HttpIsHandler ==
    ASSUME CommInv, [HttpNext]_vars
    PROVE  HandlerStep
<1>1. /\ serverHas \in SUBSET Channels
      /\ {} \in SUBSET Channels /\ {"toApp"} \in SUBSET Channels
      /\ {"fromApp"} \in SUBSET Channels
  BY DEF CommInv, TypeOK, Channels
<1>2. /\ "more" \in ServerEvents /\ "last" \in ServerEvents
      /\ "disconnect" \in ServerEvents
  BY HttpAssumption DEF HttpReceiveEvents
<1>3. CASE \E more \in BOOLEAN : ReadPart(more)
  BY <1>2, <1>3 DEF ReadPart, HandlerStep
<1>4. CASE ReadEnd \/ SendDisconnect
  BY <1>2, <1>4 DEF ReadEnd, SendDisconnect, HandlerStep
<1>5. CASE \/ \E why \in ReaderFailed \ {"refused"} : ReadFails(why)
           \/ ReadSent \/ RespondStart \/ JoinOk
  BY <1>5 DEF ReadFails, ReadSent, RespondStart, JoinOk, HandlerStep
<1>6. CASE Respond \/ StreamReceive
  BY <1>6 DEF Respond, StreamReceive, HandlerStep
<1>7. CASE RespondTimeout \/ JoinFails \/ Finish \/ StreamTimeout \/ StreamEnds
  BY <1>1, <1>7 DEF RespondTimeout, JoinFails, Finish, StreamTimeout, StreamEnds, HandlerStep
<1>8. CASE StreamEvent
  BY <1>1, <1>8 DEF StreamEvent, HandlerStep
<1>9. CASE RequestTimeout \/ ClientLeaves
  BY <1>1, <1>9 DEF RequestTimeout, ClientLeaves, HandlerStep
<1>13. CASE ClientStalls \/ ClientReads
  BY <1>13 DEF ClientStalls, ClientReads, HandlerStep
<1>10. CASE (AppStep /\ UNCHANGED httpVars) \/ \E c \in Channels : HandleCall(c)
  BY <1>10 DEF HandleCall, HandlerStep
<1>11. CASE UNCHANGED vars
  BY <1>11 DEF vars, HandlerStep
<1>12. QED
  BY <1>3, <1>4, <1>5, <1>6, <1>7, <1>8, <1>9, <1>10, <1>11,
     <1>13 DEF HttpNext, Server, Stream

(* The handler, the stream and the timeouts use the link as any user may:   *)
(* everything proved of the link holds of a request.                        *)
THEOREM HandlerUsesLink == HttpSpec => CommSpec /\ []CommInv /\ []CallsHeld
<1>1. HttpInit => CommInit
  BY DEF HttpInit
<1>2. CommInit => CommInv
  BY InitInv
<1>3. CommInv /\ [HttpNext]_vars => [CommNext]_commVars /\ CommInv'
  BY HttpIsHandler, HandlerUses
<1>4. QED
  BY <1>1, <1>2, <1>3, CallsAreHeld, PTL DEF HttpSpec, CommSpec

(* So the handler and the application of a request get from each other what *)
(* Link promises, with every timeout and every early return (http.rs:40-104). *)
THEOREM RequestImplementsLink == HttpSpec => ImplementsLink
BY HandlerUsesLink, LinkImplemented, PTL
-----------------------------------------------------------------------------
(* Types: the status and the stages of the two halves.                      *)

HttpTypes ==
    /\ phase \in {"join", "joined", "disconnecting", "returned"}
    /\ reader \in {"part", "sending", "ending", "done"} \cup ReaderFailed
    /\ moreBody \in BOOLEAN
    /\ responder \in {"ready", "waiting", "head", "failed"}
    /\ outcome \in {"pending", "ok", "error"}
    /\ status \in {"none", "app", "500", "504"}
    /\ stream \in {"none", "ready", "waiting", "last", "complete", "aborted"}
    /\ client \in {"reading", "stalled", "gone"}
    /\ client = "stalled" => stream \in Streaming

(* No step breaks the types. *)
LEMMA HttpTypesStep ==
    ASSUME HttpTypes, [HttpNext]_vars
    PROVE  HttpTypes'
<1>1. CASE Server
  <2>1. CASE \E more \in BOOLEAN : ReadPart(more)
    BY <2>1 DEF ReadPart, HttpTypes
  <2>2. CASE ReadEnd \/ ReadSent \/ \E why \in ReaderFailed \ {"refused"} : ReadFails(why)
    BY <2>2 DEF ReadEnd, ReadSent, ReadFails, HttpTypes, ReaderFailed
  <2>3. CASE Respond \/ RespondStart \/ RespondTimeout
    BY <2>3 DEF Respond, RespondStart, RespondTimeout, HttpTypes
  <2>4. CASE JoinOk \/ JoinFails \/ SendDisconnect \/ Finish
    BY <2>4 DEF JoinOk, JoinFails, SendDisconnect, Finish, ErrorResponse, HttpTypes, Streaming
  <2>5. QED
    BY <1>1, <2>1, <2>2, <2>3, <2>4 DEF Server
<1>2. CASE Stream
  <2>1. CASE StreamReceive \/ StreamTimeout \/ StreamEnds
    BY <2>1 DEF StreamReceive, StreamTimeout, StreamEnds, Polled, HttpTypes
  <2>2. CASE StreamEvent
    <3>1. stream' \in {"ready", "last", "aborted"}
      BY <2>2, Zenon DEF StreamEvent
    <3>2. /\ UNCHANGED <<phase, reader, moreBody, responder, outcome, status, client>>
          /\ client = "reading"
      BY <2>2 DEF StreamEvent, Polled
    <3>3. QED
      BY <3>1, <3>2 DEF HttpTypes
  <2>3. QED
    BY <1>2, <2>1, <2>2 DEF Stream
<1>3. CASE RequestTimeout \/ ClientLeaves
  BY <1>3 DEF RequestTimeout, ClientLeaves, ErrorResponse, HttpTypes
<1>4. CASE ClientStalls \/ ClientReads
  BY <1>4 DEF ClientStalls, ClientReads, Polled, HttpTypes
<1>5. CASE UNCHANGED httpVars
  BY <1>5 DEF httpVars, HttpTypes
<1>6. QED
  BY <1>1, <1>2, <1>3, <1>4, <1>5 DEF HttpNext, HandleCall, vars

(* Type correctness of a request and of the link under it.                  *)
THEOREM HttpTypeCorrect == HttpSpec => []HttpTypeOK
<1>1. HttpInit => HttpTypes
  BY DEF HttpInit, HttpTypes, Streaming
<1>2. HttpTypes /\ [HttpNext]_vars => HttpTypes'
  BY HttpTypesStep
<1>3. CommInv /\ HttpTypes => HttpTypeOK
  BY DEF CommInv, HttpTypes, HttpTypeOK
<1>4. QED
  BY <1>1, <1>2, <1>3, HandlerUsesLink, PTL DEF HttpSpec

-----------------------------------------------------------------------------
(* What the application is sent. *)

NoneIn(s, e) == \A i \in 1 .. Len(s) : s[i] # e

(* Where read_body and handle can be, for what has been sent: as long as    *)
(* more_body is to be announced no last part has been, an event on its way  *)
(* is the one its sender stands at, and the disconnect comes when the join  *)
(* is over.                                                                 *)
RequestInv ==
    LET s == sent["toApp"]
        sending == at["toApp"] = "channel"
    IN
    /\ RequestWellFormed
    /\ phase \in {"join", "joined"} \/ sending => NoneIn(s, "disconnect")
    /\ phase = "join" /\ (sending \/ (moreBody /\ reader \in {"part", "sending"}))
          => NoneIn(s, "last")
    /\ phase = "join" /\ sending => arg # "disconnect"
    /\ phase = "join" /\ sending /\ moreBody /\ reader = "sending" => arg = "more"
    /\ phase = "join" /\ reader \notin {"sending", "ending"} => at["toApp"] = "idle"
    /\ phase \in {"joined", "returned"} => at["toApp"] = "idle"
    /\ phase = "disconnecting" /\ sending => arg = "disconnect"

(* Nothing of the request has been sent. *)
LEMMA RequestInvInit == HttpInit => RequestInv
BY EmptySeq DEF HttpInit, CommInit, RequestInv, RequestWellFormed, NoneIn, Channels

(* No step breaks what holds of the request. *)
LEMMA RequestInvStep ==
    ASSUME CommInv, CallsHeld, HttpTypes, RequestInv, [HttpNext]_vars
    PROVE  RequestInv'
<1>0. /\ at \in [Channels -> Points] /\ sent["toApp"] \in Seq(ServerEvents)
      /\ "toApp" \in Channels
  BY DEF CommInv, TypeOK, Histories, Channels
<1>1. ASSUME sent'["toApp"] = sent["toApp"], at'["toApp"] = at["toApp"], arg' = arg,
             UNCHANGED <<phase, reader, moreBody>>
      PROVE  RequestInv'
  BY <1>1 DEF RequestInv, RequestWellFormed, NoneIn
<1>2. CASE AppStep /\ UNCHANGED httpVars
  BY <1>1, <1>2, AppFrame DEF httpVars
<1>3. CASE HandleCall("toApp")
  <2>1. CASE SendAccepted
    <3>1. /\ at["toApp"] = "channel" /\ arg \in ServerEvents
          /\ sent'["toApp"] = Append(sent["toApp"], arg) /\ at'["toApp"] = "idle"
      BY <1>0, <2>1, SendAcceptedFacts
    <3>2. UNCHANGED <<phase, reader, moreBody>>
      BY <1>3 DEF HandleCall, httpVars
    <3>3. /\ Len(sent'["toApp"]) = Len(sent["toApp"]) + 1
          /\ \A i \in 1 .. Len(sent["toApp"]) : sent'["toApp"][i] = sent["toApp"][i]
          /\ sent'["toApp"][Len(sent["toApp"]) + 1] = arg
          /\ Len(sent["toApp"]) \in Nat
      BY <1>0, <3>1, AppendProperties
    <3>4. RequestWellFormed'
      BY <3>1, <3>3 DEF RequestInv, RequestWellFormed, NoneIn, HttpTypes
    <3>5. phase \in {"join", "joined"} => NoneIn(sent["toApp"], "disconnect")'
      BY <3>1, <3>3 DEF RequestInv, NoneIn
    <3>6. phase = "join" /\ moreBody /\ reader \in {"part", "sending"}
             => NoneIn(sent["toApp"], "last")'
      BY <3>1, <3>3 DEF RequestInv, NoneIn
    <3>7. QED
      BY <3>1, <3>2, <3>4, <3>5, <3>6 DEF RequestInv
  <2>2. CASE ChannelFailed("toApp") \/ WaitForCompletion("toApp")
    <3>1. /\ at["toApp"] # "idle" /\ at'["toApp"] # "channel" /\ sent' = sent
      BY <1>0, <2>2, WaitFacts
    <3>2. UNCHANGED <<phase, reader, moreBody>>
      BY <1>3 DEF HandleCall, httpVars
    <3>3. QED
      BY <3>1, <3>2 DEF RequestInv, RequestWellFormed, NoneIn
  <2>3. QED
    BY <1>3, <2>1, <2>2 DEF HandleCall, CallStep
<1>4. CASE HandleCall("fromApp")
  <2>1. CASE ReceiveAccepted
    <3>1. sent' = sent /\ at'["toApp"] = at["toApp"] /\ arg' = arg
      BY <1>0, <2>1, ReceiveAcceptedFacts
    <3>2. QED
      BY <1>1, <1>4, <3>1 DEF HandleCall, httpVars
  <2>2. CASE ChannelFailed("fromApp") \/ WaitForCompletion("fromApp")
    <3>1. sent' = sent /\ at'["toApp"] = at["toApp"] /\ arg' = arg
      BY <1>0, <2>2, WaitFacts DEF Channels
    <3>2. QED
      BY <1>1, <1>4, <3>1 DEF HandleCall, httpVars
  <2>3. QED
    BY <1>4, <2>1, <2>2 DEF HandleCall, CallStep
<1>5. ASSUME NEW more \in BOOLEAN, ReadPart(more)
      PROVE  RequestInv'
  BY <1>0, <1>5 DEF ReadPart, Joining, BeginSend, channelVars, RequestInv,
                    RequestWellFormed, NoneIn
<1>6. CASE ReadEnd
  <2>1. CASE moreBody
    BY <1>0, <1>6, <2>1 DEF ReadEnd, Joining, BeginSend, channelVars, RequestInv,
                            RequestWellFormed, NoneIn
  <2>2. CASE ~moreBody
    BY <1>6, <2>2 DEF ReadEnd, Joining, commVars, RequestInv, RequestWellFormed, NoneIn
  <2>3. QED
    BY <2>1, <2>2
<1>7. CASE ReadSent \/ \E why \in ReaderFailed \ {"refused"} : ReadFails(why)
  BY <1>7 DEF ReadSent, ReadFails, Joining, commVars, RequestInv, RequestWellFormed,
              NoneIn, ReaderFailed
<1>8. CASE Respond \/ StreamReceive
  BY <1>0, <1>1, <1>8 DEF Respond, StreamReceive, BeginReceive, channelVars
<1>9. CASE RespondStart \/ (StreamEvent /\ UNCHANGED commVars)
  BY <1>1, <1>9 DEF RespondStart, StreamEvent, commVars
<1>10. ASSUME NEW C \in SUBSET {"fromApp"}, NEW D \in SUBSET {"fromApp"}, Abandon(C, D),
              UNCHANGED <<phase, reader, moreBody>>
       PROVE  RequestInv'
  BY <1>0, <1>1, <1>10 DEF Abandon, channelVars
<1>11. CASE RespondTimeout \/ StreamTimeout \/ StreamEnds
  BY <1>10, <1>11 DEF RespondTimeout, StreamTimeout, StreamEnds
<1>12. CASE StreamEvent
  <2>1. UNCHANGED commVars \/ Abandon({}, {"fromApp"})
    BY <1>12, Zenon DEF StreamEvent
  <2>2. UNCHANGED <<phase, reader, moreBody>>
    BY <1>12 DEF StreamEvent
  <2>3. QED
    BY <1>9, <1>10, <1>12, <2>1, <2>2
<1>13. CASE JoinOk
  BY <1>13 DEF JoinOk, Joining, commVars, RequestInv, RequestWellFormed, NoneIn
<1>14. CASE JoinFails
  BY <1>14 DEF JoinFails, Abandon, channelVars, RequestInv, RequestWellFormed, NoneIn, Channels
<1>15. CASE SendDisconnect
  BY <1>0, <1>15 DEF SendDisconnect, BeginSend, channelVars, RequestInv,
                     RequestWellFormed, NoneIn
<1>16. CASE Finish
  BY <1>16 DEF Finish, Abandon, channelVars, RequestInv, RequestWellFormed, NoneIn, Channels
<1>17. CASE RequestTimeout \/ ClientLeaves
  <2>1. Abandon({}, serverHas) /\ phase' = "returned"
    BY <1>17 DEF RequestTimeout, ClientLeaves
  <2>2. at'["toApp"] = "idle" /\ sent' = sent
    BY <2>1 DEF Abandon, channelVars, CallsHeld, Channels
  <2>3. QED
    BY <2>1, <2>2 DEF RequestInv, RequestWellFormed, NoneIn
<1>18. CASE ClientStalls \/ ClientReads \/ UNCHANGED vars
  BY <1>1, <1>18 DEF ClientStalls, ClientReads, vars, commVars, httpVars
<1>19. QED
  BY <1>2, <1>3, <1>4, <1>5, <1>6, <1>7, <1>8, <1>9, <1>11, <1>12, <1>13, <1>14, <1>15,
     <1>16, <1>17, <1>18 DEF HttpNext, Server, Stream, Channels

(* The application is sent parts, one last part, then at most one           *)
(* disconnect, however its two halves and the timeouts interleave           *)
(* (http.rs:40-72).                                                         *)
THEOREM RequestsAreWellFormed == HttpSpec => []RequestWellFormed
<1>1. HttpInit => HttpTypes /\ RequestInv
  BY RequestInvInit DEF HttpInit, HttpTypes, Streaming
<1>2. CommInv /\ CallsHeld /\ HttpTypes /\ RequestInv /\ [HttpNext]_vars => HttpTypes' /\ RequestInv'
  BY HttpTypesStep, RequestInvStep
<1>3. RequestInv => RequestWellFormed
  BY DEF RequestInv
<1>4. QED
  BY <1>1, <1>2, <1>3, HandlerUsesLink, PTL DEF HttpSpec
-----------------------------------------------------------------------------
(* What the client is given. *)

(* A response whose last part has not come yet.                             *)
OpenResponse(s) ==
    /\ Len(s) >= 1 /\ s[1] = "start"
    /\ \A i \in 2 .. Len(s) : s[i] = "body.more"

(* Where make_response and its stream can be, for what has been received:   *)
(* an answer they have yet to look at is the last event of the response.    *)
ResponseInv ==
    LET g == got["fromApp"]
        asking == at["fromApp"] = "channel"
        idle == at["fromApp"] = "idle"
        event == answer["fromApp"]
    IN
    /\ idle \/ event = "none"
    /\ responder = "ready" => idle /\ g = <<>>
    /\ responder = "waiting" => /\ asking => g = <<>>
                                /\ idle /\ event = "start" => g = <<"start">>
    /\ responder = "head" /\ stream = "none" => idle /\ g = <<"start">>
    /\ outcome = "ok" \/ stream # "none" => responder = "head"
    /\ stream # "none" => phase = "returned"
    /\ stream = "ready" => idle /\ OpenResponse(g)
    /\ stream = "waiting" => /\ asking \/ (idle /\ event = "body.more") => OpenResponse(g)
                             /\ idle /\ event = "body.last" => WholeResponse(g)
    /\ stream \in {"last", "complete"} => idle /\ WholeResponse(g)

(* Nothing of the response has been received. *)
LEMMA ResponseInvInit == HttpInit => ResponseInv
BY DEF HttpInit, CommInit, ResponseInv, Channels

(* The next event of a response: the first, a part, or the last part.       *)
LEMMA ResponseGrows ==
    ASSUME NEW s \in Seq(AppEvents), NEW m \in AppEvents
    PROVE  /\ s = <<>> => Append(s, m) = <<m>>
           /\ OpenResponse(s) /\ m = "body.more" => OpenResponse(Append(s, m))
           /\ OpenResponse(s) /\ m = "body.last" => WholeResponse(Append(s, m))
<1>1. /\ Append(s, m) \in Seq(AppEvents)
      /\ Len(Append(s, m)) = Len(s) + 1 /\ Len(s) \in Nat
      /\ \A i \in 1 .. Len(s) : Append(s, m)[i] = s[i]
      /\ Append(s, m)[Len(s) + 1] = m
  BY AppendProperties
<1>2. OpenResponse(s) /\ m = "body.more" => OpenResponse(Append(s, m))
  BY <1>1 DEF OpenResponse
<1>3. OpenResponse(s) /\ m = "body.last" => WholeResponse(Append(s, m))
  BY <1>1 DEF OpenResponse, WholeResponse
<1>4. Append(<<>>, m) = <<m>>
  OBVIOUS
<1>5. QED
  BY <1>2, <1>3, <1>4

(* No step breaks what holds of the response. *)
LEMMA ResponseInvStep ==
    ASSUME CommInv, CallsHeld, HttpTypes, ResponseInv, [HttpNext]_vars
    PROVE  ResponseInv'
<1>0. /\ at \in [Channels -> Points] /\ got["fromApp"] \in Seq(AppEvents)
      /\ answer \in [Channels -> {"none", "ok"} \cup Results \cup AppEvents]
      /\ "fromApp" \in Channels
      /\ \A e \in {"start", "body.more", "body.last"} : e \notin Results \cup {"none", "ok"}
  BY HttpAssumption DEF CommInv, TypeOK, Histories, Channels, Results
<1>1. ASSUME got'["fromApp"] = got["fromApp"], at'["fromApp"] = at["fromApp"],
             answer'["fromApp"] = answer["fromApp"],
             UNCHANGED <<phase, responder, outcome, stream>>
      PROVE  ResponseInv'
  BY <1>1 DEF ResponseInv, OpenResponse, WholeResponse
<1>2. CASE AppStep /\ UNCHANGED httpVars
  BY <1>1, <1>2, AppFrame DEF httpVars
<1>3. CASE HandleCall("fromApp")
  <2>0. UNCHANGED <<phase, responder, outcome, stream>>
    BY <1>3 DEF HandleCall, httpVars
  <2>1. CASE ReceiveAccepted
    <3>1. at["fromApp"] = "channel"
      BY <2>1, ReceiveAcceptedFacts
    <3>2. PICK m \in AppEvents :
              /\ got'["fromApp"] = Append(got["fromApp"], m)
              /\ at' = [at EXCEPT !["fromApp"] = "idle"]
              /\ answer' = [answer EXCEPT !["fromApp"] = m]
      BY <2>1, ReceiveAcceptedFacts
    <3>3. at'["fromApp"] = "idle" /\ answer'["fromApp"] = m
      BY <1>0, <3>2
    <3>4. /\ got["fromApp"] = <<>> => got'["fromApp"] = <<m>>
          /\ OpenResponse(got["fromApp"]) /\ m = "body.more" => OpenResponse(got'["fromApp"])
          /\ OpenResponse(got["fromApp"]) /\ m = "body.last" => WholeResponse(got'["fromApp"])
      BY <1>0, <3>2, ResponseGrows
    <3>5. QED
      BY <2>0, <3>1, <3>3, <3>4 DEF ResponseInv, OpenResponse, WholeResponse, HttpTypes
  <2>2. CASE ChannelFailed("fromApp") \/ WaitForCompletion("fromApp")
    <3>1. /\ at["fromApp"] # "idle" /\ at'["fromApp"] # "channel" /\ got' = got
          /\ at'["fromApp"] = "idle" => answer'["fromApp"] \in Results
          /\ at'["fromApp"] # "idle" => answer'["fromApp"] = answer["fromApp"]
      BY <1>0, <2>2, WaitFacts
    <3>2. QED
      BY <1>0, <2>0, <3>1 DEF ResponseInv, OpenResponse, WholeResponse
  <2>3. QED
    BY <1>3, <2>1, <2>2 DEF HandleCall, CallStep
<1>4. CASE HandleCall("toApp")
  <2>0. UNCHANGED <<phase, responder, outcome, stream>>
    BY <1>4 DEF HandleCall, httpVars
  <2>1. CASE SendAccepted
    BY <1>0, <1>1, <2>0, <2>1, SendAcceptedFacts
  <2>2. CASE ChannelFailed("toApp") \/ WaitForCompletion("toApp")
    BY <1>0, <1>1, <2>0, <2>2, WaitFacts DEF Channels
  <2>3. QED
    BY <1>4, <2>1, <2>2 DEF HandleCall, CallStep
<1>5. CASE \/ \E more \in BOOLEAN : ReadPart(more)
           \/ ReadEnd \/ ReadSent
           \/ \E why \in ReaderFailed \ {"refused"} : ReadFails(why)
  BY <1>0, <1>1, <1>5 DEF ReadPart, ReadEnd, ReadSent, ReadFails, BeginSend,
                          channelVars, commVars
<1>6. CASE Respond
  BY <1>0, <1>6 DEF Respond, Joining, BeginReceive, channelVars, ResponseInv, OpenResponse,
                    WholeResponse
<1>7. CASE RespondStart
  BY <1>0, <1>7 DEF RespondStart, Joining, commVars, ResponseInv, OpenResponse, WholeResponse
<1>8. CASE JoinOk \/ SendDisconnect
  BY <1>0, <1>8 DEF JoinOk, SendDisconnect, Joining, BeginSend, commVars, channelVars,
                    ResponseInv, OpenResponse, WholeResponse
<1>9. ASSUME NEW C \in SUBSET Channels, NEW D \in SUBSET Channels, Abandon(C, D)
      PROVE  /\ got' = got /\ answer' = answer
             /\ at'["fromApp"] \in {at["fromApp"], "idle"}
             /\ at["fromApp"] = "idle" => at'["fromApp"] = "idle"
             /\ "fromApp" \in C \cup D => at'["fromApp"] = "idle"
  BY <1>0, <1>9 DEF Abandon, channelVars
<1>10. ASSUME NEW C \in SUBSET Channels, NEW D \in SUBSET Channels, Abandon(C, D),
              UNCHANGED responder, outcome' \in {outcome, "error"},
              stream' # "none" => stream # "none" /\ phase' = "returned",
              stream' \in {stream, "aborted"}
       PROVE  ResponseInv'
  BY <1>0, <1>9, <1>10 DEF ResponseInv, OpenResponse, WholeResponse
<1>11. CASE RespondTimeout
  BY <1>0, <1>9, <1>11 DEF RespondTimeout, Joining, ResponseInv, OpenResponse, WholeResponse,
                          Channels
<1>12. CASE JoinFails
  BY <1>10, <1>12 DEF JoinFails, ResponseInv, Channels
<1>13. CASE Finish
  <2>1. Abandon({}, {"toApp"}) /\ UNCHANGED <<responder, outcome>> /\ phase' = "returned"
        /\ stream' = (IF outcome = "ok" THEN "ready" ELSE stream)
    BY <1>13 DEF Finish
  <2>2. CASE outcome = "ok"
    <3>1. /\ got' = got /\ answer' = answer /\ at'["fromApp"] = at["fromApp"]
      BY <1>0, <2>1 DEF Abandon, channelVars
    <3>2. responder = "head" /\ stream = "none"
      BY <1>13, <2>2 DEF Finish, ResponseInv
    <3>3. OpenResponse(<<"start">>)
      BY DEF OpenResponse
    <3>4. QED
      BY <2>1, <2>2, <3>1, <3>2, <3>3 DEF ResponseInv, OpenResponse
  <2>3. CASE outcome # "ok"
    BY <1>10, <2>1, <2>3 DEF Channels
  <2>4. QED
    BY <2>2, <2>3
<1>14. CASE RequestTimeout \/ ClientLeaves
  <2>1. /\ Abandon({}, serverHas) /\ serverHas \in SUBSET Channels
        /\ UNCHANGED <<responder, outcome>> /\ phase' = "returned"
        /\ stream' \in {stream, "aborted"} /\ (stream' # "none" => stream # "none")
    BY <1>14 DEF RequestTimeout, ClientLeaves, Streaming, CommInv, TypeOK
  <2>2. QED
    BY <1>10, <2>1
<1>15. CASE StreamReceive
  BY <1>0, <1>15 DEF StreamReceive, Polled, BeginReceive, channelVars, ResponseInv, OpenResponse,
                     WholeResponse
<1>16. CASE StreamEvent
  <2>1. \/ answer["fromApp"] = "body.more" /\ stream' = "ready" /\ UNCHANGED commVars
        \/ answer["fromApp"] = "body.last" /\ stream' = "last" /\ UNCHANGED commVars
        \/ stream' = "aborted" /\ Abandon({}, {"fromApp"})
    BY <1>16, Zenon DEF StreamEvent
  <2>2. stream = "waiting" /\ at["fromApp"] = "idle" /\ UNCHANGED <<phase, responder, outcome>>
    BY <1>16 DEF StreamEvent, Polled
  <2>3. CASE stream' = "aborted" /\ Abandon({}, {"fromApp"})
    BY <1>10, <2>2, <2>3 DEF Channels, ResponseInv
  <2>4. CASE UNCHANGED commVars
    BY <2>1, <2>2, <2>3, <2>4 DEF commVars, ResponseInv, OpenResponse, WholeResponse
  <2>5. QED
    BY <2>1, <2>3, <2>4
<1>17. CASE StreamTimeout
  BY <1>10, <1>17 DEF StreamTimeout, Polled, Channels, ResponseInv
<1>18. CASE StreamEnds
  BY <1>0, <1>9, <1>18 DEF StreamEnds, Polled, Channels, ResponseInv, OpenResponse, WholeResponse
<1>19. CASE ClientStalls \/ ClientReads \/ UNCHANGED vars
  BY <1>1, <1>19 DEF ClientStalls, ClientReads, vars, commVars, httpVars
<1>20. QED
  BY <1>2, <1>3, <1>4, <1>5, <1>6, <1>7, <1>8, <1>11, <1>12, <1>13, <1>14, <1>15, <1>16,
     <1>17, <1>18, <1>19 DEF HttpNext, Server, Stream, Channels

(* A client that sees the response end regularly has been given a whole     *)
(* response, whatever the application does and however slow it is           *)
(* (http.rs:88-104).                                                        *)
THEOREM CompleteResponsesAreWhole == HttpSpec => []CompleteMeansWhole
<1>1. HttpInit => HttpTypes /\ ResponseInv
  BY ResponseInvInit DEF HttpInit, HttpTypes, Streaming
<1>2. CommInv /\ CallsHeld /\ HttpTypes /\ ResponseInv /\ [HttpNext]_vars
         => HttpTypes' /\ ResponseInv'
  BY HttpTypesStep, ResponseInvStep
<1>3. ResponseInv => CompleteMeansWhole
  BY DEF ResponseInv, CompleteMeansWhole
<1>4. QED
  BY <1>1, <1>2, <1>3, HandlerUsesLink, PTL DEF HttpSpec
-----------------------------------------------------------------------------
(* When the application is refused. *)

(* The server lets go of the channel it receives from only when nothing     *)
(* that comes over it matters any more, and the application is refused only *)
(* after that.                                                              *)
RefusalInv ==
    /\ "fromApp" \notin serverHas \/ "fromApp" \in told => Over
    /\ phase = "join" => outcome = "pending"
    /\ status # "none" \/ stream # "none" => phase = "returned"

(* A response that is over is over for good.                                *)
LEMMA OverStays ==
    ASSUME HttpTypes, RefusalInv, Over, [HttpNext]_vars
    PROVE  Over'
<1>1. CASE Server
  BY <1>1 DEF Server, ReadPart, ReadEnd, ReadFails, ReadSent, Respond, RespondStart, RespondTimeout,
              JoinOk, JoinFails, SendDisconnect, Finish, Joining, RefusalInv, Over
<1>2. CASE Stream
  BY <1>2 DEF Stream, StreamReceive, StreamEvent, StreamTimeout, StreamEnds, Polled, Over
<1>3. CASE RequestTimeout \/ ClientStalls \/ ClientReads \/ ClientLeaves
  BY <1>3 DEF RequestTimeout, ErrorResponse, ClientStalls, ClientReads, ClientLeaves, Polled,
              Streaming, Over
<1>4. CASE UNCHANGED httpVars
  BY <1>4 DEF httpVars, Over
<1>5. QED
  BY <1>1, <1>2, <1>3, <1>4 DEF HttpNext, HandleCall, vars

(* No step refuses the application before its response is over.             *)
LEMMA RefusalInvStep ==
    ASSUME CommInv, HttpTypes, RefusalInv, [HttpNext]_vars
    PROVE  RefusalInv'
<1>1. (phase = "join" => outcome = "pending")'
  BY DEF HttpNext, Server, Stream, HandleCall, ReadPart, ReadEnd, ReadFails, ReadSent, Respond,
         RespondStart, RespondTimeout, JoinOk, JoinFails, SendDisconnect, Finish, StreamReceive,
         StreamEvent, StreamTimeout, StreamEnds, RequestTimeout, ClientStalls, ClientReads,
         ClientLeaves, httpVars, vars, RefusalInv
<1>2. (status # "none" \/ stream # "none" => phase = "returned")'
  <2>1. CASE Stream
    BY <2>1 DEF Stream, StreamReceive, StreamEvent, StreamTimeout, StreamEnds, Polled, RefusalInv
  <2>2. CASE ~Stream
    BY <2>2 DEF HttpNext, Server, HandleCall, ReadPart, ReadEnd, ReadFails, ReadSent, Respond,
           RespondStart, RespondTimeout, JoinOk, JoinFails, SendDisconnect, Finish, Joining,
           RequestTimeout, ClientStalls, ClientReads, ClientLeaves, httpVars, vars, RefusalInv
  <2>3. QED
    BY <2>1, <2>2
<1>3. ASSUME ~Over, "fromApp" \notin serverHas' \/ "fromApp" \in told'
      PROVE  Over'
  <2>0. "fromApp" \in serverHas /\ "fromApp" \notin told
    BY <1>3 DEF RefusalInv
  <2>1. CASE AppStep
    <3>1. serverHas' = serverHas
      BY <2>1, AppFrame
    <3>2. "fromApp" \notin told'
      BY <2>0, <2>1 DEF AppStep, AppSend, AppSendRejected, AppReceive, AppReceiveDisconnect, AppDrops,
                        AppEnds, DeliverResult, Closed, appVars
    <3>3. QED
      BY <1>3, <2>0, <3>1, <3>2
  <2>2. ASSUME told' = told, serverHas \ {"toApp"} \subseteq serverHas'
        PROVE  FALSE
    BY <1>3, <2>0, <2>2
  <2>3. CASE \E c \in Channels : HandleCall(c)
    <3>1. CommInv /\ \E c \in Channels : CallStep(c)
      BY <2>3 DEF HandleCall
    <3>2. UNCHANGED <<told, serverHas>>
      BY <3>1 DEF CallStep, SendAccepted, ReceiveAccepted, ChannelFailed, WaitForCompletion, ReadCached,
                  TakeReceiver, Recheck, AwaitResult, StoreResult, endVars, appVars
    <3>3. QED
      BY <2>2, <3>2
  <2>4. CASE \/ \E more \in BOOLEAN : ReadPart(more)
             \/ ReadEnd \/ ReadSent \/ \E why \in ReaderFailed \ {"refused"} : ReadFails(why)
             \/ Respond \/ RespondStart \/ JoinOk \/ SendDisconnect \/ StreamReceive
             \/ ClientStalls \/ ClientReads \/ UNCHANGED vars
    <3>1. UNCHANGED <<told, serverHas>>
      BY <2>4 DEF ReadPart, ReadEnd, ReadSent, ReadFails, Respond, RespondStart, JoinOk, SendDisconnect,
                  StreamReceive, ClientStalls, ClientReads, BeginSend, BeginReceive, endVars,
                  appVars, commVars, vars
    <3>2. QED
      BY <2>2, <3>1
  <2>5. CASE RespondTimeout \/ Finish
    <3>1. told' = told /\ serverHas \ {"toApp"} \subseteq serverHas'
      BY <2>5 DEF RespondTimeout, Finish, Abandon, appVars
    <3>2. QED
      BY <2>2, <3>1
  <2>6. CASE JoinFails \/ RequestTimeout \/ ClientLeaves
    BY <2>6 DEF JoinFails, RequestTimeout, ErrorResponse, ClientLeaves, Over
  <2>7. CASE StreamTimeout \/ StreamEnds
    BY <2>7 DEF StreamTimeout, StreamEnds, Over
  <2>8. CASE StreamEvent
    <3>1. UNCHANGED commVars \/ stream' = "aborted"
      BY <2>8, Zenon DEF StreamEvent
    <3>2. QED
      BY <2>2, <3>1 DEF commVars, Over
  <2>9. QED
    BY <2>1, <2>3, <2>4, <2>5, <2>6, <2>7, <2>8 DEF HttpNext, Server, Stream
<1>4. QED
  BY <1>1, <1>2, <1>3, OverStays DEF RefusalInv

(* An application is refused only when its response is over, its client is  *)
(* gone or an error has been answered for it, however long it streams past  *)
(* the end of handle() (http.rs:33-44, 88-104).                             *)
THEOREM RefusedIfOver == HttpSpec => []RefusedMeansOver
<1>1. HttpInit => HttpTypes /\ RefusalInv
  BY DEF HttpInit, CommInit, Channels, HttpTypes, Streaming, RefusalInv
<1>2. CommInv /\ HttpTypes /\ RefusalInv /\ [HttpNext]_vars => HttpTypes' /\ RefusalInv'
  BY HttpTypesStep, RefusalInvStep
<1>3. RefusalInv => RefusedMeansOver
  BY DEF RefusalInv, RefusedMeansOver
<1>4. QED
  BY <1>1, <1>2, <1>3, HandlerUsesLink, PTL DEF HttpSpec
=============================================================================
