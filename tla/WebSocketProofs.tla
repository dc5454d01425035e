--------------------------- MODULE WebSocketProofs ---------------------------
(***************************************************************************)
(* Proofs about one WebSocket connection, for every capacity of the         *)
(* channels and every number of frames and events.                          *)
(*                                                                          *)
(* The connection uses the link as User of Communication may                *)
(* (ConnectionUsesLink).  SentInv says what the application has been sent   *)
(* at each step of the handshake and the loop, AcceptInv what it has        *)
(* answered, and ToldInv why a disconnect that was not sent need not be.    *)
(***************************************************************************)
EXTENDS WebSocket, CommunicationProofs, FiniteSetTheorems

(* Every step of the handler is one of the link, or uses its handles as a   *)
(* handler may.                                                             *)
LEMMA WsIsHandler ==
    ASSUME CommInv, [WsNext]_vars
    PROVE  HandlerStep
<1>1. /\ {} \in SUBSET Channels /\ {"fromApp"} \in SUBSET Channels
      /\ Channels \in SUBSET Channels
  BY DEF Channels
<1>2. /\ "connect" \in ServerEvents /\ "receive" \in ServerEvents
      /\ "disconnect" \in ServerEvents
  BY WebSocketAssumption DEF WsReceiveEvents
<1>3. CASE Handshake
  BY <1>1, <1>2, <1>3 DEF Handshake, SendConnect, ConnectSent, Accept, AcceptTimeout,
                          Upgraded, UpgradeFails, Refuse, HandlerStep
<1>4. CASE RequestTimeout \/ \E f \in Frames : FrameWins(f)
  BY <1>1, <1>4 DEF RequestTimeout, FrameWins, Refuse, HandlerStep
<1>5. CASE Protocol
  BY <1>1, <1>2, <1>5 DEF Protocol, Select, AppWins, Forward, Forwarded, DisconnectSent,
                          HandlerStep
<1>6. CASE Writes \/ ClientLeaves
  BY <1>2, <1>6 DEF Writes, Written, WriteFails, SendDisconnect, ClientLeaves, HandlerStep
<1>7. CASE (AppStep /\ UNCHANGED wsVars) \/ \E c \in Channels : WsCall(c)
  BY <1>7 DEF WsCall, HandlerStep
<1>8. CASE UNCHANGED vars
  BY <1>8 DEF vars, HandlerStep
<1>9. QED
  BY <1>3, <1>4, <1>5, <1>6, <1>7, <1>8 DEF WsNext

(* The handshake and the loop use the link as any user may: everything      *)
(* proved of the link holds of a connection.                                *)
THEOREM ConnectionUsesLink == WsSpec => CommSpec /\ []CommInv /\ []CallsHeld
<1>1. WsInit => CommInit
  BY DEF WsInit
<1>2. CommInit => CommInv
  BY InitInv
<1>3. CommInv /\ [WsNext]_vars => [CommNext]_commVars /\ CommInv'
  BY WsIsHandler, HandlerUses
<1>4. QED
  BY <1>1, <1>2, <1>3, CallsAreHeld, PTL DEF WsSpec, CommSpec

(* So the connection and its application get from each other what Link      *)
(* promises, whatever select! drops (websocket.rs:318-321).                 *)
THEOREM ConnectionImplementsLink == WsSpec => ImplementsLink
BY ConnectionUsesLink, LinkImplemented, PTL

-----------------------------------------------------------------------------
(* What the application is sent. *)

(* One connect, then frames. *)
Opened(s) ==
    /\ Len(s) >= 1 /\ s[1] = "connect"
    /\ \A i \in 2 .. Len(s) : s[i] = "receive"

Ordered(s) ==
    \A i \in 1 .. Len(s) :
        /\ s[i] = "connect" <=> i = 1
        /\ s[i] = "disconnect" => i = Len(s)

Steps == {"start", "connect", "accept", "refused", "upgrading", "next", "select",
          "write", "frame", "forward", "close", "closing", "done"}
Quiet == {"accept", "upgrading", "next", "select", "write", "frame", "close"}

(* An event is on its way at three steps only, and what it is follows from  *)
(* the step; none is once the connection is over.                           *)
SentInv ==
    LET s == sent["toApp"]
        sending == at["toApp"] = "channel"
        idle == at["toApp"] = "idle"
    IN
    /\ step \in Steps /\ Ordered(s)
    /\ step = "start" => idle /\ s = <<>>
    /\ step = "connect" => /\ sending => arg = "connect" /\ s = <<>>
                           /\ idle /\ answer["toApp"] = "ok" => Opened(s)
    /\ step \in Quiet => idle /\ Opened(s)
    /\ step = "forward" => Opened(s) /\ (sending => arg = "receive")
    /\ step = "closing" => (sending => arg = "disconnect" /\ Opened(s))
    /\ step \in {"refused", "done"} => idle

(* Which event may follow which. *)
LEMMA EventAppended ==
    ASSUME NEW s \in Seq(ServerEvents), NEW m \in ServerEvents
    PROVE  /\ s = <<>> /\ m = "connect" => Opened(Append(s, m))
           /\ Opened(s) /\ m = "receive" => Opened(Append(s, m))
           /\ Opened(s) /\ m = "disconnect" => Ordered(Append(s, m))
           /\ Opened(s) => Ordered(s)
<1>1. /\ Append(s, m) \in Seq(ServerEvents)
      /\ Len(Append(s, m)) = Len(s) + 1 /\ Len(s) \in Nat
      /\ \A i \in 1 .. Len(s) : Append(s, m)[i] = s[i]
      /\ Append(s, m)[Len(s) + 1] = m
  BY AppendProperties
<1>2. s = <<>> => Len(s) = 0
  OBVIOUS
<1>3. s = <<>> /\ m = "connect" => Opened(Append(s, m))
  BY <1>1, <1>2 DEF Opened
<1>4. Opened(s) /\ m = "receive" => Opened(Append(s, m))
  BY <1>1 DEF Opened
<1>5. Opened(s) /\ m = "disconnect" => Ordered(Append(s, m))
  BY <1>1 DEF Opened, Ordered
<1>6. Opened(s) => Ordered(s)
  BY <1>1 DEF Opened, Ordered
<1>7. QED
  BY <1>3, <1>4, <1>5, <1>6

(* No event has been sent. *)
LEMMA SentInvInit == WsInit => SentInv
BY EmptySeq DEF WsInit, CommInit, SentInv, Ordered, Steps, Quiet, Channels

(* No step breaks the order of the events. *)
LEMMA SentInvStep ==
    ASSUME CommInv, CallsHeld, SentInv, [WsNext]_vars
    PROVE  SentInv'
<1>0. /\ at \in [Channels -> Points] /\ sent["toApp"] \in Seq(ServerEvents)
      /\ answer \in [Channels -> {"none", "ok"} \cup Results \cup AppEvents]
      /\ "toApp" \in Channels /\ "ok" \notin Results
      /\ serverHas \subseteq Channels
  BY DEF CommInv, TypeOK, Histories, Channels, Results
<1>1. ASSUME sent'["toApp"] = sent["toApp"], at'["toApp"] = at["toApp"], arg' = arg,
             answer'["toApp"] = answer["toApp"]
      PROVE  /\ step' = step => SentInv'
             /\ step \in Quiet /\ step' \in Quiet => SentInv'
  BY <1>1 DEF SentInv, Opened, Ordered, Steps, Quiet
<1>2. CASE AppStep /\ UNCHANGED wsVars
  BY <1>1, <1>2, AppFrame DEF wsVars
<1>3. CASE WsCall("toApp")
  <2>0. step' = step
    BY <1>3 DEF WsCall, wsVars
  <2>1. CASE SendAccepted
    <3>1. /\ at["toApp"] = "channel" /\ arg \in ServerEvents
          /\ sent'["toApp"] = Append(sent["toApp"], arg)
          /\ at'["toApp"] = "idle"
      BY <1>0, <2>1, SendAcceptedFacts
    <3>2. step \in {"connect", "forward", "closing"}
      BY <3>1 DEF SentInv, Steps, Quiet
    <3>3. CASE step = "connect"
      <4>1. Opened(sent["toApp"])'
        BY <1>0, <3>1, <3>3, EventAppended DEF SentInv
      <4>2. Ordered(sent["toApp"])'
        BY <4>1 DEF Opened, Ordered
      <4>3. QED
        BY <2>0, <3>1, <3>3, <4>1, <4>2 DEF SentInv, Steps, Quiet
    <3>4. CASE step = "forward"
      <4>1. Opened(sent["toApp"])'
        BY <1>0, <3>1, <3>4, EventAppended DEF SentInv
      <4>2. Ordered(sent["toApp"])'
        BY <4>1 DEF Opened, Ordered
      <4>3. QED
        BY <2>0, <3>1, <3>4, <4>1, <4>2 DEF SentInv, Steps, Quiet
    <3>5. CASE step = "closing"
      <4>1. Ordered(sent["toApp"])'
        BY <1>0, <3>1, <3>5, EventAppended DEF SentInv
      <4>2. QED
        BY <2>0, <3>1, <3>5, <4>1 DEF SentInv, Steps, Quiet
    <3>6. QED
      BY <3>2, <3>3, <3>4, <3>5
  <2>2. CASE ChannelFailed("toApp") \/ WaitForCompletion("toApp")
    <3>1. /\ at["toApp"] # "idle" /\ at'["toApp"] # "channel" /\ sent' = sent
          /\ at'["toApp"] = "idle" => answer'["toApp"] \in Results
      BY <1>0, <2>2, WaitFacts
    <3>2. QED
      BY <1>0, <2>0, <3>1 DEF SentInv, Opened, Ordered, Steps, Quiet
  <2>3. QED
    BY <1>3, <2>1, <2>2 DEF WsCall, CallStep
<1>4. CASE WsCall("fromApp")
  <2>0. step' = step
    BY <1>4 DEF WsCall, wsVars
  <2>1. CASE ReceiveAccepted
    BY <1>0, <1>1, <2>0, <2>1, ReceiveAcceptedFacts
  <2>2. CASE ChannelFailed("fromApp") \/ WaitForCompletion("fromApp")
    BY <1>0, <1>1, <2>0, <2>2, WaitFacts DEF Channels
  <2>3. QED
    BY <1>4, <2>1, <2>2 DEF WsCall, CallStep
<1>5. ASSUME NEW m, BeginSend(m)
      PROVE  /\ sent' = sent /\ arg' = m /\ at'["toApp"] = "channel" /\ at["toApp"] = "idle"
  BY <1>0, <1>5 DEF BeginSend, channelVars
<1>6. CASE SendConnect
  BY <1>5, <1>6 DEF SendConnect, SentInv, Ordered, Opened, Steps, Quiet
<1>7. CASE Forward
  BY <1>5, <1>7 DEF Forward, SentInv, Ordered, Opened, Steps, Quiet
<1>8. CASE SendDisconnect
  BY <1>5, <1>8 DEF SendDisconnect, SentInv, Ordered, Opened, Steps, Quiet
<1>9. ASSUME BeginReceive
      PROVE  /\ sent' = sent /\ arg' = arg /\ at'["toApp"] = at["toApp"]
             /\ answer'["toApp"] = answer["toApp"]
  BY <1>0, <1>9 DEF BeginReceive, channelVars
<1>10. CASE Select
  BY <1>1, <1>9, <1>10 DEF Select, Quiet
<1>11. ASSUME Abandon({}, Channels), step' \in {"refused", "done"}
       PROVE  SentInv'
  <2>1. sent' = sent /\ at'["toApp"] = "idle"
    BY <1>0, <1>11 DEF Abandon, channelVars
  <2>2. QED
    BY <1>11, <2>1 DEF SentInv, Ordered, Steps, Quiet
<1>12. CASE ConnectSent
  <2>1. CASE answer["toApp"] = "ok" /\ BeginReceive /\ step' = "accept"
    BY <1>9, <1>12, <2>1 DEF ConnectSent, SentInv, Ordered, Opened, Steps, Quiet
  <2>2. QED
    BY <1>11, <1>12, <2>1 DEF ConnectSent, Refuse
<1>13. CASE Accept \/ AcceptTimeout \/ RequestTimeout \/ UpgradeFails \/ DisconnectSent
  <2>1. CASE step = "accept" /\ step' = "upgrading" /\ UNCHANGED commVars
    BY <1>1, <2>1 DEF commVars, Quiet
  <2>2. QED
    BY <1>11, <1>13, <2>1 DEF Accept, AcceptTimeout, RequestTimeout, UpgradeFails,
                              DisconnectSent, Refuse
<1>14. CASE Upgraded \/ AppWins \/ Written \/ WriteFails
  <2>1. step \in Quiet /\ step' \in Quiet /\ UNCHANGED commVars
    BY <1>14 DEF Upgraded, AppWins, Written, WriteFails, OnAppEvent, OnAppGone, CloseWith, Quiet
  <2>2. QED
    BY <1>1, <2>1 DEF commVars
<1>15. CASE \E f \in Frames : FrameWins(f)
  <2>1. PICK f \in Frames : FrameWins(f)
    BY <1>15
  <2>2. step = "select" /\ step' \in {"frame", "close"}
    BY <2>1 DEF FrameWins, OnFrame, CloseWith, Frames
  <2>3. /\ sent' = sent /\ arg' = arg /\ at'["toApp"] = at["toApp"]
        /\ answer'["toApp"] = answer["toApp"]
    BY <1>0, <2>1 DEF FrameWins, Abandon, channelVars
  <2>4. QED
    BY <1>1, <2>2, <2>3 DEF Quiet
<1>16. CASE Forwarded
  <2>1. step = "forward" /\ at["toApp"] = "idle" /\ UNCHANGED commVars /\ step' \in {"next", "close"}
    BY <1>16 DEF Forwarded, CloseWith
  <2>2. QED
    BY <2>1 DEF commVars, SentInv, Ordered, Opened, Steps, Quiet
<1>17. CASE ClientLeaves \/ UNCHANGED vars
  BY <1>1, <1>17 DEF ClientLeaves, vars, commVars, wsVars
<1>18. QED
  BY <1>2, <1>3, <1>4, <1>6, <1>7, <1>8, <1>10, <1>12, <1>13, <1>14, <1>15, <1>16, <1>17
     DEF WsNext, Handshake, Protocol, Writes, Channels

(* The application is sent one connect, then frames, then at most one       *)
(* disconnect and nothing after it, whichever of a frame, an event, an      *)
(* error and a failed send closes the connection (websocket.rs:193-300).    *)
THEOREM EventsInOrder == WsSpec => []WsEventOrder
<1>1. CommInv /\ CallsHeld /\ SentInv /\ [WsNext]_vars => SentInv'
  BY SentInvStep
<1>2. SentInv => WsEventOrder
  BY DEF SentInv, Ordered, WsEventOrder
<1>3. QED
  BY <1>1, <1>2, SentInvInit, ConnectionUsesLink, PTL DEF WsSpec
-----------------------------------------------------------------------------
(* What the application has answered. *)

(* The first event the application sends is the one the handshake reads.    *)
AcceptInv ==
    /\ step \in Steps
    /\ step \in {"start", "connect"} => at["fromApp"] = "idle" /\ got["fromApp"] = <<>>
    /\ step = "accept" =>
          /\ at["fromApp"] = "channel" => got["fromApp"] = <<>>
          /\ at["fromApp"] = "idle" /\ answer["fromApp"] = "accept"
                => got["fromApp"] = <<"accept">>
    /\ step \in Established \cup {"upgrading", "done"} =>
          got["fromApp"] # <<>> /\ Head(got["fromApp"]) = "accept"

(* What is received first stays first. *)
LEMMA HeadStays ==
    ASSUME NEW s \in Seq(AppEvents), NEW m \in AppEvents
    PROVE  /\ Append(s, m) # <<>>
           /\ s # <<>> => Head(Append(s, m)) = Head(s)
<1>1. /\ Append(s, m) \in Seq(AppEvents)
      /\ Len(Append(s, m)) = Len(s) + 1 /\ Len(s) \in Nat
      /\ \A i \in 1 .. Len(s) : Append(s, m)[i] = s[i]
  BY AppendProperties
<1>2. Append(s, m) # <<>>
  BY <1>1
<1>3. ASSUME s # <<>> PROVE Head(Append(s, m)) = Head(s)
  <2>1. 1 \in 1 .. Len(s)
    BY <1>3, EmptySeq
  <2>2. Append(s, m)[1] = s[1]
    BY <1>1, <2>1
  <2>3. Head(s) = s[1] /\ Head(Append(s, m)) = Append(s, m)[1]
    BY <1>1, <1>2, <1>3
  <2>4. QED
    BY <2>2, <2>3, Zenon
<1>4. QED
  BY <1>2, <1>3

(* The connection has not been accepted. *)
LEMMA AcceptInvInit == WsInit => AcceptInv
BY DEF WsInit, CommInit, AcceptInv, Steps, Established, Channels

(* No step breaks what holds of the acceptance. *)
LEMMA AcceptInvStep ==
    ASSUME CommInv, AcceptInv, [WsNext]_vars
    PROVE  AcceptInv'
<1>0. /\ at \in [Channels -> Points] /\ got["fromApp"] \in Seq(AppEvents)
      /\ answer \in [Channels -> {"none", "ok"} \cup Results \cup AppEvents]
      /\ "fromApp" \in Channels /\ "accept" \notin Results
  BY DEF CommInv, TypeOK, Histories, Channels, Results
<1>1. ASSUME got'["fromApp"] = got["fromApp"], at'["fromApp"] = at["fromApp"],
             answer'["fromApp"] = answer["fromApp"], step' = step
      PROVE  AcceptInv'
  BY <1>1 DEF AcceptInv
<1>2. CASE AppStep /\ UNCHANGED wsVars
  BY <1>1, <1>2, AppFrame DEF wsVars
<1>3. CASE WsCall("fromApp")
  <2>0. step' = step
    BY <1>3 DEF WsCall, wsVars
  <2>1. CASE ReceiveAccepted
    <3>1. at["fromApp"] = "channel"
      BY <2>1, ReceiveAcceptedFacts
    <3>2. PICK m \in AppEvents :
              /\ got'["fromApp"] = Append(got["fromApp"], m)
              /\ at' = [at EXCEPT !["fromApp"] = "idle"]
              /\ answer' = [answer EXCEPT !["fromApp"] = m]
      BY <2>1, ReceiveAcceptedFacts
    <3>3. at'["fromApp"] = "idle" /\ answer'["fromApp"] = m
      BY <1>0, <3>2
    <3>4. Append(<<>>, m) = <<m>>
      OBVIOUS
    <3>5. /\ got'["fromApp"] # <<>>
          /\ got["fromApp"] # <<>> => Head(got'["fromApp"]) = Head(got["fromApp"])
      <4>1. got["fromApp"] \in Seq(AppEvents)
        BY <1>0
      <4>2. /\ Append(got["fromApp"], m) # <<>>
            /\ got["fromApp"] # <<>> => Head(Append(got["fromApp"], m)) = Head(got["fromApp"])
        BY <4>1, HeadStays
      <4>3. QED
        BY <3>2, <4>2, Zenon
    <3>6. step \in Steps /\ step \notin {"start", "connect"}
      BY <3>1 DEF AcceptInv
    <3>7. step = "accept" => got'["fromApp"] = <<answer'["fromApp"]>>
      BY <3>1, <3>2, <3>3, <3>4 DEF AcceptInv
    <3>8. step \in Established \cup {"upgrading", "done"} =>
              got'["fromApp"] # <<>> /\ Head(got'["fromApp"]) = "accept"
      BY <3>5 DEF AcceptInv
    <3>9. step = "accept" /\ answer'["fromApp"] = "accept" => got'["fromApp"] = <<"accept">>
      BY <3>7
    <3>10. at'["fromApp"] # "channel"
      BY <3>3
    <3>11. step' \in Steps /\ step' \notin {"start", "connect"}
      BY <2>0, <3>6
    <3>12. step' = "accept" =>
              /\ at'["fromApp"] = "channel" => got'["fromApp"] = <<>>
              /\ at'["fromApp"] = "idle" /\ answer'["fromApp"] = "accept"
                    => got'["fromApp"] = <<"accept">>
      BY <2>0, <3>9, <3>10
    <3>13. step' \in Established \cup {"upgrading", "done"} =>
              got'["fromApp"] # <<>> /\ Head(got'["fromApp"]) = "accept"
      BY <2>0, <3>8
    <3>14. QED
      BY <3>11, <3>12, <3>13 DEF AcceptInv, Steps, Established
  <2>2. CASE ChannelFailed("fromApp") \/ WaitForCompletion("fromApp")
    <3>1. /\ at["fromApp"] # "idle" /\ at'["fromApp"] # "channel" /\ got' = got
          /\ at'["fromApp"] = "idle" => answer'["fromApp"] \in Results
      BY <1>0, <2>2, WaitFacts
    <3>2. QED
      BY <1>0, <2>0, <3>1 DEF AcceptInv
  <2>3. QED
    BY <1>3, <2>1, <2>2 DEF WsCall, CallStep
<1>4. CASE WsCall("toApp")
  <2>0. step' = step
    BY <1>4 DEF WsCall, wsVars
  <2>1. CASE SendAccepted
    BY <1>0, <1>1, <2>0, <2>1, SendAcceptedFacts
  <2>2. CASE ChannelFailed("toApp") \/ WaitForCompletion("toApp")
    BY <1>0, <1>1, <2>0, <2>2, WaitFacts DEF Channels
  <2>3. QED
    BY <1>4, <2>1, <2>2 DEF WsCall, CallStep
<1>5. ASSUME got' = got, step \in Established \cup {"upgrading"}, step' \in Established \cup {"done"}
      PROVE  AcceptInv'
  BY <1>5 DEF AcceptInv, Established, Steps
<1>6. CASE SendConnect
  BY <1>0, <1>6 DEF SendConnect, BeginSend, channelVars, AcceptInv, Established, Steps
<1>7. ASSUME step' = "refused"
      PROVE  AcceptInv'
  BY <1>7 DEF AcceptInv, Established, Steps
<1>8. CASE ConnectSent
  <2>1. CASE BeginReceive /\ step = "connect" /\ step' = "accept"
    BY <1>0, <2>1 DEF BeginReceive, channelVars, AcceptInv, Established, Steps
  <2>2. QED
    BY <1>7, <1>8, <2>1 DEF ConnectSent, Refuse
<1>9. CASE Accept
  <2>1. CASE /\ step = "accept" /\ at["fromApp"] = "idle" /\ answer["fromApp"] = "accept"
             /\ step' = "upgrading" /\ UNCHANGED commVars
    <3>1. got["fromApp"] = <<"accept">>
      BY <2>1 DEF AcceptInv
    <3>2. got'["fromApp"] # <<>> /\ Head(got'["fromApp"]) = "accept"
      BY <2>1, <3>1 DEF commVars
    <3>3. QED
      BY <2>1, <3>2 DEF AcceptInv, Established, Steps
  <2>2. QED
    BY <1>7, <1>9, <2>1 DEF Accept, Refuse
<1>10. CASE AcceptTimeout \/ RequestTimeout \/ UpgradeFails
  BY <1>7, <1>10 DEF AcceptTimeout, RequestTimeout, UpgradeFails, Refuse
<1>11. CASE Upgraded \/ Select \/ Forward \/ Forwarded
  BY <1>5, <1>11 DEF Upgraded, Select, Forward, Forwarded, BeginReceive, BeginSend, CloseWith,
                     commVars, channelVars, Established
<1>12. CASE Written \/ WriteFails \/ SendDisconnect \/ DisconnectSent
  BY <1>5, <1>12 DEF Written, WriteFails, SendDisconnect, DisconnectSent, BeginSend, Abandon,
                     CloseWith, commVars, channelVars, Established
<1>13. CASE AppWins
  BY <1>5, <1>13 DEF AppWins, OnAppEvent, OnAppGone, CloseWith, commVars, Established
<1>14. CASE \E f \in Frames : FrameWins(f)
  <2>1. PICK f \in Frames : FrameWins(f)
    BY <1>14
  <2>2. step = "select" /\ step' \in {"frame", "close"}
    BY <2>1 DEF FrameWins, OnFrame, CloseWith, Frames
  <2>3. got' = got
    BY <2>1 DEF FrameWins, Abandon, channelVars
  <2>4. QED
    BY <1>5, <2>2, <2>3 DEF Established
<1>15. CASE ClientLeaves \/ UNCHANGED vars
  BY <1>1, <1>15 DEF ClientLeaves, vars, commVars, wsVars
<1>16. QED
  BY <1>2, <1>3, <1>4, <1>6, <1>8, <1>9, <1>10, <1>11, <1>12, <1>13, <1>14, <1>15
     DEF WsNext, Handshake, Protocol, Writes, Channels

(* A client is served only by an application whose first event accepts it   *)
(* (websocket.rs:43-51, 115-125).                                           *)
THEOREM ServedOnlyIfAccepted == WsSpec => []ServedMeansAccepted
<1>1. CommInv /\ AcceptInv /\ [WsNext]_vars => AcceptInv'
  BY AcceptInvStep
<1>2. AcceptInv => ServedMeansAccepted
  BY DEF AcceptInv, ServedMeansAccepted
<1>3. QED
  BY <1>1, <1>2, AcceptInvInit, ConnectionUsesLink, PTL DEF WsSpec

-----------------------------------------------------------------------------
(* What the application is told at the end. *)

(* A disconnect that did not get through could not: the application has     *)
(* dropped its receive, for the server has kept its half.                   *)
ToldInv ==
    LET s == sent["toApp"]
        heard == "toApp" \notin appHas \/ s[Len(s)] = "disconnect"
    IN
    /\ step \notin {"refused", "done"} => "toApp" \in serverHas
    /\ step = "closing" => /\ at["toApp"] \notin {"idle", "channel"} => "toApp" \notin appHas
                           /\ at["toApp"] = "idle" => heard
    /\ step = "done" => heard

(* No step breaks what holds of a close the application is told of. *)
LEMMA ToldInvStep ==
    ASSUME CommInv, SentInv, ToldInv, [WsNext]_vars
    PROVE  ToldInv'
<1>0. /\ at \in [Channels -> Points] /\ sent["toApp"] \in Seq(ServerEvents)
      /\ "toApp" \in Channels
  BY DEF CommInv, TypeOK, Histories, Channels
<1>1. ASSUME sent'["toApp"] = sent["toApp"], at'["toApp"] = at["toApp"], step' = step,
             serverHas' = serverHas, appHas' \subseteq appHas
      PROVE  ToldInv'
  BY <1>1 DEF ToldInv
<1>2. CASE AppStep /\ UNCHANGED wsVars
  BY <1>1, <1>2, AppFrame DEF wsVars
<1>3. CASE WsCall("toApp")
  <2>0. step' = step
    BY <1>3 DEF WsCall, wsVars
  <2>1. CASE SendAccepted
    <3>1. /\ at["toApp"] = "channel" /\ arg \in ServerEvents
          /\ sent'["toApp"] = Append(sent["toApp"], arg)
          /\ at'["toApp"] = "idle" /\ serverHas' = serverHas
      BY <1>0, <2>1, SendAcceptedFacts
    <3>2. sent'["toApp"][Len(sent'["toApp"])] = arg
      BY <1>0, <3>1, AppendProperties
    <3>3. step # "done" /\ (step = "closing" => arg = "disconnect")
      BY <3>1 DEF SentInv
    <3>4. QED
      BY <2>0, <3>1, <3>2, <3>3 DEF ToldInv
  <2>2. CASE ChannelFailed("toApp") \/ WaitForCompletion("toApp")
    <3>1. /\ at["toApp"] # "idle" /\ at'["toApp"] # "channel" /\ UNCHANGED <<sent, appHas, serverHas>>
          /\ at["toApp"] = "channel" => Closed("toApp")
      BY <1>0, <2>2, WaitFacts
    <3>2. step # "done"
      BY <3>1 DEF SentInv
    <3>3. QED
      BY <2>0, <3>1, <3>2 DEF ToldInv, Closed
  <2>3. QED
    BY <1>3, <2>1, <2>2 DEF WsCall, CallStep
<1>4. CASE WsCall("fromApp")
  <2>0. step' = step
    BY <1>4 DEF WsCall, wsVars
  <2>1. CASE ReceiveAccepted
    BY <1>0, <1>1, <2>0, <2>1, ReceiveAcceptedFacts
  <2>2. CASE ChannelFailed("fromApp") \/ WaitForCompletion("fromApp")
    BY <1>0, <1>1, <2>0, <2>2, WaitFacts DEF Channels
  <2>3. QED
    BY <1>4, <2>1, <2>2 DEF WsCall, CallStep
<1>5. ASSUME serverHas' = serverHas, step \notin {"refused", "done"},
             step' \notin {"closing", "done"}
      PROVE  ToldInv'
  BY <1>5 DEF ToldInv
<1>6. ASSUME step' = "refused"
      PROVE  ToldInv'
  BY <1>6 DEF ToldInv
<1>7. CASE SendConnect \/ Upgraded \/ Select \/ Forward \/ Forwarded
  BY <1>5, <1>7 DEF SendConnect, Upgraded, Select, Forward, Forwarded, BeginReceive, BeginSend,
                    CloseWith, commVars, endVars
<1>8. CASE ConnectSent \/ Accept
  BY <1>5, <1>6, <1>8 DEF ConnectSent, Accept, Refuse, BeginReceive, commVars, endVars
<1>9. CASE AcceptTimeout \/ RequestTimeout \/ UpgradeFails
  BY <1>6, <1>9 DEF AcceptTimeout, RequestTimeout, UpgradeFails, Refuse
<1>10. CASE Written \/ WriteFails \/ AppWins
  BY <1>5, <1>10 DEF Written, WriteFails, AppWins, OnAppEvent, OnAppGone, CloseWith, commVars
<1>11. CASE \E f \in Frames : FrameWins(f)
  <2>1. PICK f \in Frames : FrameWins(f)
    BY <1>11
  <2>2. step = "select" /\ step' \in {"frame", "close"}
    BY <2>1 DEF FrameWins, OnFrame, CloseWith, Frames
  <2>3. serverHas' = serverHas
    BY <2>1 DEF FrameWins, Abandon
  <2>4. QED
    BY <1>5, <2>2, <2>3
<1>12. CASE SendDisconnect
  BY <1>0, <1>12 DEF SendDisconnect, BeginSend, channelVars, endVars, ToldInv
<1>13. CASE DisconnectSent
  BY <1>13 DEF DisconnectSent, Abandon, channelVars, ToldInv
<1>14. CASE ClientLeaves \/ UNCHANGED vars
  BY <1>1, <1>14 DEF ClientLeaves, vars, commVars, wsVars
<1>15. QED
  BY <1>2, <1>3, <1>4, <1>7, <1>8, <1>9, <1>10, <1>11, <1>12, <1>13, <1>14
     DEF WsNext, Handshake, Protocol, Writes, Channels

(* However an established connection ended, an application that still       *)
(* listens has been told (websocket.rs:289-300).                            *)
THEOREM ListenersAreTold == WsSpec => []CloseIsTold
<1>1. WsInit => ToldInv
  BY DEF WsInit, CommInit, ToldInv, Channels
<1>2. CommInv /\ CallsHeld /\ SentInv /\ ToldInv /\ [WsNext]_vars => SentInv' /\ ToldInv'
  BY SentInvStep, ToldInvStep
<1>3. ToldInv => CloseIsTold
  BY DEF ToldInv, CloseIsTold
<1>4. QED
  BY <1>1, <1>2, <1>3, SentInvInit, ConnectionUsesLink, PTL DEF WsSpec

-----------------------------------------------------------------------------
(* What the client is written. *)

Sends(s) == Cardinality({i \in 1 .. Len(s) : s[i] = "send"})

(* A message counts as one, and no other event does. *)
LEMMA SendsAppended ==
    ASSUME NEW s \in Seq(AppEvents), NEW m \in AppEvents
    PROVE  /\ Sends(s) \in Nat
           /\ Sends(Append(s, m)) = IF m = "send" THEN Sends(s) + 1 ELSE Sends(s)
<1> DEFINE t == Append(s, m)
           A == {i \in 1 .. Len(s) : s[i] = "send"}
           B == {i \in 1 .. Len(t) : t[i] = "send"}
<1>1. /\ Len(t) = Len(s) + 1 /\ Len(s) \in Nat
      /\ \A i \in 1 .. Len(s) : t[i] = s[i]
      /\ t[Len(s) + 1] = m
  BY AppendProperties
<1>2. IsFiniteSet(1 .. Len(s)) /\ A \in SUBSET (1 .. Len(s))
  BY <1>1, FS_Interval
<1>3. IsFiniteSet(A) /\ Len(s) + 1 \notin A
  BY <1>1, <1>2, FS_Subset
<1>4. Cardinality(A) \in Nat
  BY <1>3, FS_CardinalityType
<1>5. B = IF m = "send" THEN A \cup {Len(s) + 1} ELSE A
  BY <1>1
<1>6. Cardinality(B) = IF m = "send" THEN Cardinality(A) + 1 ELSE Cardinality(A)
  BY <1>3, <1>5, FS_AddElement
<1>7. QED
  BY <1>4, <1>6 DEF Sends

(* Before the first message. *)
LEMMA NoSends ==
    /\ Sends(<<>>) = 0
    /\ Sends(<<"accept">>) = 0
<1>1. {i \in 1 .. Len(<<>>) : <<>>[i] = "send"} = {}
  BY EmptySeq
<1>2. {i \in 1 .. Len(<<"accept">>) : <<"accept">>[i] = "send"} = {}
  OBVIOUS
<1>3. QED
  BY <1>1, <1>2, FS_EmptySet DEF Sends

Before == {"start", "connect", "accept"}
Open   == {"upgrading", "next", "select", "write", "frame", "forward"}

(* The event that has been received and not been written yet. *)
Pending ==
    IF step = "write" \/ (step = "select" /\ at["fromApp"] = "idle" /\ answer["fromApp"] = "send")
    THEN 1 ELSE 0

(* While the connection is open, what was received is written or about to   *)
(* be; a normal close finds everything received, and nothing can follow.    *)
DeliverInv ==
    /\ written \in Nat /\ written <= Sends(got["fromApp"])
    /\ step \notin {"accept", "select"} => at["fromApp"] = "idle"
    /\ step \in Before => written = 0
    /\ step \in Before \cup Open => code = "none" /\ why = "none"
    /\ step \in Open => Sends(got["fromApp"]) = written + Pending
    /\ code = "Normal" /\ why = "Completed" =>
          /\ got["fromApp"] = sent["fromApp"] /\ Closed("fromApp")
          /\ written = Sends(got["fromApp"])

(* No step loses a message. *)
LEMMA DeliverInvStep ==
    ASSUME CommInv, ErrorMeansDrained, AcceptInv, DeliverInv, [WsNext]_vars
    PROVE  DeliverInv'
<1>0. /\ at \in [Channels -> Points] /\ got["fromApp"] \in Seq(AppEvents)
      /\ answer \in [Channels -> {"none", "ok"} \cup Results \cup AppEvents]
      /\ "toApp" \in Channels /\ "fromApp" \in Channels
      /\ "send" \notin Results /\ "send" \in AppEvents
      /\ step \in Before \cup Open \cup {"refused", "close", "closing", "done"}
      /\ Sends(got["fromApp"]) \in Nat
  BY WebSocketAssumption, SendsAppended
     DEF CommInv, TypeOK, Histories, Channels, Results, WsSendEvents, AcceptInv, Steps,
         Before, Open
<1>1. HandlerStep
  BY WsIsHandler
<1>2. ASSUME got'["fromApp"] = got["fromApp"], UNCHANGED <<step, code, why, written>>,
             Closed("fromApp") => sent'["fromApp"] = sent["fromApp"],
             /\ at'["fromApp"] = at["fromApp"]
             /\ answer'["fromApp"] = answer["fromApp"]
      PROVE  DeliverInv'
  <2>1. Closed("fromApp") => Closed("fromApp")'
    BY <1>0, <1>1, ClosedForGood
  <2>2. Pending' = Pending
    BY <1>2 DEF Pending
  <2>3. QED
    BY <1>2, <2>1, <2>2 DEF DeliverInv
<1>3. CASE AppStep /\ UNCHANGED wsVars
  BY <1>0, <1>1, <1>2, <1>3, AppFrame, ClosedForGood DEF wsVars
<1>4. CASE WsCall("toApp")
  <2>1. UNCHANGED wsVars
    BY <1>4 DEF WsCall
  <2>2. CASE SendAccepted
    <3>1. /\ got' = got /\ at'["fromApp"] = at["fromApp"]
          /\ answer'["fromApp"] = answer["fromApp"]
      BY <1>0, <2>2, SendAcceptedFacts
    <3>2. QED
      BY <1>0, <1>1, <1>2, <2>1, <3>1, ClosedForGood DEF wsVars
  <2>3. CASE ChannelFailed("toApp") \/ WaitForCompletion("toApp")
    BY <1>0, <1>2, <2>1, <2>3, WaitFacts DEF Channels, wsVars
  <2>4. QED
    BY <1>4, <2>2, <2>3 DEF WsCall, CallStep
<1>5. CASE WsCall("fromApp")
  <2>0. UNCHANGED wsVars
    BY <1>5 DEF WsCall
  <2>1. CASE ReceiveAccepted
    <3>1. PICK m \in AppEvents :
              /\ at["fromApp"] = "channel" /\ sent' = sent
              /\ got'["fromApp"] = Append(got["fromApp"], m)
              /\ at' = [at EXCEPT !["fromApp"] = "idle"]
              /\ answer' = [answer EXCEPT !["fromApp"] = m]
      BY <2>1, ReceiveAcceptedFacts
    <3>2. at'["fromApp"] = "idle" /\ answer'["fromApp"] = m
      BY <1>0, <3>1
    <3>3. step \in {"accept", "select"} /\ code = "none" /\ written \in Nat
      BY <3>1 DEF DeliverInv, Before, Open
    <3>4. step = "select" => Sends(got'["fromApp"]) = written' + Pending'
      <4>1. step = "select" => Sends(got["fromApp"]) = written
        BY <3>1, <3>3 DEF DeliverInv, Pending, Open
      <4>2. step = "select" => Pending' = IF m = "send" THEN 1 ELSE 0
        BY <2>0, <3>2 DEF Pending, wsVars
      <4>3. QED
        BY <1>0, <2>0, <3>1, <3>3, <4>1, <4>2, SendsAppended DEF wsVars
    <3>5. written' <= Sends(got'["fromApp"])
      BY <1>0, <2>0, <3>1, SendsAppended DEF DeliverInv, wsVars
    <3>6. QED
      BY <2>0, <3>2, <3>3, <3>4, <3>5 DEF DeliverInv, wsVars, Before, Open
  <2>2. CASE ChannelFailed("fromApp") \/ WaitForCompletion("fromApp")
    <3>1. /\ at["fromApp"] # "idle" /\ sent' = sent /\ got' = got
          /\ at'["fromApp"] = "idle" => answer'["fromApp"] \in Results
      BY <1>0, <2>2, WaitFacts
    <3>2. step \in {"accept", "select"} /\ code = "none"
      BY <3>1 DEF DeliverInv, Before, Open
    <3>3. Pending = 0 /\ Pending' = 0
      BY <1>0, <2>0, <3>1, <3>2 DEF Pending, wsVars
    <3>4. QED
      BY <2>0, <3>1, <3>2, <3>3 DEF DeliverInv, wsVars, Before, Open
  <2>3. QED
    BY <1>5, <2>1, <2>2 DEF WsCall, CallStep
(* The steps of the handler. *)
<1>6. ASSUME step \in Before \cup {"upgrading"}, step' = "refused",
             Abandon({}, Channels), UNCHANGED <<code, why, written>>
      PROVE  DeliverInv'
  <2>1. at'["fromApp"] = "idle" /\ got' = got
    BY <1>0, <1>6 DEF Abandon, channelVars
  <2>2. code' = "none" /\ written' \in Nat
    BY <1>6 DEF DeliverInv, Open
  <2>3. QED
    BY <1>6, <2>1, <2>2 DEF DeliverInv, Before, Open
<1>7. CASE SendConnect \/ ConnectSent
  <2>1. CASE Refuse(ErrorResponse("other"))
    BY <1>6, <1>7, <2>1 DEF SendConnect, ConnectSent, Refuse, Before
  <2>2. CASE step' \in {"connect", "accept"}
    <3>1. /\ step \in {"start", "connect"} /\ UNCHANGED <<code, why, written, got>>
          /\ step' = "connect" => at'["fromApp"] = at["fromApp"]
      BY <1>0, <1>7, <2>2 DEF SendConnect, ConnectSent, BeginSend, BeginReceive, Refuse,
                                     channelVars
    <3>2. QED
      BY <2>2, <3>1 DEF DeliverInv, Before, Open
  <2>3. QED
    BY <1>7, <2>1, <2>2 DEF SendConnect, ConnectSent
<1>8. CASE Accept
  <2>1. CASE /\ step = "accept" /\ at["fromApp"] = "idle" /\ answer["fromApp"] = "accept"
             /\ step' = "upgrading" /\ UNCHANGED <<commVars, code, why, written>>
    <3>1. got["fromApp"] = <<"accept">>
      BY <2>1 DEF AcceptInv
    <3>2. Sends(got'["fromApp"]) = 0 /\ Pending' = 0
      BY <2>1, <3>1, NoSends DEF commVars, Pending
    <3>3. QED
      BY <2>1, <3>2 DEF commVars, DeliverInv, Before, Open
  <2>2. QED
    BY <1>6, <1>8, <2>1 DEF Accept, Refuse, Before
<1>9. CASE AcceptTimeout \/ RequestTimeout \/ UpgradeFails
  BY <1>6, <1>9 DEF AcceptTimeout, RequestTimeout, UpgradeFails, Refuse, Before
<1>10. ASSUME step \in Open, step' \in Open, UNCHANGED <<code, why>>, got' = got,
              written' \in Nat, written' + Pending' = written + Pending,
              step' # "select" => at'["fromApp"] = "idle"
       PROVE  DeliverInv'
  <2>1. written + Pending = Sends(got["fromApp"])
    BY <1>10 DEF DeliverInv
  <2>2. code = "none" /\ why = "none"
    BY <1>10 DEF DeliverInv
  <2>3. step' \notin Before /\ step' # "accept"
    BY <1>10 DEF Before, Open
  <2>4. written' + Pending' = Sends(got'["fromApp"]) /\ Pending' \in {0, 1}
    BY <1>10, <2>1 DEF Pending
  <2>5. written' <= Sends(got'["fromApp"])
    BY <1>10, <2>4
  <2>6. QED
    BY <1>10, <2>2, <2>3, <2>4, <2>5 DEF DeliverInv
<1>11. ASSUME step \in Open, step' = "close", at'["fromApp"] = "idle",
              written' = written, got' = got,
              ~(code' = "Normal" /\ why' = "Completed")
       PROVE  DeliverInv'
  BY <1>11 DEF DeliverInv, Before, Open
<1>12. CASE Upgraded \/ Forward
  <2>1. /\ got' = got /\ at'["fromApp"] = at["fromApp"]
        /\ UNCHANGED <<code, why, written>>
        /\ step \in {"upgrading", "frame"} /\ step' \in {"next", "forward"}
    BY <1>0, <1>12 DEF Upgraded, Forward, BeginSend, commVars, channelVars
  <2>2. Pending = 0 /\ Pending' = 0 /\ at["fromApp"] = "idle" /\ written \in Nat
    BY <2>1 DEF Pending, DeliverInv
  <2>3. QED
    BY <1>10, <2>1, <2>2 DEF Open
<1>13. CASE Select
  <2>1. /\ got' = got /\ at'["fromApp"] = "channel" /\ UNCHANGED <<code, why, written>>
        /\ step = "next" /\ step' = "select"
    BY <1>0, <1>13 DEF Select, BeginReceive, channelVars
  <2>2. Pending = 0 /\ Pending' = 0 /\ written \in Nat
    BY <2>1 DEF Pending, DeliverInv
  <2>3. QED
    BY <1>10, <2>1, <2>2 DEF Open
<1>14. CASE \E f \in Frames : FrameWins(f)
  <2>1. PICK f \in Frames : FrameWins(f)
    BY <1>14
  <2>2. /\ step = "select" /\ at["fromApp"] # "idle" /\ got' = got
        /\ at'["fromApp"] = "idle" /\ UNCHANGED <<why, written>>
        /\ \/ step' = "frame" /\ code' = code
           \/ step' = "close"
    BY <1>0, <2>1 DEF FrameWins, Abandon, OnFrame, CloseWith, Frames, channelVars
  <2>3. Pending = 0 /\ (step' = "frame" => Pending' = 0) /\ written \in Nat /\ why = "none"
    BY <2>2 DEF Pending, DeliverInv, Open
  <2>4. QED
    BY <1>10, <1>11, <2>2, <2>3 DEF Open
<1>15. CASE AppWins
  <2>1. /\ step = "select" /\ at["fromApp"] = "idle" /\ UNCHANGED commVars
        /\ written' = written /\ written \in Nat /\ code = "none" /\ why = "none"
    BY <1>15 DEF AppWins, DeliverInv, Open
  <2>2. CASE answer["fromApp"] = "send"
    <3>1. step' = "write" /\ UNCHANGED <<code, why>>
      BY <1>0, <1>15, <2>2 DEF AppWins, OnAppEvent
    <3>2. Pending = 1 /\ Pending' = 1
      BY <2>1, <2>2, <3>1 DEF Pending
    <3>3. QED
      BY <1>10, <2>1, <3>1, <3>2 DEF Open, commVars
  <2>3. CASE answer["fromApp"] \in AppEvents \ {"send"}
    <3>1. step' = "close" /\ why' = why
      BY <1>0, <1>15, <2>3, CommunicationAssumption DEF AppWins, OnAppEvent, CloseWith
    <3>2. QED
      BY <1>11, <2>1, <3>1 DEF Open, commVars
  <2>4. CASE answer["fromApp"] \in Results
    <3>1. /\ step' = "close" /\ why' = answer["fromApp"]
          /\ code' = IF why' = "Completed" THEN "Normal" ELSE "Error"
      BY <1>15, <2>4, CommunicationAssumption DEF AppWins, OnAppGone, CloseWith
    <3>2. Closed("fromApp") /\ got["fromApp"] = sent["fromApp"]
      BY <2>4 DEF CommInv, SeenDrained, Drained, ErrorMeansDrained
    <3>3. Sends(got["fromApp"]) = written
      BY <1>0, <2>1, <2>4 DEF DeliverInv, Pending, Open
    <3>4. QED
      BY <2>1, <3>1, <3>2, <3>3 DEF DeliverInv, Before, Open, commVars, Closed
  <2>5. QED
    BY <1>15, <2>2, <2>3, <2>4 DEF AppWins
<1>16. CASE Forwarded
  <2>1. /\ step = "forward" /\ UNCHANGED commVars /\ written' = written
        /\ at["fromApp"] = "idle" /\ written \in Nat
        /\ \/ step' = "next" /\ UNCHANGED <<code, why>>
           \/ step' = "close" /\ code' = "Error"
    BY <1>16 DEF Forwarded, CloseWith, DeliverInv
  <2>2. Pending = 0 /\ (step' = "next" => Pending' = 0)
    BY <2>1 DEF Pending
  <2>3. QED
    BY <1>10, <1>11, <2>1, <2>2 DEF Open, commVars
<1>17. CASE Written \/ WriteFails
  <2>1. /\ step = "write" /\ UNCHANGED commVars /\ at["fromApp"] = "idle" /\ written \in Nat
        /\ \/ step' = "next" /\ written' = written + 1 /\ UNCHANGED <<code, why>>
           \/ step' = "close" /\ code' = "Error" /\ written' = written
    BY <1>17 DEF Written, WriteFails, CloseWith, DeliverInv
  <2>2. Pending = 1 /\ (step' = "next" => Pending' = 0)
    BY <2>1 DEF Pending
  <2>3. QED
    BY <1>10, <1>11, <2>1, <2>2 DEF Open, commVars
<1>18. CASE SendDisconnect \/ DisconnectSent
  <2>1. /\ step \in {"close", "closing"} /\ step' \in {"closing", "done"}
        /\ UNCHANGED <<code, why, written, sent, got>>
        /\ at'["fromApp"] = "idle"
    BY <1>0, <1>18 DEF SendDisconnect, DisconnectSent, BeginSend, Abandon, channelVars, DeliverInv
  <2>2. Closed("fromApp") => Closed("fromApp")'
    BY <1>0, <1>1, ClosedForGood
  <2>3. QED
    BY <2>1, <2>2 DEF DeliverInv, Before, Open
<1>19. CASE ClientLeaves \/ UNCHANGED vars
  BY <1>2, <1>19 DEF ClientLeaves, vars, commVars, wsVars
<1>20. QED
  BY <1>3, <1>4, <1>5, <1>7, <1>8, <1>9, <1>12, <1>13, <1>14, <1>15, <1>16, <1>17, <1>18, <1>19
     DEF WsNext, Handshake, Protocol, Writes, Channels

(* No message has been received. *)
LEMMA DeliverInvInit == WsInit => DeliverInv
BY NoSends DEF WsInit, CommInit, DeliverInv, Before, Open, Channels

(* When the connection is closed because the application returned, the      *)
(* client has been written everything the application had sent, although    *)
(* every frame of the client cancels a receive() (websocket.rs:148-187).    *)
THEOREM NormalCloseIsComplete == WsSpec => []NormalCloseDeliversAll
<1>1. CommInv /\ ErrorMeansDrained /\ AcceptInv /\ DeliverInv /\ [WsNext]_vars => DeliverInv'
  BY DeliverInvStep
<1>2. CommInv /\ AcceptInv /\ [WsNext]_vars => AcceptInv'
  BY AcceptInvStep
<1>3. DeliverInv => NormalCloseDeliversAll
  BY DEF DeliverInv, NormalCloseDeliversAll, Sends
<1>4. QED
  BY <1>1, <1>2, <1>3, AcceptInvInit, DeliverInvInit, ConnectionUsesLink, NoEventLostToAnError,
     PTL DEF WsSpec

-----------------------------------------------------------------------------
(* What AcceptInv, DeliverInv and the link do not say of the types. *)
TypesInv ==
    /\ status \in {"none", "101", "403", "500", "504"}
    /\ code \in {"none"} \cup Codes
    /\ why \in {"none"} \cup Results
    /\ online \in BOOLEAN
    /\ Len(sent["fromApp"]) <= MaxMessages
    /\ answer["toApp"] \in {"none", "ok"} \cup Results

(* No step breaks the types. *)
LEMMA TypesInvStep ==
    ASSUME CommInv, DeliverInv, TypesInv, [WsNext]_vars
    PROVE  TypesInv'
<1>0. /\ answer["fromApp"] \in {"none", "ok"} \cup Results \cup AppEvents
      /\ sent \in [Channels -> Seq(ServerEvents \cup AppEvents)]
      /\ sent["fromApp"] \in Seq(AppEvents)
      /\ answer \in [Channels -> {"none", "ok"} \cup Results \cup AppEvents]
      /\ MaxMessages \in Nat /\ "toApp" \in Channels /\ "fromApp" \in Channels
  BY CommunicationAssumption DEF CommInv, TypeOK, Histories, Channels
<1> DEFINE Bounded == Len(sent["fromApp"]) <= MaxMessages
           Rest == /\ status \in {"none", "101", "403", "500", "504"}
                   /\ code \in {"none"} \cup Codes
                   /\ why \in {"none"} \cup Results
                   /\ online \in BOOLEAN
<1>1. CASE AppStep /\ UNCHANGED wsVars
  <2>1. ASSUME NEW m \in AppEvents, AppSend(m)
        PROVE  Bounded'
    <3>1. /\ Len(sent["fromApp"]) < MaxMessages
          /\ sent'["fromApp"] = Append(sent["fromApp"], m)
      BY <1>0, <2>1 DEF AppSend, Push, Channels
    <3>2. Len(sent'["fromApp"]) = Len(sent["fromApp"]) + 1 /\ Len(sent["fromApp"]) \in Nat
      BY <1>0, <3>1, AppendProperties
    <3>3. QED
      BY <1>0, <3>1, <3>2
  <2>2. sent' = sent => Bounded'
    BY DEF TypesInv
  <2>3. Bounded'
    BY <1>1, <2>1, <2>2 DEF AppStep, AppSendRejected, AppReceive, AppReceiveDisconnect,
                            AppDrops, AppEnds, DeliverResult, Pop, channelVars
  <2>4. QED
    BY <1>1, <2>3, AppFrame DEF TypesInv, wsVars
<1>2. ASSUME NEW c \in Channels, WsCall(c)
      PROVE  TypesInv'
  <2>1. /\ sent'["fromApp"] = sent["fromApp"]
        /\ answer'["toApp"] \in {"none", "ok"} \cup Results
    <3>1. CASE SendAccepted
      <4>1. sent'["fromApp"] = sent["fromApp"]
        BY <1>0, <3>1 DEF SendAccepted, Push, Channels
      <4>2. QED
        BY <1>0, <3>1, <4>1, SendAcceptedFacts
    <3>2. CASE ReceiveAccepted
      BY <1>0, <3>2, ReceiveAcceptedFacts DEF TypesInv
    <3>3. CASE ChannelFailed(c) \/ WaitForCompletion(c)
      BY <1>0, <3>3, WaitFacts DEF TypesInv, Channels
    <3>4. QED
      BY <1>2, <3>1, <3>2, <3>3 DEF WsCall, CallStep
  <2>2. QED
    BY <1>2, <2>1 DEF TypesInv, WsCall, wsVars
<1>3. ASSUME \/ UNCHANGED commVars \/ BeginReceive
             \/ \E m \in ServerEvents : BeginSend(m)
             \/ \E C, D \in SUBSET Channels : Abandon(C, D)
      PROVE  sent' = sent /\ answer'["toApp"] \in {"none", "ok"} \cup Results
  BY <1>0, <1>3 DEF TypesInv, BeginSend, BeginReceive, Abandon, commVars, channelVars
<1>4. CASE Handshake \/ RequestTimeout
  <2>1. /\ {} \in SUBSET Channels /\ Channels \in SUBSET Channels /\ "connect" \in ServerEvents
    BY WebSocketAssumption DEF WsReceiveEvents
  <2>2. sent' = sent /\ answer'["toApp"] \in {"none", "ok"} \cup Results
    BY <1>3, <1>4, <2>1 DEF Handshake, RequestTimeout, SendConnect, ConnectSent, Accept,
                            AcceptTimeout, Upgraded, UpgradeFails, Refuse
  <2>3. Rest'
    BY <1>4 DEF Handshake, RequestTimeout, SendConnect, ConnectSent, Accept, AcceptTimeout,
                Upgraded, UpgradeFails, Refuse, ErrorResponse, TypesInv
  <2>4. QED
    BY <2>2, <2>3 DEF TypesInv
<1>5. ASSUME NEW f \in Frames, FrameWins(f)
      PROVE  TypesInv'
  <2>1. sent' = sent /\ answer' = answer /\ UNCHANGED <<status, why>> /\ online' \in BOOLEAN
    BY <1>5 DEF FrameWins, OnFrame, Abandon, channelVars
  <2>2. code' \in {"none"} \cup Codes
    BY <1>5 DEF FrameWins, OnFrame, CloseWith, Codes, Frames, TypesInv
  <2>3. QED
    BY <2>1, <2>2 DEF TypesInv
<1>6. CASE Protocol \/ Writes
  <2>1. /\ {} \in SUBSET Channels /\ Channels \in SUBSET Channels
        /\ "receive" \in ServerEvents /\ "disconnect" \in ServerEvents
    BY WebSocketAssumption DEF WsReceiveEvents
  <2>2. sent' = sent /\ answer'["toApp"] \in {"none", "ok"} \cup Results
    BY <1>3, <1>6, <2>1 DEF Protocol, Writes, Select, AppWins, Forward, Forwarded,
                            DisconnectSent, Written, WriteFails, SendDisconnect
  <2>3. UNCHANGED <<status, online>> /\ code' \in {"none"} \cup Codes
    BY <1>6 DEF Protocol, Writes, Select, AppWins, Forward, Forwarded, DisconnectSent, Written,
                WriteFails, SendDisconnect, OnAppEvent, OnAppGone, CloseWith, Codes, TypesInv
  <2>4. why' \in {"none"} \cup Results
    BY <1>6 DEF Protocol, Writes, Select, AppWins, Forward, Forwarded, DisconnectSent, Written,
                WriteFails, SendDisconnect, OnAppEvent, OnAppGone, TypesInv
  <2>5. QED
    BY <2>2, <2>3, <2>4 DEF TypesInv
<1>7. CASE ClientLeaves \/ UNCHANGED vars
  BY <1>7 DEF ClientLeaves, vars, wsVars, commVars, TypesInv
<1>8. QED
  BY <1>1, <1>2, <1>4, <1>5, <1>6, <1>7 DEF WsNext

(* There are n numbers up to n. *)
LEMMA CountUpTo ==
    ASSUME NEW n \in Nat
    PROVE  IsFiniteSet(1 .. n) /\ Cardinality(1 .. n) = n
<1>1. 1 \in Int /\ n \in Int /\ (IF 1 > n THEN 0 ELSE n - 1 + 1) = n
  OBVIOUS
<1>2. /\ IsFiniteSet(1 .. n)
      /\ Cardinality(1 .. n) = IF 1 > n THEN 0 ELSE n - 1 + 1
  BY <1>1, FS_Interval
<1>3. QED
  BY <1>1, <1>2

(* There are no more messages than events. *)
LEMMA SendsOfPrefix ==
    ASSUME NEW g \in Seq(AppEvents), NEW b \in Seq(AppEvents)
    PROVE  /\ Sends(g) \in Nat /\ Sends(g) <= Len(g)
           /\ Len(g) \in Nat /\ Len(g) <= Len(g \o b) /\ Len(g \o b) \in Nat
<1> DEFINE A == {i \in 1 .. Len(g) : g[i] = "send"}
<1>1. Len(g) \in Nat /\ Len(b) \in Nat /\ Len(g \o b) = Len(g) + Len(b)
  BY ConcatProperties, LenProperties
<1>2. IsFiniteSet(1 .. Len(g)) /\ Cardinality(1 .. Len(g)) = Len(g)
  BY <1>1, CountUpTo
<1>3. A \in SUBSET (1 .. Len(g))
  OBVIOUS
<1>4. Cardinality(A) <= Len(g) /\ Cardinality(A) \in Nat
  BY <1>2, <1>3, FS_Subset, FS_CardinalityType
<1>5. QED
  BY <1>1, <1>4 DEF Sends

(* Nothing is written that was not sent. *)
LEMMA WrittenBounded ==
    ASSUME CommInv, DeliverInv, TypesInv
    PROVE  written \in 0 .. MaxMessages
<1>1. /\ got["fromApp"] \in Seq(AppEvents) /\ buf["fromApp"] \in Seq(AppEvents)
      /\ sent["fromApp"] = got["fromApp"] \o buf["fromApp"]
      /\ MaxMessages \in Nat
  BY CommunicationAssumption DEF CommInv, TypeOK, Histories, Lossless, Channels
<1>2. /\ Sends(got["fromApp"]) \in Nat /\ Sends(got["fromApp"]) <= Len(got["fromApp"])
      /\ Len(got["fromApp"]) \in Nat /\ Len(sent["fromApp"]) \in Nat
      /\ Len(got["fromApp"]) <= Len(sent["fromApp"])
  BY <1>1, SendsOfPrefix
<1>3. written \in Nat /\ written <= Sends(got["fromApp"])
  BY DEF DeliverInv
<1>4. Len(sent["fromApp"]) <= MaxMessages
  BY DEF TypesInv
<1>5. ASSUME NEW w \in Nat, NEW n \in Nat, NEW g \in Nat, NEW s \in Nat,
             w <= n, n <= g, g <= s, s <= MaxMessages
      PROVE  w \in 0 .. MaxMessages
  BY <1>1, <1>5
<1>6. QED
  BY <1>2, <1>3, <1>4, <1>5

(* Type correctness of a connection and its link, for every capacity and    *)
(* every number of frames and events.                                       *)
THEOREM WsTypeCorrect == WsSpec => []WsTypeOK
<1>1. WsInit => TypesInv
  <2>1. WsInit => Len(sent["fromApp"]) <= MaxMessages /\ answer["toApp"] = "none"
    BY CommunicationAssumption, EmptySeq DEF WsInit, CommInit, Channels
  <2>2. QED
    BY <2>1 DEF WsInit, TypesInv
<1>2. CommInv /\ DeliverInv /\ TypesInv /\ [WsNext]_vars => TypesInv'
  BY TypesInvStep
<1>3. CommInv /\ ErrorMeansDrained /\ AcceptInv /\ DeliverInv /\ [WsNext]_vars => DeliverInv'
  BY DeliverInvStep
<1>4. CommInv /\ AcceptInv /\ [WsNext]_vars => AcceptInv'
  BY AcceptInvStep
<1>5. CommInv /\ AcceptInv /\ DeliverInv /\ TypesInv => WsTypeOK
  BY WrittenBounded DEF CommInv, AcceptInv, Steps, TypesInv, WsTypeOK
<1>6. QED
  BY <1>1, <1>2, <1>3, <1>4, <1>5, AcceptInvInit, DeliverInvInit, ConnectionUsesLink,
     NoEventLostToAnError, PTL DEF WsSpec
=============================================================================
