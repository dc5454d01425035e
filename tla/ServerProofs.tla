----------------------------- MODULE ServerProofs -----------------------------
(***************************************************************************)
(* Proofs about ArasServer::run and the lifespan protocol, for every        *)
(* capacity of the channels and every number of connections.                *)
(*                                                                          *)
(* The server uses the link as User of Communication may                    *)
(* (ServerUsesLink).  RunInv relates the state of run() to the step of the  *)
(* lifespan handler it is waiting for; HistoryInv says what has been sent   *)
(* and answered at each of those steps; FlightInv, that what allowed a      *)
(* connection stays true while one is open.                                 *)
(***************************************************************************)
EXTENDS ArasServer, CommunicationProofs

(* Every step of the server is one of the link, or uses its handles as a    *)
(* handler may.                                                             *)
LEMMA ServerIsHandler ==
    ASSUME CommInv, [ServerNext]_vars
    PROVE  HandlerStep
<1>1. /\ {} \in SUBSET Channels /\ {"fromApp"} \in SUBSET Channels
      /\ Channels \in SUBSET Channels /\ serverHas \in SUBSET Channels
  BY DEF Channels, CommInv, TypeOK
<1>2. "startup" \in ServerEvents /\ "shutdown" \in ServerEvents
  BY LifespanAssumption DEF LifespanReceiveEvents
<1>3. CASE StartupStep
  BY <1>1, <1>2, <1>3 DEF StartupStep, Startup, SendStartup, StartupSent, StartupAnswered,
                          StartupTimeout, StartupEnds, LifespanCall, HandlerStep
<1>4. CASE ShutdownStep
  BY <1>1, <1>2, <1>4 DEF ShutdownStep, Shutdown, ShutdownSent, ShutdownAnswered,
                          ShutdownTimeout, LifespanCall, HandlerStep
<1>5. CASE StartupReturns \/ Bind \/ BindFails \/ SelectCancelled \/ ShutdownReturns
  BY <1>1, <1>2, <1>5 DEF StartupReturns, Bind, BindFails, SelectCancelled, BeginShutdown,
                          ShutdownReturns, HandlerStep
<1>6. CASE AppStep \/ Cancel \/ Accept \/ ConnectionEnds \/ UNCHANGED vars
  BY <1>6 DEF Cancel, Accept, ConnectionEnds, vars, HandlerStep
<1>7. QED
  BY <1>3, <1>4, <1>5, <1>6 DEF ServerNext, Run

(* run() uses the lifespan link as any user may: everything proved of the   *)
(* link holds of it.                                                        *)
THEOREM ServerUsesLink == ServerSpec => CommSpec /\ []CommInv /\ []CallsHeld
<1>1. ServerInit => CommInit
  BY DEF ServerInit, LifespanInit
<1>2. CommInit => CommInv
  BY InitInv
<1>3. CommInv /\ [ServerNext]_vars => [CommNext]_commVars /\ CommInv'
  BY ServerIsHandler, HandlerUses
<1>4. QED
  BY <1>1, <1>2, <1>3, CallsAreHeld, PTL DEF ServerSpec, CommSpec

(* So the lifespan handler and the application get from each other what Link *)
(* promises, from startup to the end of run() (lifespan.rs:50-108).         *)
THEOREM LifespanImplementsLink == ServerSpec => ImplementsLink
BY ServerUsesLink, LinkImplemented, PTL

-----------------------------------------------------------------------------
(* The state of run() and the step of the handler. *)

RunInv ==
    /\ run \in Runs /\ cancelled \in BOOLEAN
    /\ run = "startup" => step \in {"start", "sendStartup", "awaitStartup", "started", "failed"}
    /\ run \in {"binding", "serving", "panic"} => step = "started"
    /\ run = "shutdown" => step \in {"sendShutdown", "awaitShutdown", "stopped"}
    /\ run = "ok" => step = "stopped" /\ ending = "ok"
    /\ run = "error" => step \in {"failed", "stopped"}
    /\ step \in {"sendShutdown", "awaitShutdown", "stopped"} => cancelled

(* The server has not started. *)
LEMMA RunInvInit == ServerInit => RunInv
BY DEF ServerInit, LifespanInit, RunInv, Runs

(* No step breaks what holds of where run() is. *)
LEMMA RunInvStep ==
    ASSUME RunInv, [ServerNext]_vars
    PROVE  RunInv'
<1>1. CASE StartupStep
  BY <1>1 DEF StartupStep, Startup, SendStartup, StartupSent, StartupAnswered, StartupTimeout,
              StartupEnds, LifespanCall, lifespanVars, serverVars, RunInv, Runs
<1>2. CASE ShutdownStep
  BY <1>2 DEF ShutdownStep, Shutdown, ShutdownSent, ShutdownAnswered, ShutdownTimeout,
              LifespanCall, lifespanVars, serverVars, RunInv, Runs
<1>3. CASE StartupReturns \/ Bind \/ BindFails \/ ShutdownReturns
  BY <1>3 DEF StartupReturns, Bind, BindFails, ShutdownReturns, lifespanVars, RunInv, Runs
<1>4. CASE SelectCancelled
  BY <1>4 DEF SelectCancelled, BeginShutdown, RunInv, Runs
<1>5. CASE (AppStep /\ UNCHANGED <<lifespanVars, serverVars>>)
           \/ Cancel \/ Accept \/ ConnectionEnds \/ UNCHANGED vars
  BY <1>5 DEF Cancel, Accept, ConnectionEnds, vars, lifespanVars, serverVars, RunInv, Runs
<1>6. QED
  BY <1>1, <1>2, <1>3, <1>4, <1>5 DEF ServerNext, Run

-----------------------------------------------------------------------------
(* What the application has been sent, and what it has answered. *)

SC  == <<"startup.complete">>
SU  == <<"startup">>
SSh == <<"startup", "shutdown">>

Idle(c) == at[c] = "idle"

(* Why the server may serve: the application has answered, cannot be        *)
(* reached, or has returned without a word.                                 *)
MayServe ==
    \/ enabled /\ got["fromApp"] = SC /\ sent["toApp"] = SU
    \/ ~enabled /\ got["fromApp"] = <<>> /\ Closed("toApp")
    \/ ~enabled /\ sent["fromApp"] = <<>> /\ Closed("fromApp") /\ app = "Completed"

StartInv ==
    step = "start" =>
        ~enabled /\ Idle("toApp") /\ Idle("fromApp")
        /\ sent["toApp"] = <<>> /\ got["fromApp"] = <<>>

SendStartupInv ==
    step = "sendStartup" =>
        /\ ~enabled /\ Idle("fromApp") /\ got["fromApp"] = <<>>
        /\ at["toApp"] = "channel" => arg = "startup" /\ sent["toApp"] = <<>>
        /\ sent["toApp"] \in {<<>>, SU}
        /\ Idle("toApp") /\ answer["toApp"] = "ok" => sent["toApp"] = SU
        /\ at["toApp"] # "channel" /\ ~(Idle("toApp") /\ answer["toApp"] = "ok")
              => Closed("toApp")

AwaitStartupInv ==
    step = "awaitStartup" =>
        /\ ~enabled /\ Idle("toApp") /\ sent["toApp"] = SU
        /\ ~Idle("fromApp") => got["fromApp"] = <<>>
        /\ Idle("fromApp") => \/ /\ answer["fromApp"] \in AppEvents
                                 /\ got["fromApp"] = <<answer["fromApp"]>>
                              \/ answer["fromApp"] \in Results /\ got["fromApp"] = <<>>

StartedInv ==
    step = "started" =>
        /\ Idle("toApp") /\ Idle("fromApp") /\ sent["toApp"] \in {<<>>, SU}
        /\ MayServe

SendShutdownInv ==
    step = "sendShutdown" =>
        /\ enabled /\ Idle("fromApp") /\ got["fromApp"] = SC
        /\ at["toApp"] = "channel" => arg = "shutdown" /\ sent["toApp"] = SU
        /\ sent["toApp"] \in {SU, SSh}

AwaitShutdownInv ==
    step = "awaitShutdown" =>
        /\ enabled /\ Idle("toApp") /\ sent["toApp"] \in {SU, SSh}
        /\ ~Idle("fromApp") => got["fromApp"] = SC
        /\ Idle("fromApp") => \/ /\ answer["fromApp"] \in AppEvents
                                 /\ got["fromApp"] = <<"startup.complete", answer["fromApp"]>>
                              \/ answer["fromApp"] \in Results /\ got["fromApp"] = SC

OverInv ==
    step \in {"failed", "stopped"} =>
        /\ Idle("toApp") /\ Idle("fromApp") /\ sent["toApp"] \in {<<>>, SU, SSh}
        /\ sent["toApp"] = SSh =>
              step = "stopped" /\ got["fromApp"] # <<>> /\ Head(got["fromApp"]) = "startup.complete"
        /\ step = "stopped" /\ ending = "ok" /\ enabled =>
              got["fromApp"] = <<"startup.complete", "shutdown.complete">>

HistoryInv ==
    /\ StartInv /\ SendStartupInv /\ AwaitStartupInv /\ StartedInv
    /\ SendShutdownInv /\ AwaitShutdownInv /\ OverInv

(* Nothing has been sent or received. *)
LEMMA HistoryInvInit == ServerInit => HistoryInv
BY DEF ServerInit, LifespanInit, CommInit, HistoryInv, StartInv, SendStartupInv, AwaitStartupInv,
       StartedInv, SendShutdownInv, AwaitShutdownInv, OverInv, Idle, Channels

(* The first event. *)
LEMMA AppendToNone ==
    ASSUME NEW S, NEW m \in S
    PROVE  Append(<<>>, m) = <<m>>
<1>1. Append(<<>>, m) \in Seq(S) /\ Len(Append(<<>>, m)) = 1 /\ Append(<<>>, m)[1] = m
  BY EmptySeq, AppendProperties
<1>2. <<m>> \in Seq(S) /\ Len(<<m>>) = 1 /\ <<m>>[1] = m
  OBVIOUS
<1>3. QED
  BY <1>1, <1>2, SeqEqual

(* The second event. *)
LEMMA AppendToOne ==
    ASSUME NEW S, NEW k \in S, NEW m \in S
    PROVE  Append(<<k>>, m) = <<k, m>>
<1>1. <<k>> \in Seq(S) /\ Len(<<k>>) = 1 /\ <<k>>[1] = k
  OBVIOUS
<1>2. /\ Append(<<k>>, m) \in Seq(S) /\ Len(Append(<<k>>, m)) = 2
      /\ Append(<<k>>, m)[1] = k /\ Append(<<k>>, m)[2] = m
  BY <1>1, AppendProperties
<1>3. /\ <<k, m>> \in Seq(S) /\ Len(<<k, m>>) = 2
      /\ <<k, m>>[1] = k /\ <<k, m>>[2] = m
  OBVIOUS
<1>4. \A i \in 1 .. 2 : Append(<<k>>, m)[i] = <<k, m>>[i]
  BY <1>2, <1>3
<1>5. QED
  BY <1>2, <1>3, <1>4, SeqEqual

(* Events are told apart by their sequences. *)
LEMMA EventSequences ==
    /\ SU # <<>> /\ SC # <<>> /\ SSh # SU /\ SSh # <<>>
    /\ Head(SC) = "startup.complete"
    /\ \A m \in AppEvents :
          /\ Append(<<>>, m) = <<m>>
          /\ Append(SC, m) = <<"startup.complete", m>>
          /\ <<"startup.complete", m>> # <<>>
          /\ Head(<<"startup.complete", m>>) = "startup.complete"
    /\ Append(<<>>, "startup") = SU /\ Append(SU, "shutdown") = SSh
    /\ Len(<<>>) = 0 /\ Len(SU) = 1 /\ Len(SSh) = 2
<1>1. SU # <<>> /\ SC # <<>> /\ SSh # <<>>
  BY DEF SU, SC, SSh
<1>2. Len(<<>>) = 0 /\ Len(SU) = 1 /\ Len(SSh) = 2
  BY DEF SU, SSh
<1>3. SSh # SU
  BY <1>2
<1>4. Head(SC) = "startup.complete"
  BY DEF SC
<1>5. ASSUME NEW m \in AppEvents
      PROVE  /\ Append(<<>>, m) = <<m>>
             /\ Append(SC, m) = <<"startup.complete", m>>
             /\ <<"startup.complete", m>> # <<>>
             /\ Head(<<"startup.complete", m>>) = "startup.complete"
  <2>1. "startup.complete" \in AppEvents
    BY LifespanAssumption DEF LifespanSendEvents
  <2>2. Append(SC, m) = <<"startup.complete", m>>
    BY <2>1, AppendToOne DEF SC
  <2>3. <<"startup.complete", m>> # <<>>
    OBVIOUS
  <2>4. Head(<<"startup.complete", m>>) = "startup.complete"
    OBVIOUS
  <2>5. QED
    BY <2>2, <2>3, <2>4, AppendToNone
<1>6. Append(<<>>, "startup") = SU
  BY AppendToNone DEF SU
<1>7. Append(SU, "shutdown") = SSh
  <2>1. "startup" \in ServerEvents /\ "shutdown" \in ServerEvents
    BY LifespanAssumption DEF LifespanReceiveEvents
  <2>2. QED
    BY <2>1, AppendToOne DEF SU, SSh
<1>8. QED
  BY <1>1, <1>2, <1>3, <1>4, <1>5, <1>6, <1>7

(* No step breaks what holds of the events exchanged, at any place of       *)
(* run().                                                                   *)
LEMMA HistoryInvStep ==
    ASSUME CommInv, ErrorMeansDrained, TruthfulResults, RunInv, HistoryInv, [ServerNext]_vars
    PROVE  HistoryInv'
<1>0. /\ at \in [Channels -> Points]
      /\ got["fromApp"] \in Seq(AppEvents) /\ sent["toApp"] \in Seq(ServerEvents)
      /\ answer \in [Channels -> {"none", "ok"} \cup Results \cup AppEvents]
      /\ "fromApp" \in Channels /\ "toApp" \in Channels
      /\ "ok" \notin Results /\ AppEvents \cap (Results \cup {"ok"}) = {}
  BY CommunicationAssumption DEF CommInv, TypeOK, Histories, Channels, Results
<1>1. HandlerStep
  BY ServerIsHandler
<1>2. ASSUME app' = app \/ app = "running", sent'["toApp"] = sent["toApp"],
             got'["fromApp"] = got["fromApp"], UNCHANGED <<at, arg, answer, lifespanVars>>
      PROVE  HistoryInv'
  <2>1. MayServe => MayServe'
    BY <1>0, <1>1, <1>2, ClosedForGood DEF MayServe, lifespanVars
  <2>2. StartInv'
    BY <1>2 DEF HistoryInv, StartInv, Idle, lifespanVars
  <2>3. Closed("toApp") => Closed("toApp")'
    BY <1>0, <1>1, ClosedForGood
  <2>4. SendStartupInv'
    BY <1>2, <2>3 DEF HistoryInv, SendStartupInv, Idle, lifespanVars
  <2>5. AwaitStartupInv' /\ StartedInv'
    BY <1>2, <2>1 DEF HistoryInv, AwaitStartupInv, StartedInv, Idle, lifespanVars
  <2>6. SendShutdownInv' /\ AwaitShutdownInv' /\ OverInv'
    BY <1>2 DEF HistoryInv, SendShutdownInv, AwaitShutdownInv, OverInv, Idle, lifespanVars
  <2>7. QED
    BY <2>2, <2>4, <2>5, <2>6 DEF HistoryInv
<1>3. CASE (AppStep /\ UNCHANGED <<lifespanVars, serverVars>>) \/ Cancel \/ Accept
           \/ ConnectionEnds \/ Bind \/ StartupReturns \/ UNCHANGED vars
  <2>1. AppStep => app' = app \/ app = "running"
    BY DEF AppStep, AppSend, AppSendRejected, AppReceive, AppReceiveDisconnect,
           AppDrops, AppEnds, DeliverResult, appVars
  <2>2. AppStep => /\ UNCHANGED <<at, arg, answer>>
                   /\ sent'["toApp"] = sent["toApp"] /\ got'["fromApp"] = got["fromApp"]
    BY AppFrame
  <2>3. QED
    BY <1>2, <1>3, <2>1, <2>2 DEF Cancel, Accept, ConnectionEnds, Bind, StartupReturns,
                                  vars, commVars
<1>4. ASSUME step' # "start", step' # "sendStartup"
      PROVE  StartInv' /\ SendStartupInv'
  BY <1>4 DEF StartInv, SendStartupInv
<1>5. ASSUME step' # "sendShutdown", step' # "awaitShutdown"
      PROVE  SendShutdownInv' /\ AwaitShutdownInv'
  BY <1>5 DEF SendShutdownInv, AwaitShutdownInv
<1>6. ASSUME LifespanCall("toApp")
      PROVE  HistoryInv'
  <2>0. step' = step /\ enabled' = enabled /\ ending' = ending /\ ~Idle("toApp")
    BY <1>0, <1>6, SendAcceptedFacts, WaitFacts
       DEF LifespanCall, lifespanVars, CallStep, Idle
  <2>1. step \notin {"start", "awaitStartup", "started", "awaitShutdown", "failed", "stopped"}
    BY <2>0 DEF HistoryInv, StartInv, AwaitStartupInv, StartedInv, AwaitShutdownInv, OverInv
  <2>2. StartInv' /\ AwaitStartupInv' /\ StartedInv' /\ AwaitShutdownInv' /\ OverInv'
    BY <2>0, <2>1 DEF StartInv, AwaitStartupInv, StartedInv, AwaitShutdownInv, OverInv
  <2>3. CASE SendAccepted
    <3>1. /\ at["toApp"] = "channel" /\ got' = got
          /\ sent'["toApp"] = Append(sent["toApp"], arg)
          /\ at'["toApp"] = "idle" /\ at'["fromApp"] = at["fromApp"]
          /\ answer'["toApp"] = "ok"
      BY <1>0, <2>3, SendAcceptedFacts
    <3>2. SendStartupInv'
      BY <2>0, <3>1, EventSequences DEF HistoryInv, SendStartupInv, Idle
    <3>3. SendShutdownInv'
      BY <2>0, <3>1, EventSequences DEF HistoryInv, SendShutdownInv, Idle
    <3>4. QED
      BY <2>2, <3>2, <3>3 DEF HistoryInv
  <2>4. CASE ChannelFailed("toApp") \/ WaitForCompletion("toApp")
    <3>1. /\ at'["toApp"] # "channel" /\ sent' = sent /\ got' = got
          /\ at'["toApp"] = "idle" => answer'["toApp"] \in Results
          /\ at'["fromApp"] = at["fromApp"]
          /\ at["toApp"] = "channel" => Closed("toApp")
      BY <1>0, <2>4, WaitFacts
    <3>2. step = "sendStartup" => Closed("toApp")'
      BY <1>0, <1>1, <2>0, <3>1, ClosedForGood DEF HistoryInv, SendStartupInv
    <3>3. SendStartupInv'
      BY <1>0, <2>0, <3>1, <3>2 DEF HistoryInv, SendStartupInv, Idle
    <3>4. SendShutdownInv'
      BY <2>0, <3>1 DEF HistoryInv, SendShutdownInv, Idle
    <3>5. QED
      BY <2>2, <3>3, <3>4 DEF HistoryInv
  <2>5. QED
    BY <1>6, <2>3, <2>4 DEF LifespanCall, CallStep
<1>7. ASSUME LifespanCall("fromApp")
      PROVE  HistoryInv'
  <2>0. step' = step /\ enabled' = enabled /\ ending' = ending /\ ~Idle("fromApp")
    BY <1>0, <1>7, ReceiveAcceptedFacts, WaitFacts
       DEF LifespanCall, lifespanVars, CallStep, Idle
  <2>1. step \notin {"start", "sendStartup", "started", "sendShutdown", "failed", "stopped"}
    BY <2>0 DEF HistoryInv, StartInv, SendStartupInv, StartedInv, SendShutdownInv, OverInv
  <2>2. StartInv' /\ SendStartupInv' /\ StartedInv' /\ SendShutdownInv' /\ OverInv'
    BY <2>0, <2>1 DEF StartInv, SendStartupInv, StartedInv, SendShutdownInv, OverInv
  <2>3. CASE ReceiveAccepted
    <3>1. PICK m \in AppEvents :
              /\ got'["fromApp"] = Append(got["fromApp"], m) /\ sent' = sent
              /\ at' = [at EXCEPT !["fromApp"] = "idle"]
              /\ answer' = [answer EXCEPT !["fromApp"] = m]
      BY <2>3, ReceiveAcceptedFacts
    <3>2. /\ at'["fromApp"] = "idle" /\ at'["toApp"] = at["toApp"]
          /\ answer'["fromApp"] = m
      BY <1>0, <3>1
    <3>3. /\ Append(<<>>, m) = <<m>>
          /\ Append(SC, m) = <<"startup.complete", m>>
      BY EventSequences
    <3>4. AwaitStartupInv'
      BY <2>0, <3>1, <3>2, <3>3 DEF HistoryInv, AwaitStartupInv, Idle
    <3>5. AwaitShutdownInv'
      BY <2>0, <3>1, <3>2, <3>3 DEF HistoryInv, AwaitShutdownInv, Idle
    <3>6. QED
      BY <2>2, <3>4, <3>5 DEF HistoryInv
  <2>4. CASE ChannelFailed("fromApp") \/ WaitForCompletion("fromApp")
    <3>1. /\ sent' = sent /\ got' = got /\ at'["toApp"] = at["toApp"]
          /\ at'["fromApp"] = "idle" => answer'["fromApp"] \in Results
      BY <1>0, <2>4, WaitFacts
    <3>2. AwaitStartupInv'
      BY <2>0, <3>1 DEF HistoryInv, AwaitStartupInv, Idle
    <3>3. AwaitShutdownInv'
      BY <2>0, <3>1 DEF HistoryInv, AwaitShutdownInv, Idle
    <3>4. QED
      BY <2>2, <3>2, <3>3 DEF HistoryInv
  <2>5. QED
    BY <1>7, <2>3, <2>4 DEF LifespanCall, CallStep
<1>8. ASSUME NEW C \in SUBSET Channels, NEW D, Abandon(C, D)
      PROVE  /\ sent' = sent /\ got' = got /\ answer' = answer
             /\ \A c \in Channels : (c \in C \cup D \/ Idle(c)) => Idle(c)'
             /\ \A c \in Channels : Idle(c) => Idle(c)'
  BY <1>0, <1>8 DEF Abandon, channelVars, Idle
<1>9. ASSUME NEW f, step = "awaitStartup", StartupEnds(f)
      PROVE  HistoryInv'
  <2>1. /\ sent'["toApp"] = SU /\ Idle("toApp")' /\ Idle("fromApp")' /\ step' = "failed"
    BY <1>0, <1>8, <1>9 DEF StartupEnds, HistoryInv, AwaitStartupInv, Channels
  <2>2. OverInv' /\ AwaitStartupInv' /\ StartedInv'
    BY <2>1, EventSequences DEF OverInv, AwaitStartupInv, StartedInv
  <2>3. QED
    BY <1>4, <1>5, <2>1, <2>2 DEF HistoryInv
<1>10. CASE StartupStep
  <2>1. CASE SendStartup
    <3>1. /\ step' = "sendStartup" /\ enabled' = FALSE /\ sent' = sent /\ got' = got
          /\ at'["toApp"] = "channel" /\ arg' = "startup"
          /\ at'["fromApp"] = "idle" /\ sent["toApp"] = <<>> /\ got["fromApp"] = <<>>
      BY <1>0, <2>1 DEF SendStartup, BeginSend, HistoryInv, StartInv, Idle, channelVars
    <3>2. QED
      BY <3>1, <1>5 DEF HistoryInv, StartInv, SendStartupInv, AwaitStartupInv, StartedInv,
                        OverInv, Idle
  <2>2. CASE StartupSent /\ answer["toApp"] = "ok"
    <3>1. /\ step' = "awaitStartup" /\ ~enabled' /\ sent' = sent /\ got' = got
          /\ at'["toApp"] = "idle" /\ at'["fromApp"] = "channel"
          /\ sent["toApp"] = SU /\ got["fromApp"] = <<>>
      BY <1>0, <2>2 DEF StartupSent, BeginReceive, HistoryInv, SendStartupInv, Idle, channelVars
    <3>2. QED
      BY <3>1, <1>4, <1>5 DEF HistoryInv, AwaitStartupInv, StartedInv, OverInv, Idle
  <2>3. CASE StartupSent /\ answer["toApp"] # "ok"
    <3>1. /\ step' = "started" /\ ~enabled' /\ UNCHANGED commVars
          /\ Idle("toApp") /\ Idle("fromApp")
          /\ sent["toApp"] \in {<<>>, SU} /\ got["fromApp"] = <<>> /\ Closed("toApp")
      BY <2>3 DEF StartupSent, HistoryInv, SendStartupInv, Idle
    <3>2. StartedInv'
      BY <3>1 DEF StartedInv, MayServe, Idle, Closed, commVars
    <3>3. QED
      BY <3>1, <3>2, <1>4, <1>5 DEF HistoryInv, AwaitStartupInv, OverInv
  <2>4. CASE StartupAnswered
    <3>0. step = "awaitStartup" /\ Idle("fromApp") /\ Idle("toApp") /\ sent["toApp"] = SU /\ ~enabled
      BY <2>4 DEF StartupAnswered, HistoryInv, AwaitStartupInv, Idle
    <3>1. CASE answer["fromApp"] = "startup.complete"
      <4>1. step' = "started" /\ enabled' = TRUE /\ UNCHANGED commVars
        BY <2>4, <3>1 DEF StartupAnswered
      <4>2. "startup.complete" \notin Results
        BY DEF Results
      <4>3. got["fromApp"] = SC
        BY <3>0, <3>1, <4>2 DEF HistoryInv, AwaitStartupInv, SC
      <4>4. StartedInv'
        BY <3>0, <4>1, <4>3 DEF StartedInv, MayServe, Idle, commVars
      <4>5. QED
        BY <4>1, <4>4, <1>4, <1>5 DEF HistoryInv, AwaitStartupInv, OverInv
    <3>2. CASE answer["fromApp"] = "Completed"
      <4>1. step' = "started" /\ enabled' = enabled /\ UNCHANGED commVars
        BY <2>4, <3>2 DEF StartupAnswered
      <4>2. "Completed" \in Results
        BY DEF Results
      <4>3. sent["fromApp"] = <<>>
        BY <1>0, <3>0, <3>2, <4>2 DEF HistoryInv, AwaitStartupInv, ErrorMeansDrained
      <4>4. Closed("fromApp") /\ app = "Completed"
        BY <1>0, <3>2, <4>2 DEF CommInv, SeenDrained, Drained, TruthfulResults
      <4>5. StartedInv'
        BY <3>0, <4>1, <4>3, <4>4 DEF StartedInv, MayServe, Idle, Closed, commVars
      <4>6. QED
        BY <4>1, <4>5, <1>4, <1>5 DEF HistoryInv, AwaitStartupInv, OverInv
    <3>3. CASE answer["fromApp"] \notin {"startup.complete", "Completed"}
      BY <1>9, <2>4, <3>0, <3>3 DEF StartupAnswered
    <3>4. QED
      BY <3>1, <3>2, <3>3
  <2>5. CASE StartupTimeout
    BY <1>9, <2>5 DEF StartupTimeout
  <2>6. QED
    BY <1>6, <1>7, <1>10, <2>1, <2>2, <2>3, <2>4, <2>5 DEF StartupStep, Startup, Channels
<1>11. CASE BindFails
  <2>1. step = "started" /\ UNCHANGED <<step, enabled, ending>>
    BY <1>11 DEF BindFails, RunInv, lifespanVars
  <2>2. /\ sent' = sent /\ got' = got /\ app' = app /\ appHas' = appHas
        /\ serverHas' \subseteq serverHas
        /\ (Idle("toApp") => Idle("toApp")') /\ (Idle("fromApp") => Idle("fromApp")')
    BY <1>0, <1>11 DEF BindFails, Abandon, Idle, channelVars, appVars
  <2>3. StartedInv'
    BY <2>1, <2>2 DEF HistoryInv, StartedInv, MayServe, Closed
  <2>4. QED
    BY <2>1, <2>3, <1>4, <1>5 DEF HistoryInv, AwaitStartupInv, OverInv
<1>12. CASE SelectCancelled
  <2>1. /\ step = "started" /\ Idle("toApp") /\ Idle("fromApp")
        /\ sent["toApp"] \in {<<>>, SU} /\ MayServe /\ enabled' = enabled
    BY <1>12 DEF SelectCancelled, BeginShutdown, HistoryInv, StartedInv
  <2>2. CASE enabled
    <3>1. /\ BeginSend("shutdown") /\ step' = "sendShutdown"
          /\ got["fromApp"] = SC /\ sent["toApp"] = SU
      BY <1>12, <2>1, <2>2 DEF SelectCancelled, BeginShutdown, MayServe
    <3>2. /\ sent' = sent /\ got' = got /\ arg' = "shutdown"
          /\ at'["toApp"] = "channel" /\ at'["fromApp"] = "idle"
      BY <1>0, <2>1, <3>1 DEF BeginSend, Idle, channelVars
    <3>3. SendShutdownInv'
      BY <2>1, <2>2, <3>1, <3>2 DEF SendShutdownInv, Idle
    <3>4. QED
      BY <3>1, <3>3, <1>4 DEF HistoryInv, AwaitStartupInv, StartedInv, AwaitShutdownInv, OverInv
  <2>3. CASE ~enabled
    <3>1. UNCHANGED commVars /\ step' = "stopped"
      BY <1>12, <2>3 DEF SelectCancelled, BeginShutdown
    <3>2. OverInv'
      BY <2>1, <2>3, <3>1, EventSequences DEF OverInv, Idle, commVars
    <3>3. QED
      BY <3>1, <3>2, <1>4, <1>5 DEF HistoryInv, AwaitStartupInv, StartedInv
  <2>4. QED
    BY <2>2, <2>3
<1>13. CASE ShutdownStep
  <2>1. CASE ShutdownSent
    <3>1. /\ step = "sendShutdown" /\ Idle("toApp") /\ Idle("fromApp") /\ enabled' = enabled
          /\ got["fromApp"] = SC /\ sent["toApp"] \in {SU, SSh} /\ enabled
      BY <2>1 DEF ShutdownSent, HistoryInv, SendShutdownInv, Idle
    <3>2. CASE answer["toApp"] = "ok"
      <4>1. /\ step' = "awaitShutdown" /\ sent' = sent /\ got' = got
            /\ at'["toApp"] = "idle" /\ at'["fromApp"] = "channel"
        BY <1>0, <2>1, <3>1, <3>2 DEF ShutdownSent, BeginReceive, Idle, channelVars
      <4>2. AwaitShutdownInv'
        BY <3>1, <4>1 DEF AwaitShutdownInv, Idle
      <4>3. QED
        BY <4>1, <4>2, <1>4 DEF HistoryInv, AwaitStartupInv, StartedInv, SendShutdownInv, OverInv
    <3>3. CASE answer["toApp"] # "ok"
      <4>1. UNCHANGED commVars /\ step' = "stopped" /\ ending' = answer["toApp"]
        BY <2>1, <3>3 DEF ShutdownSent
      <4>2. answer["toApp"] # "ok"
        BY <3>3
      <4>3. OverInv'
        BY <3>1, <4>1, <4>2, EventSequences DEF OverInv, Idle, commVars
      <4>4. QED
        BY <4>1, <4>3, <1>4, <1>5 DEF HistoryInv, AwaitStartupInv, StartedInv
    <3>4. QED
      BY <3>2, <3>3
  <2>2. CASE ShutdownAnswered
    <3>1. /\ step = "awaitShutdown" /\ Idle("toApp") /\ Idle("fromApp")
          /\ sent["toApp"] \in {SU, SSh} /\ step' = "stopped" /\ UNCHANGED commVars
      BY <2>2 DEF ShutdownAnswered, HistoryInv, AwaitShutdownInv, Idle
    <3>2. got["fromApp"] # <<>> /\ Head(got["fromApp"]) = "startup.complete"
      BY <3>1, EventSequences DEF HistoryInv, AwaitShutdownInv
    <3>3. /\ "ok" \notin AppEvents \cup Results
          /\ "shutdown.complete" \notin Results
      BY <1>0 DEF Results
    <3>4. ending' = "ok" => answer["fromApp"] = "shutdown.complete"
      BY <1>0, <2>2, <3>1, <3>3 DEF ShutdownAnswered, HistoryInv, AwaitShutdownInv
    <3>5. ending' = "ok" => got["fromApp"] = <<"startup.complete", "shutdown.complete">>
      BY <3>1, <3>3, <3>4 DEF HistoryInv, AwaitShutdownInv
    <3>6. OverInv'
      BY <3>1, <3>2, <3>5 DEF OverInv, Idle, commVars
    <3>7. QED
      BY <3>1, <3>6, <1>4, <1>5 DEF HistoryInv, AwaitStartupInv, StartedInv
  <2>3. CASE ShutdownTimeout
    <3>1. /\ step = "awaitShutdown" /\ step' = "stopped" /\ ending' = "timeout"
          /\ sent' = sent /\ got' = got /\ Idle("toApp")' /\ Idle("fromApp")'
      BY <1>0, <1>8, <2>3 DEF ShutdownTimeout, HistoryInv, AwaitShutdownInv, Channels
    <3>2. /\ got["fromApp"] = SC /\ sent["toApp"] \in {SU, SSh}
      BY <2>3 DEF ShutdownTimeout, HistoryInv, AwaitShutdownInv, Idle
    <3>3. OverInv'
      BY <3>1, <3>2, EventSequences DEF OverInv
    <3>4. QED
      BY <3>1, <3>3, <1>4, <1>5 DEF HistoryInv, AwaitStartupInv, StartedInv
  <2>4. QED
    BY <1>6, <1>7, <1>13, <2>1, <2>2, <2>3 DEF ShutdownStep, Shutdown, Channels
<1>14. CASE ShutdownReturns
  <2>1. /\ step = "stopped" /\ UNCHANGED <<step, enabled, ending>>
        /\ sent' = sent /\ got' = got
        /\ (Idle("toApp") => Idle("toApp")') /\ (Idle("fromApp") => Idle("fromApp")')
    BY <1>0, <1>14 DEF ShutdownReturns, Abandon, lifespanVars, Idle, channelVars
  <2>2. OverInv'
    BY <2>1 DEF HistoryInv, OverInv
  <2>3. QED
    BY <2>1, <2>2, <1>4, <1>5 DEF HistoryInv, AwaitStartupInv, StartedInv
<1>15. QED
  BY <1>3, <1>10, <1>11, <1>12, <1>13, <1>14 DEF ServerNext, Run

-----------------------------------------------------------------------------
(* The invariant: at every step of run() the history is that of the step.   *)
THEOREM ServerInvariant == ServerSpec => [](RunInv /\ HistoryInv)
<1>1. ServerInit => RunInv /\ HistoryInv
  BY RunInvInit, HistoryInvInit
<1>2. CommInv /\ ErrorMeansDrained /\ TruthfulResults /\ RunInv /\ HistoryInv
         /\ [ServerNext]_vars => (RunInv /\ HistoryInv)'
  BY RunInvStep, HistoryInvStep
<1>3. QED
  BY <1>1, <1>2, ServerUsesLink, NoEventLostToAnError, ResultsAreTrue, PTL DEF ServerSpec

(* An application that has ended has ended for good.                        *)
LEMMA AppStays ==
    ASSUME CommInv, HandlerStep
    PROVE  app' = app \/ app = "running"
<1>1. CASE AppStep
  BY <1>1 DEF AppStep, AppSend, AppSendRejected, AppReceive, AppReceiveDisconnect,
              AppDrops, AppEnds, DeliverResult, appVars
<1>2. CASE \E c \in Channels : CallStep(c)
  BY <1>2, SendAcceptedFacts, ReceiveAcceptedFacts, WaitFacts DEF CallStep
<1>3. QED
  BY <1>1, <1>2 DEF HandlerStep, BeginSend, BeginReceive, Abandon, appVars, commVars

(* What the server has taken only grows, by a call of receive.              *)
LEMMA GotGrows ==
    ASSUME CommInv, HandlerStep
    PROVE  \/ got'["fromApp"] = got["fromApp"]
           \/ ~Idle("fromApp") /\ \E m \in AppEvents : got'["fromApp"] = Append(got["fromApp"], m)
<1>1. CASE AppStep
  BY <1>1, AppFrame
<1>2. CASE \E c \in Channels : CallStep(c)
  BY <1>2, SendAcceptedFacts, ReceiveAcceptedFacts, WaitFacts DEF CallStep, Idle
<1>3. QED
  BY <1>1, <1>2 DEF HandlerStep, BeginSend, BeginReceive, Abandon, channelVars, commVars

(* A connection in flight has been accepted by a server that may serve, and *)
(* what allowed it to stays true.                                           *)
Served == {"started", "sendShutdown", "awaitShutdown", "stopped"}

MayGoOn ==
    \/ enabled /\ got["fromApp"] # <<>> /\ Head(got["fromApp"]) = "startup.complete"
    \/ ~enabled /\ got["fromApp"] = <<>> /\ Closed("toApp")
    \/ ~enabled /\ sent["fromApp"] = <<>> /\ Closed("fromApp") /\ app = "Completed"

FlightInv == inflight > 0 => step \in Served /\ MayGoOn

(* A server that may serve may go on. *)
LEMMA MayServeGoesOn == MayServe => MayGoOn
<1>1. got["fromApp"] = SC => got["fromApp"] # <<>> /\ Head(got["fromApp"]) = "startup.complete"
  BY EventSequences
<1>2. QED
  BY <1>1 DEF MayServe, MayGoOn

(* After startup nothing is received of an application without lifespan,    *)
(* and what another was first to say stays.                                 *)
LEMMA MayGoOnStep ==
    ASSUME CommInv, HistoryInv, step \in Served, MayGoOn, [ServerNext]_vars
    PROVE  step' \in Served /\ MayGoOn'
<1>0. /\ at \in [Channels -> Points] /\ got["fromApp"] \in Seq(AppEvents)
      /\ "fromApp" \in Channels /\ "toApp" \in Channels
  BY DEF CommInv, TypeOK, Histories, Channels
<1>1. HandlerStep
  BY ServerIsHandler
<1>2. /\ Closed("toApp") => Closed("toApp")'
      /\ Closed("fromApp") => Closed("fromApp")' /\ sent'["fromApp"] = sent["fromApp"]
  BY <1>0, <1>1, ClosedForGood
<1>3. ~enabled => Idle("fromApp")
  BY DEF HistoryInv, StartedInv, SendShutdownInv, AwaitShutdownInv, OverInv, Served
<1>4. step' \in Served /\ enabled' = enabled
  BY DEF ServerNext, Run, StartupStep, Startup, SendStartup, StartupSent, StartupAnswered,
         StartupTimeout, LifespanCall, ShutdownStep, Shutdown, ShutdownSent, ShutdownAnswered,
         ShutdownTimeout, SelectCancelled, BeginShutdown, StartupReturns, Bind, BindFails,
         ShutdownReturns, Cancel, Accept, ConnectionEnds, lifespanVars, vars, Served
<1>5. app' = app \/ app = "running"
  BY <1>1, AppStays
<1>6. \/ got'["fromApp"] = got["fromApp"]
      \/ ~Idle("fromApp") /\ \E m \in AppEvents : got'["fromApp"] = Append(got["fromApp"], m)
  BY <1>1, GotGrows
<1>7. ASSUME NEW m \in AppEvents, got["fromApp"] # <<>>
      PROVE  /\ Append(got["fromApp"], m) # <<>>
             /\ Head(Append(got["fromApp"], m)) = Head(got["fromApp"])
  BY <1>0, <1>7
<1>8. CASE got'["fromApp"] = got["fromApp"]
  BY <1>2, <1>4, <1>5, <1>8 DEF MayGoOn
<1>9. CASE ~Idle("fromApp") /\ \E m \in AppEvents : got'["fromApp"] = Append(got["fromApp"], m)
  BY <1>3, <1>4, <1>7, <1>9 DEF MayGoOn
<1>10. QED
  BY <1>6, <1>8, <1>9, <1>4

(* No step breaks what holds of the connections. *)
LEMMA FlightInvStep ==
    ASSUME CommInv, RunInv, HistoryInv, inflight \in Nat, FlightInv, [ServerNext]_vars
    PROVE  inflight' \in Nat /\ FlightInv'
<1>1. CASE Accept
  <2>1. step = "started" /\ MayServe /\ UNCHANGED <<commVars, lifespanVars>>
    BY <1>1 DEF Accept, RunInv, HistoryInv, StartedInv
  <2>2. step \in Served /\ MayGoOn
    BY <2>1, MayServeGoesOn DEF Served
  <2>3. QED
    BY <1>1, <2>2, MayGoOnStep DEF FlightInv, Accept
<1>2. CASE ConnectionEnds
  <2>1. inflight > 0 /\ inflight' = inflight - 1
    BY <1>2 DEF ConnectionEnds
  <2>2. QED
    BY <2>1, MayGoOnStep DEF FlightInv
<1>3. CASE ~Accept /\ ~ConnectionEnds
  <2>1. inflight' = inflight
    BY <1>3 DEF ServerNext, Run, StartupStep, ShutdownStep, SelectCancelled, StartupReturns, Bind,
                BindFails, ShutdownReturns, Cancel, serverVars, vars
  <2>2. QED
    BY <2>1, MayGoOnStep DEF FlightInv
<1>4. QED
  BY <1>1, <1>2, <1>3

(* The server accepts connections only for an application that has          *)
(* completed its startup, or takes no part in the lifespan protocol, and no *)
(* connection of another ever runs (lifespan.rs:72-92, server.rs:325-344).  *)
THEOREM ServingIsStarted == ServerSpec => []ServingMeansStarted
<1>1. ServerInit => inflight \in Nat /\ FlightInv
  BY DEF ServerInit, FlightInv
<1>2. CommInv /\ RunInv /\ HistoryInv /\ inflight \in Nat /\ FlightInv /\ [ServerNext]_vars
         => (inflight \in Nat /\ FlightInv)'
  BY FlightInvStep
<1>3. RunInv /\ HistoryInv /\ FlightInv => ServingMeansStarted
  <2>1. SUFFICES ASSUME RunInv, HistoryInv, FlightInv,
                        run \in {"binding", "serving"} \/ inflight > 0
                 PROVE  ServingMeansStarted
    BY DEF ServingMeansStarted
  <2>2. run \in {"binding", "serving"} => MayGoOn
    BY <2>1, MayServeGoesOn DEF RunInv, HistoryInv, StartedInv
  <2>3. MayGoOn
    BY <2>1, <2>2 DEF FlightInv
  <2>4. QED
    BY <2>3 DEF MayGoOn, ServingMeansStarted
<1>4. QED
  BY <1>1, <1>2, <1>3, ServerInvariant, ServerUsesLink, PTL DEF ServerSpec

(* Startup comes before shutdown, each at most once; shutdown only after    *)
(* startup.complete and only when the server has been cancelled             *)
(* (server.rs:261-263, lifespan.rs:50-57).                                  *)
THEOREM LifespanInOrder == ServerSpec => []LifespanOrder
<1>1. RunInv /\ HistoryInv /\ CommInv => LifespanOrder
  <2>1. SUFFICES ASSUME RunInv, HistoryInv, CommInv
                 PROVE  LifespanOrder
    OBVIOUS
  <2>2. step \in {"start", "sendStartup", "awaitStartup", "started", "failed",
                  "sendShutdown", "awaitShutdown", "stopped"}
    BY <2>1 DEF RunInv, Runs
  <2>3. sent["toApp"] \in {<<>>, SU, SSh}
    BY <2>1, <2>2 DEF HistoryInv, StartInv, SendStartupInv, AwaitStartupInv, StartedInv,
                      SendShutdownInv, AwaitShutdownInv, OverInv
  <2>4. ASSUME sent["toApp"] = SSh
        PROVE  /\ cancelled
               /\ got["fromApp"] # <<>> /\ Head(got["fromApp"]) = "startup.complete"
    <3>1. step \in {"sendShutdown", "awaitShutdown", "stopped"}
      BY <2>1, <2>2, <2>4, EventSequences DEF HistoryInv, StartInv, SendStartupInv, AwaitStartupInv,
                                         StartedInv, OverInv
    <3>2. cancelled
      BY <2>1, <3>1 DEF RunInv
    <3>3. ASSUME NEW x \in {"fromApp"}, got[x] = SC \/ \E m \in AppEvents :
                     got[x] = <<"startup.complete", m>>
          PROVE  got[x] # <<>> /\ Head(got[x]) = "startup.complete"
      BY <3>3, EventSequences
    <3>4. QED
      BY <2>1, <2>4, <3>1, <3>2, <3>3 DEF HistoryInv, SendShutdownInv, AwaitShutdownInv, OverInv
  <2>5. QED
    BY <2>3, <2>4, EventSequences DEF LifespanOrder, SU, SSh
<1>2. QED
  BY <1>1, ServerInvariant, ServerUsesLink, PTL

(* run() returns Ok from an application with lifespan only if it answered   *)
(* startup and shutdown, in that order (lifespan.rs:94-108).                *)
THEOREM OkIsShutDown == ServerSpec => []OkMeansShutDown
<1>1. RunInv /\ HistoryInv => OkMeansShutDown
  BY DEF RunInv, HistoryInv, OverInv, OkMeansShutDown
<1>2. QED
  BY <1>1, ServerInvariant, PTL

(* What RunInv and the link do not say of the types. *)
TypesInv == /\ ending \in {"none", "ok", "timeout"} \cup AppEvents \cup Results
            /\ enabled \in BOOLEAN /\ inflight \in 0 .. MaxConnections

(* No step breaks the types. *)
LEMMA TypesStep ==
    ASSUME CommInv, HistoryInv, TypesInv, [ServerNext]_vars
    PROVE  TypesInv'
<1>0. /\ answer["toApp"] \in {"none", "ok"} \cup Results \cup AppEvents
      /\ answer["fromApp"] \in {"none", "ok"} \cup Results \cup AppEvents
  BY DEF CommInv, TypeOK, Channels
<1>1. "startup.failed" \in AppEvents
  BY LifespanAssumption DEF LifespanSendEvents
<1>2. CASE StartupStep \/ ShutdownStep \/ SelectCancelled
  BY <1>0, <1>1, <1>2 DEF StartupStep, Startup, SendStartup, StartupSent, StartupAnswered,
       StartupTimeout, StartupEnds, LifespanCall, ShutdownStep, Shutdown, ShutdownSent,
       ShutdownAnswered, ShutdownTimeout, SelectCancelled, BeginShutdown, lifespanVars,
       serverVars, TypesInv
<1>3. CASE (AppStep /\ UNCHANGED <<lifespanVars, serverVars>>) \/ Cancel \/ StartupReturns
           \/ Bind \/ BindFails \/ Accept \/ ConnectionEnds \/ ShutdownReturns \/ UNCHANGED vars
  BY <1>3, ServerAssumption
     DEF Cancel, StartupReturns, Bind, BindFails, Accept, ConnectionEnds, ShutdownReturns,
         vars, lifespanVars, serverVars, TypesInv
<1>4. QED
  BY <1>2, <1>3 DEF ServerNext, Run

(* Type correctness of run(), of the handler and of their link.             *)
THEOREM ServerTypeCorrect == ServerSpec => []ServerTypeOK
<1>1. ServerInit => TypesInv
  <2>1. ServerInit => inflight \in 0 .. MaxConnections
    BY ServerAssumption DEF ServerInit
  <2>2. ServerInit => ending \in {"none", "ok", "timeout"} /\ enabled \in BOOLEAN
    BY DEF ServerInit, LifespanInit
  <2>3. QED
    BY <2>1, <2>2 DEF TypesInv
<1>2. CommInv /\ HistoryInv /\ TypesInv /\ [ServerNext]_vars => TypesInv'
  BY TypesStep
<1>3. CommInv /\ RunInv /\ TypesInv => ServerTypeOK
  BY DEF CommInv, RunInv, Runs, TypesInv, ServerTypeOK
<1>4. QED
  BY <1>1, <1>2, <1>3, ServerInvariant, ServerUsesLink, PTL DEF ServerSpec

-----------------------------------------------------------------------------
(* When the server's sends may have to wait. *)

(* The event startup never waits for room, and with a queue for two neither *)
(* does shutdown: the one queue that can hold up the shutdown of a          *)
(* cancelled server, which no timeout bounds, is a queue for one            *)
(* (lifespan.rs:75, 98, communication.rs:153-157).                          *)
SendHasRoom ==
    at["toApp"] = "channel" /\ (run = "startup" \/ BackpressureSize >= 2) => Room("toApp")

(* What waits in a channel is part of what was sent. *)
LEMMA PartOfHistory ==
    ASSUME NEW S, NEW g \in Seq(S), NEW b \in Seq(S)
    PROVE  Len(b) \in Nat /\ Len(b) <= Len(g \o b)
BY ConcatProperties, LenProperties

(* The server's sends find room (lifespan.rs:75, 98).                       *)
THEOREM SendsDoNotWait == ServerSpec => []SendHasRoom
<1>1. CommInv /\ RunInv /\ HistoryInv => SendHasRoom
  <2> SUFFICES ASSUME CommInv, RunInv, HistoryInv, at["toApp"] = "channel",
                      run = "startup" \/ BackpressureSize >= 2
               PROVE  Room("toApp")
    BY DEF SendHasRoom
  <2>1. /\ got["toApp"] \in Seq(ServerEvents) /\ buf["toApp"] \in Seq(ServerEvents)
        /\ sent["toApp"] = got["toApp"] \o buf["toApp"]
    BY DEF CommInv, TypeOK, Histories, Lossless, Channels
  <2>2. /\ Len(buf["toApp"]) \in Nat
        /\ Len(buf["toApp"]) <= Len(sent["toApp"])
    BY <2>1, PartOfHistory
  <2>3. step \in {"sendStartup", "sendShutdown"}
    BY DEF RunInv, Runs, HistoryInv, StartInv, AwaitStartupInv, StartedInv, AwaitShutdownInv,
           OverInv, Idle
  <2>4. CASE step = "sendStartup"
    <3>1. sent["toApp"] = <<>>
      BY <2>4 DEF HistoryInv, SendStartupInv
    <3>2. Len(sent["toApp"]) = 0
      BY <3>1
    <3>. QED BY <2>2, <3>2, CommunicationAssumption DEF Room
  <2>5. CASE step = "sendShutdown"
    <3>1. sent["toApp"] = SU /\ run # "startup"
      BY <2>5 DEF HistoryInv, SendShutdownInv, RunInv
    <3>2. Len(sent["toApp"]) = 1
      BY <3>1, EventSequences
    <3>3. BackpressureSize \in Nat /\ BackpressureSize >= 2
      BY <3>1, CommunicationAssumption
    <3>. QED BY <2>2, <3>2, <3>3 DEF Room
  <2>. QED BY <2>3, <2>4, <2>5
<1>. QED BY <1>1, ServerInvariant, ServerUsesLink, PTL

-----------------------------------------------------------------------------
(* What the server says of an application that is gone. *)

(* The handler makes one call at a time and none after one it has given up, *)
(* so the receiver of the result is in the slot, with the call, or its      *)
(* result in the cache.                                                     *)
ResultInv ==
    /\ \A c \in Channels : at[c] # "recheck" /\ (at[c] = "take" => cached = "none")
    /\ step \notin {"failed", "stopped"} /\ ~slot /\ cached = "none"
          => \E c \in Channels : Awaiting(c)
    /\ \A c \in Channels : answer[c] = "Unexpected" => app = "Panicked"
    /\ ending = "Unexpected" => app = "Panicked"

OneCall == \A c \in Channels : at[c] # "idle" =>
               step \notin {"failed", "stopped"} /\ \A d \in Channels \ {c} : at[d] = "idle"

(* The invariant says that one handle calls at a time. *)
LEMMA HistoryOneCall == RunInv /\ HistoryInv => OneCall
BY DEF RunInv, Runs, HistoryInv, StartInv, SendStartupInv, AwaitStartupInv, StartedInv,
       SendShutdownInv, AwaitShutdownInv, OverInv, Idle, OneCall, Channels

(* No step breaks what holds of the result. *)
LEMMA ResultInvStep ==
    ASSUME CommInv, RunInv, HistoryInv, ResultInv, [ServerNext]_vars
    PROVE  ResultInv'
<1>0. /\ at \in [Channels -> Points]
      /\ answer \in [Channels -> {"none", "ok"} \cup Results \cup AppEvents]
      /\ "Unexpected" \notin AppEvents \cup {"none", "ok", "Completed", "Failed"}
  BY CommunicationAssumption DEF CommInv, TypeOK, Results
<1>1. OneCall
  BY HistoryOneCall
<1>2. CASE AppStep /\ UNCHANGED <<lifespanVars, serverVars>>
  <2>1. UNCHANGED <<at, answer, slot, cached>>
    BY <1>2, AppFrame
  <2>2. app = "Panicked" => app' = "Panicked"
    BY <1>2 DEF AppStep, AppSend, AppSendRejected, AppReceive, AppReceiveDisconnect,
                AppDrops, AppEnds, DeliverResult, appVars
  <2>. QED BY <1>2, <2>1, <2>2 DEF ResultInv, Awaiting, lifespanVars
<1>3. ASSUME NEW c \in Channels, CallStep(c), UNCHANGED lifespanVars
      PROVE  ResultInv'
  <2>1. at[c] # "idle" /\ \A d \in Channels \ {c} : at[d] = "idle"
    BY <1>1, <1>3 DEF OneCall, CallStep, SendAccepted, ReceiveAccepted, ChannelFailed,
         WaitForCompletion, ReadCached, TakeReceiver, Recheck, AwaitResult, StoreResult
  <2>2. step \notin {"failed", "stopped"} /\ UNCHANGED <<step, ending>>
    BY <1>1, <1>3, <2>1 DEF OneCall, lifespanVars
  <2>3. CASE SendAccepted
    BY <1>0, <2>1, <2>2, <2>3 DEF SendAccepted, Return, handleVars, appVars, ResultInv, Awaiting,
         Channels
  <2>4. CASE ReceiveAccepted
    <3>1. PICK m \in AppEvents : answer' = [answer EXCEPT !["fromApp"] = m]
      BY <2>4, ReceiveAcceptedFacts
    <3>2. at' = [at EXCEPT !["fromApp"] = "idle"] /\ UNCHANGED <<app, slot, cached>>
          /\ at["fromApp"] = "channel"
      BY <2>4 DEF ReceiveAccepted, Return, handleVars, appVars
    <3>. QED BY <1>0, <2>1, <2>2, <3>1, <3>2 DEF ResultInv, Awaiting, Channels
  <2>5. CASE ChannelFailed(c)
    BY <1>0, <2>1, <2>2, <2>5 DEF ChannelFailed, Goto, handleVars, appVars, ResultInv, Awaiting
  <2>6. CASE ReadCached(c)
    <3>1. cached = "Unexpected" => app = "Panicked"
      BY DEF CommInv, OneshotTruth, ResultOf, TypeOK, Endings
    <3>. QED BY <1>0, <2>1, <2>2, <2>6, <3>1
             DEF ReadCached, Goto, Return, handleVars, appVars, ResultInv, Awaiting
  <2>7. CASE TakeReceiver(c)
    <3>1. slot /\ cached = "none"
      BY <2>1, <2>2, <2>7 DEF TakeReceiver, ResultInv, Awaiting
    <3>. QED BY <1>0, <2>1, <2>2, <2>7, <3>1
             DEF TakeReceiver, Goto, appVars, ResultInv, Awaiting
  <2>8. CASE Recheck(c)
    BY <2>8 DEF Recheck, ResultInv
  <2>9. CASE AwaitResult(c)
    BY <1>0, <2>1, <2>2, <2>9 DEF AwaitResult, Goto, handleVars, appVars, ResultInv, Awaiting
  <2>10. CASE StoreResult(c)
    <3>1. ResultOf(oneshot) # "none" /\ (ResultOf(oneshot) = "Unexpected" => app = "Panicked")
      BY <2>10 DEF StoreResult, CommInv, OneshotTruth, ResultOf, TypeOK, Endings
    <3>. QED BY <1>0, <2>1, <2>2, <2>10, <3>1
             DEF StoreResult, Return, appVars, ResultInv, Awaiting
  <2>. QED BY <1>3, <2>3, <2>4, <2>5, <2>6, <2>7, <2>8, <2>9, <2>10
           DEF CallStep, WaitForCompletion
<1>4. ASSUME \A c \in Channels : at[c] = "idle", UNCHANGED <<slot, cached, app>>,
             \A c \in Channels : at'[c] \in {"idle", "channel"},
             \A c \in Channels : answer'[c] \in {"none", answer[c]},
             ending' \in {"none", "ok", "timeout", ending} \cup {answer[c] : c \in Channels}
             \/ ending' = "startup.failed",
             step \in {"failed", "stopped"} => step' = step
      PROVE  ResultInv'
  BY <1>0, <1>4 DEF ResultInv, Awaiting
<1>5. ASSUME UNCHANGED commVars, \A c \in Channels : at[c] = "idle"
      PROVE  /\ UNCHANGED <<slot, cached, app>>
             /\ \A c \in Channels : at'[c] \in {"idle", "channel"}
             /\ \A c \in Channels : answer'[c] \in {"none", answer[c]}
  BY <1>5 DEF commVars
<1>6. ASSUME NEW C \in SUBSET Channels, NEW D \in SUBSET Channels, Abandon(C, D),
             step' \in {"failed", "stopped"}, ending' \in {ending, "timeout"}
      PROVE  ResultInv'
  BY <1>0, <1>6 DEF Abandon, ResultInv, handleVars, appVars
<1>7. CASE SendStartup
  <2>1. \A c \in Channels : at[c] = "idle"
    BY <1>7 DEF SendStartup, HistoryInv, StartInv, Idle, Channels
  <2>. QED BY <1>0, <1>4, <1>7, <2>1 DEF SendStartup, BeginSend, handleVars, appVars
<1>8. CASE StartupSent
  <2>1. \A c \in Channels : at[c] = "idle"
    BY <1>8 DEF StartupSent, HistoryInv, SendStartupInv, Idle, Channels
  <2>. QED BY <1>0, <1>4, <1>5, <1>8, <2>1 DEF StartupSent, BeginReceive, handleVars, appVars
<1>9. CASE StartupAnswered
  <2>1. \A c \in Channels : at[c] = "idle"
    BY <1>9 DEF StartupAnswered, HistoryInv, AwaitStartupInv, Idle, Channels
  <2>2. CASE UNCHANGED commVars /\ ending' = ending /\ step' = "started"
    BY <1>4, <1>5, <1>9, <2>1, <2>2 DEF StartupAnswered
  <2>3. CASE \E x \in {"startup.failed", answer["fromApp"]} : StartupEnds(x)
    <3>1. PICK x \in {"startup.failed", answer["fromApp"]} : StartupEnds(x)
      BY <2>3
    <3>. QED BY <1>0, <1>4, <1>9, <2>1, <3>1
             DEF StartupEnds, Abandon, handleVars, appVars, StartupAnswered, Channels
  <2>. QED BY <1>9, <2>2, <2>3 DEF StartupAnswered
<1>10. CASE StartupTimeout
  BY <1>6, <1>10 DEF StartupTimeout, StartupEnds
<1>11. CASE SelectCancelled
  <2>1. \A c \in Channels : at[c] = "idle"
    BY <1>11 DEF SelectCancelled, BeginShutdown, HistoryInv, StartedInv, Idle, Channels
  <2>. QED BY <1>0, <1>4, <1>5, <1>11, <2>1
           DEF SelectCancelled, BeginShutdown, BeginSend, handleVars, appVars
<1>12. CASE ShutdownSent
  <2>1. \A c \in Channels : at[c] = "idle"
    BY <1>12 DEF ShutdownSent, HistoryInv, SendShutdownInv, Idle, Channels
  <2>. QED BY <1>0, <1>4, <1>5, <1>12, <2>1
           DEF ShutdownSent, BeginReceive, handleVars, appVars, Channels
<1>13. CASE ShutdownAnswered
  <2>1. \A c \in Channels : at[c] = "idle"
    BY <1>13 DEF ShutdownAnswered, HistoryInv, AwaitShutdownInv, Idle, Channels
  <2>. QED BY <1>4, <1>5, <1>13, <2>1 DEF ShutdownAnswered, Channels
<1>14. CASE ShutdownTimeout
  BY <1>6, <1>14 DEF ShutdownTimeout, Channels
<1>15. CASE BindFails \/ ShutdownReturns
  <2>1. \A c \in Channels : at[c] = "idle"
    BY <1>15 DEF BindFails, ShutdownReturns, RunInv, HistoryInv, StartedInv, OverInv, Idle, Channels
  <2>2. PICK D \in {serverHas} : Abandon({}, D)
    BY <1>15 DEF BindFails, ShutdownReturns
  <2>3. UNCHANGED lifespanVars
    BY <1>15 DEF BindFails, ShutdownReturns
  <2>. QED BY <1>4, <2>1, <2>2, <2>3 DEF Abandon, lifespanVars, handleVars, appVars
<1>16. CASE Cancel \/ Accept \/ ConnectionEnds \/ Bind \/ StartupReturns \/ UNCHANGED vars
  BY <1>16 DEF Cancel, Accept, ConnectionEnds, Bind, StartupReturns, vars, commVars,
               lifespanVars, ResultInv, Awaiting
<1>17. CASE StartupStep \/ ShutdownStep
  BY <1>3, <1>7, <1>8, <1>9, <1>10, <1>12, <1>13, <1>14, <1>17
  DEF StartupStep, Startup, ShutdownStep, Shutdown, LifespanCall
<1>. QED BY <1>2, <1>11, <1>15, <1>16, <1>17 DEF ServerNext, Run

(* What run() reports as an application that ended unexpectedly has         *)
(* panicked: the result of one that returned or failed is never lost to the *)
(* lifespan handler, whose calls do not race (lifespan.rs:72-108,           *)
(* communication.rs:92-122).  It may be lost to a WebSocket connection.     *)
UnexpectedMeansPanicked == ending = "Unexpected" => app = "Panicked"

(* The errors the server reports of its lifespan are exact (server.rs:257-262). *)
THEOREM LifespanResultsAreExact == ServerSpec => []UnexpectedMeansPanicked
<1>1. ServerInit => ResultInv
  BY DEF ServerInit, LifespanInit, CommInit, ResultInv, Channels
<1>2. CommInv /\ RunInv /\ HistoryInv /\ ResultInv /\ [ServerNext]_vars => ResultInv'
  BY ResultInvStep
<1>3. ResultInv => UnexpectedMeansPanicked
  BY DEF ResultInv, UnexpectedMeansPanicked
<1>. QED BY <1>1, <1>2, <1>3, ServerInvariant, ServerUsesLink, PTL DEF ServerSpec
=============================================================================
