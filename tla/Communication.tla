---------------------------- MODULE Communication ----------------------------
(***************************************************************************)
(* The link between the server and ONE call of the ASGI application         *)
(* (aras/src/communication.rs).                                             *)
(*                                                                          *)
(* CommunicationFactory::build makes, for every scope, two bounded          *)
(* async_channels and a oneshot, spawns the task that calls the             *)
(* application, and hands the server two handles: SendToApp over the        *)
(* channel "toApp" and ReceiveFromApp over the channel "fromApp".  Both     *)
(* share one ApplicationHandle, which learns how the application ended      *)
(* from the oneshot and caches it.                                          *)
(*                                                                          *)
(* A handle is named by its channel.  Every await point of                  *)
(* wait_for_completion is a place where the other handle may run and where  *)
(* the caller may be cancelled, so every stretch of code between two await  *)
(* points is one action.  The application is arbitrary: it sends any event, *)
(* receives, drops its halves of the channels and ends when it likes.       *)
(***************************************************************************)
EXTENDS Naturals, Sequences

CONSTANTS
    ServerEvents,      \* ASGIReceiveEvent: what the server sends
    AppEvents,         \* ASGISendEvent: what the application sends
    BackpressureSize,  \* capacity of each of the two channels
    MaxMessages,       \* bound on the events sent over a channel
    KeepsEndpoints     \* may the app's send/receive outlive its call?

Channels == {"toApp", "fromApp"}

(* ApplicationResult; the message of an ApplicationError is left out. *)
Results == {"Completed", "Unexpected", "Failed"}

Endings == {"Completed", "Failed", "Panicked"}

ASSUME CommunicationAssumption ==
    /\ BackpressureSize \in Nat \ {0}
    /\ MaxMessages \in Nat
    /\ KeepsEndpoints \in BOOLEAN
    /\ "none" \notin ServerEvents \cup AppEvents
    /\ AppEvents \cap (Results \cup {"ok"}) = {}

VARIABLES
    buf,        \* channel contents
    sent, got,  \* history: what entered, what was taken out of each channel
    appHas,     \* the channels whose application half is alive
    serverHas,  \* the channels whose server handle is alive
    told,       \* the app's calls that have reported a closed channel
    app,        \* the call of the application: "running" or how it ended
    oneshot,    \* the result channel: "pending", a result, or "dropped"
    slot,       \* ApplicationHandle.receiver still holds the oneshot receiver
    cached,     \* ApplicationHandle.cached_result
    at,         \* where the call on each server handle is
    arg,        \* the event SendToApp::send is sending
    answer      \* what the last call on each server handle returned

channelVars == <<buf, sent, got>>
endVars     == <<appHas, serverHas>>
appVars     == <<app, oneshot, told>>
handleVars  == <<slot, cached>>
callVars    == <<at, arg, answer>>
commVars    == <<buf, sent, got, appHas, serverHas, told, app, oneshot,
                 slot, cached, at, arg, answer>>

(* A channel is closed when either side has dropped its last half. *)
Closed(c) == c \notin appHas \cap serverHas

\* Mutant: the outcome of the oneshot is passed on without the match.
ResultRaw(o) == o

(* wait_for_completion's match on the awaited oneshot. *)
ResultOf(o) == IF o = "dropped" THEN "Unexpected" ELSE o

Points == {"idle", "channel", "cached", "take", "recheck", "await", "store"}

CommInit ==
    /\ buf       = [c \in Channels |-> <<>>]
    /\ sent      = [c \in Channels |-> <<>>]
    /\ got       = [c \in Channels |-> <<>>]
    /\ appHas    = Channels
    /\ serverHas = Channels
    /\ told      = {}
    /\ app       = "running"
    /\ oneshot   = "pending"
    /\ slot      = TRUE
    /\ cached    = "none"
    /\ at        = [c \in Channels |-> "idle"]
    /\ arg       = "none"
    /\ answer    = [c \in Channels |-> "none"]

-----------------------------------------------------------------------------
(* Channel operations shared by both sides. *)

Room(c) == Len(buf[c]) < BackpressureSize

Push(c, m) ==
    /\ ~Closed(c) /\ Room(c)
    /\ buf'  = [buf  EXCEPT ![c] = Append(@, m)]
    /\ sent' = [sent EXCEPT ![c] = Append(@, m)]
    /\ got'  = got

(* What was buffered before the channel closed is still received. *)
Pop(c) ==
    /\ buf[c] # <<>>
    /\ buf' = [buf EXCEPT ![c] = Tail(@)]
    /\ got' = [got EXCEPT ![c] = Append(@, Head(buf[c]))]
    /\ sent' = sent

-----------------------------------------------------------------------------
(* The application and its task. *)

(* send_closure: waits while the channel is full. *)
AppSend(m) ==
    /\ "fromApp" \in appHas
    /\ Len(sent["fromApp"]) < MaxMessages
    /\ Push("fromApp", m)
    /\ UNCHANGED <<endVars, appVars, handleVars, callVars>>

(* send_closure on a closed channel: Err(DisconnectedClient). *)
AppSendRejected ==
    /\ "fromApp" \in appHas /\ Closed("fromApp")
    /\ told' = told \cup {"fromApp"}
    /\ UNCHANGED <<channelVars, endVars, app, oneshot, handleVars, callVars>>

(* receive_closure: the next event of the server. *)
AppReceive ==
    /\ "toApp" \in appHas
    /\ Pop("toApp")
    /\ UNCHANGED <<endVars, appVars, handleVars, callVars>>

\* Mutant: the disconnect is made up as soon as the channel is closed.
AppReceiveDisconnectEarly ==
    /\ "toApp" \in appHas /\ Closed("toApp")
    /\ told' = told \cup {"toApp"}
    /\ UNCHANGED <<channelVars, endVars, app, oneshot, handleVars, callVars>>

(* receive_closure on a closed, empty channel makes up an http.disconnect. *)
AppReceiveDisconnect ==
    /\ "toApp" \in appHas /\ Closed("toApp") /\ buf["toApp"] = <<>>
    /\ told' = told \cup {"toApp"}
    /\ UNCHANGED <<channelVars, endVars, app, oneshot, handleVars, callVars>>

(* The application lets go of its send or its receive. *)
AppDrops(c) ==
    /\ c \in appHas
    /\ appHas' = appHas \ {c}
    /\ UNCHANGED <<channelVars, serverHas, appVars, handleVars, callVars>>

AppEnds(e) ==
    /\ app = "running"
    /\ app' = e
    /\ UNCHANGED <<channelVars, endVars, oneshot, told, handleVars, callVars>>

(* The spawned task sends the result; a panic drops the producer instead.  *)
(* The arguments of the call are gone by then, unless the application has  *)
(* put its own clones of them somewhere that outlives the call.            *)
DeliverResult ==
    /\ app # "running" /\ oneshot = "pending"
    /\ KeepsEndpoints \/ appHas = {}
    /\ oneshot' = IF app = "Panicked" THEN "dropped" ELSE app
    /\ UNCHANGED <<channelVars, endVars, app, told, handleVars, callVars>>

AppStep ==
    \/ \E m \in AppEvents : AppSend(m)
    \/ AppSendRejected
    \/ AppReceive
    \/ AppReceiveDisconnect
    \/ \E c \in Channels : AppDrops(c)
    \/ \E e \in Endings : AppEnds(e)
    \/ DeliverResult

-----------------------------------------------------------------------------
(* The server's handles. *)

Goto(c, p) == at' = [at EXCEPT ![c] = p] /\ UNCHANGED <<arg, answer>>

(* The call on handle c returns x. *)
Return(c, x) ==
    /\ at' = [at EXCEPT ![c] = "idle"]
    /\ answer' = [answer EXCEPT ![c] = x]
    /\ arg' = IF c = "toApp" THEN "none" ELSE arg

BeginSend(m) ==
    /\ "toApp" \in serverHas /\ at["toApp"] = "idle"
    /\ Len(sent["toApp"]) < MaxMessages
    /\ at' = [at EXCEPT !["toApp"] = "channel"]
    /\ answer' = [answer EXCEPT !["toApp"] = "none"]
    /\ arg' = m
    /\ UNCHANGED <<channelVars, endVars, appVars, handleVars>>

BeginReceive ==
    /\ "fromApp" \in serverHas /\ at["fromApp"] = "idle"
    /\ at' = [at EXCEPT !["fromApp"] = "channel"]
    /\ answer' = [answer EXCEPT !["fromApp"] = "none"]
    /\ UNCHANGED <<channelVars, endVars, appVars, handleVars, arg>>

(* SendToApp::send, the channel took the event. *)
SendAccepted ==
    /\ at["toApp"] = "channel"
    /\ Push("toApp", arg)
    /\ Return("toApp", "ok")
    /\ UNCHANGED <<endVars, appVars, handleVars>>

(* ReceiveFromApp::receive, the channel had an event. *)
ReceiveAccepted ==
    /\ at["fromApp"] = "channel"
    /\ Pop("fromApp")
    /\ Return("fromApp", Head(buf["fromApp"]))
    /\ UNCHANGED <<endVars, appVars, handleVars>>

\* Mutant: a closed channel is not drained before it is reported.
ChannelFailedUndrained(c) ==
    /\ at[c] = "channel" /\ Closed(c)
    /\ Goto(c, "cached")
    /\ UNCHANGED <<channelVars, endVars, appVars, handleVars>>

(* The channel operation failed: on to wait_for_completion. *)
ChannelFailed(c) ==
    /\ at[c] = "channel" /\ Closed(c)
    /\ c = "fromApp" => buf[c] = <<>>
    /\ Goto(c, "cached")
    /\ UNCHANGED <<channelVars, endVars, appVars, handleVars>>

(* read_cached, first time. *)
ReadCached(c) ==
    /\ at[c] = "cached"
    /\ IF cached # "none" THEN Return(c, cached) ELSE Goto(c, "take")
    /\ UNCHANGED <<channelVars, endVars, appVars, handleVars>>

\* Mutant: the receiver is looked at but not taken out of the slot.
TakeReceiverPeek(c) ==
    /\ at[c] = "take"
    /\ slot' = slot
    /\ Goto(c, IF slot THEN "await" ELSE "recheck")
    /\ UNCHANGED <<channelVars, endVars, appVars, cached>>

\* Mutant: a caller that finds the slot empty waits for it to be filled.
TakeReceiverBlocking(c) ==
    /\ at[c] = "take" /\ slot
    /\ slot' = FALSE
    /\ Goto(c, "await")
    /\ UNCHANGED <<channelVars, endVars, appVars, cached>>

(* self.receiver.lock().await.take() *)
TakeReceiver(c) ==
    /\ at[c] = "take"
    /\ slot' = FALSE
    /\ Goto(c, IF slot THEN "await" ELSE "recheck")
    /\ UNCHANGED <<channelVars, endVars, appVars, cached>>

\* Mutant: a missing result is taken for a normal return.
RecheckOptimistic(c) ==
    /\ at[c] = "recheck"
    /\ Return(c, IF cached # "none" THEN cached ELSE "Completed")
    /\ UNCHANGED <<channelVars, endVars, appVars, handleVars>>

\* Mutant: the missing result is cached like a real one.
RecheckCaching(c) ==
    /\ at[c] = "recheck"
    /\ cached' = IF cached # "none" THEN cached ELSE "Unexpected"
    /\ Return(c, cached')
    /\ UNCHANGED <<channelVars, endVars, appVars, slot>>

(* maybe_recv.is_none(): look at the cache again. *)
Recheck(c) ==
    /\ at[c] = "recheck"
    /\ Return(c, IF cached # "none" THEN cached ELSE "Unexpected")
    /\ UNCHANGED <<channelVars, endVars, appVars, handleVars>>

(* maybe_recv.unwrap().await *)
AwaitResult(c) ==
    /\ at[c] = "await" /\ oneshot # "pending"
    /\ Goto(c, "store")
    /\ UNCHANGED <<channelVars, endVars, appVars, handleVars>>

StoreResult(c) ==
    /\ at[c] = "store"
    /\ cached' = ResultOf(oneshot)
    /\ Return(c, ResultOf(oneshot))
    /\ UNCHANGED <<channelVars, endVars, appVars, slot>>

WaitForCompletion(c) ==
    \/ ReadCached(c)
    \/ TakeReceiver(c)
    \/ Recheck(c)
    \/ AwaitResult(c)
    \/ StoreResult(c)

(* One step of the call in progress on a handle. *)
CallStep(c) ==
    \/ c = "toApp" /\ SendAccepted
    \/ c = "fromApp" /\ ReceiveAccepted
    \/ ChannelFailed(c)
    \/ WaitForCompletion(c)

(* The owner of the handles drops the futures of the calls in progress on  *)
(* "cancelled" and drops the handles in "dropped" with their futures.      *)
Abandon(cancelled, dropped) ==
    LET gone == {c \in cancelled \cup dropped : at[c] # "idle"} IN
    /\ dropped \subseteq serverHas
    /\ serverHas' = serverHas \ dropped
    /\ at' = [c \in Channels |-> IF c \in gone THEN "idle" ELSE at[c]]
    /\ arg' = IF "toApp" \in gone THEN "none" ELSE arg
    /\ UNCHANGED <<channelVars, appHas, appVars, handleVars, answer>>

-----------------------------------------------------------------------------
(* The most general user of the two handles: it calls, cancels and drops    *)
(* them at any time.  The protocol modules replace it by the real ones.     *)
User ==
    \/ \E m \in ServerEvents : BeginSend(m)
    \/ BeginReceive
    \/ \E c \in Channels : CallStep(c)
    \/ \E C \in SUBSET Channels, D \in SUBSET serverHas :
          C \cup D # {} /\ Abandon(C, D)

CommNext == AppStep \/ User

CommSpec == CommInit /\ [][CommNext]_commVars

(* A call that has ended lets go of what it still holds, and its task       *)
(* delivers the result.                                                     *)
AppWindsUp == app # "running" /\ (DeliverResult \/ \E c \in Channels : AppDrops(c))

(* The runtime polls a woken task, so a call that can go on does; the task *)
(* of the application goes on to deliver the result, and an application    *)
(* that has ended sooner or later lets go of what it still holds.          *)
CommFairness ==
    /\ \A c \in Channels : WF_commVars(CallStep(c))
    /\ WF_commVars(AppWindsUp)

FairCommSpec == CommSpec /\ CommFairness
-----------------------------------------------------------------------------
(* Properties. *)

Histories ==
    {h \in [Channels -> Seq(ServerEvents \cup AppEvents)] :
        h["toApp"] \in Seq(ServerEvents) /\ h["fromApp"] \in Seq(AppEvents)}

TypeOK ==
    /\ buf \in Histories /\ sent \in Histories /\ got \in Histories
    /\ appHas \in SUBSET Channels
    /\ serverHas \in SUBSET Channels
    /\ told \in SUBSET Channels
    /\ app \in {"running"} \cup Endings
    /\ oneshot \in {"pending", "Completed", "Failed", "dropped"}
    /\ slot \in BOOLEAN
    /\ cached \in {"none"} \cup Results
    /\ at \in [Channels -> Points]
    /\ arg \in {"none"} \cup ServerEvents
    /\ answer \in [Channels -> {"none", "ok"} \cup Results \cup AppEvents]
    /\ at["toApp"] = "channel" => arg \in ServerEvents

(* When receive() reports that the application is gone, every event the     *)
(* application managed to send has been returned by an earlier receive(),   *)
(* whatever calls were cancelled in between (communication.rs:134-140).     *)
ErrorMeansDrained ==
    answer["fromApp"] \in Results => got["fromApp"] = sent["fromApp"]

(* The application is told http.disconnect by a closed channel only after   *)
(* it has received every event the server sent (communication.rs:190-193).  *)
DisconnectMeansDrained ==
    "toApp" \in told => got["toApp"] = sent["toApp"]

(* A definite result, returned or cached, is how this call of the           *)
(* application really ended; the cache is never filled with a guess         *)
(* (communication.rs:92-122).                                               *)
TruthfulResults ==
    /\ \A c \in Channels : answer[c] \in {"Completed", "Failed"} => app = answer[c]
    /\ cached \in {"Completed", "Failed"} => app = cached
    /\ cached = "Unexpected" => app = "Panicked"

(* The oneshot is awaited by one handle at a time, by none that may still   *)
(* find it in the slot, and never once its result is cached: awaiting it    *)
(* twice would panic (communication.rs:99-112).                             *)
Awaiting(c) == at[c] \in {"await", "store"}
SingleAwaiter ==
    \A c \in Channels : Awaiting(c) =>
        /\ ~slot /\ cached = "none"
        /\ \A d \in Channels \ {c} : ~Awaiting(d)

(* The inductive invariant: the properties above, and what makes them last.  *)
(* No event is lost or invented between a channel's two ends.               *)
Lossless == \A c \in Channels : sent[c] = got[c] \o buf[c]

(* Whoever has seen a channel closed and empty sees it so for ever.         *)
Drained(c) == Closed(c) /\ buf[c] = <<>>
SeenDrained ==
    /\ at["fromApp"] \notin {"idle", "channel"} => Drained("fromApp")
    /\ answer["fromApp"] \in Results => Drained("fromApp")
    /\ "toApp" \in told => Drained("toApp")

(* The oneshot carries how the application ended; nothing is stored, cached *)
(* or reported as a definite result that the oneshot does not carry.        *)
OneshotTruth ==
    /\ oneshot # "pending" =>
          app # "running" /\ oneshot = IF app = "Panicked" THEN "dropped" ELSE app
    /\ \A c \in Channels : at[c] = "store" => oneshot # "pending"
    /\ cached # "none" => oneshot # "pending" /\ cached = ResultOf(oneshot) /\ ~slot
    /\ \A c \in Channels : answer[c] \in {"Completed", "Failed"} => oneshot = answer[c]

CommInv == TypeOK /\ Lossless /\ SeenDrained /\ OneshotTruth /\ SingleAwaiter

(* "The application result is cached after the first retrieval" and is      *)
(* never replaced (communication.rs:73, 118-119).                           *)
CacheWriteOnce == [][cached # "none" => cached' = cached]_commVars

(* Once the application has ended, a call the server has in progress        *)
(* returns (or is cancelled): neither a full channel nor the wait for the   *)
(* result holds it for ever.                                                *)
CallsReturn ==
    \A c \in Channels :
        (at[c] # "idle" /\ app # "running") ~> at[c] = "idle"
(* The link keeps what the abstract specification Link promises, whatever   *)
(* is cancelled, dropped or found closed in whatever order: an event counts *)
(* as put when it enters the channel, a result as reported when a call      *)
(* returns it.                                                              *)
AbstractLink == INSTANCE Link WITH
    queue  <- buf,
    taken  <- got,
    open   <- {c \in Channels : ~Closed(c)},
    ended  <- app,
    report <- [c \in Channels |-> IF answer[c] \in Results THEN answer[c] ELSE "none"]

ImplementsLink == AbstractLink!LinkSpec

=============================================================================
