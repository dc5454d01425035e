------------------------------ MODULE PyBridge ------------------------------
(***************************************************************************)
(* The Python side of one call of the application (PyASGIAppWrapper::call,  *)
(* aras_py/src/wrappers.rs): the `send` and `receive` objects it is called  *)
(* with, used by any number of asyncio tasks, over the queues of Link.      *)
(*                                                                          *)
(* A call of send or receive is a Rust future that asyncio polls.  What     *)
(* happens between two awaits is one step.  A task may be cancelled         *)
(* (asyncio.wait_for, TaskGroup), which drops the future where it waits.    *)
(* An object may outlive the call of the application, and closes its queue  *)
(* when Python collects it.                                                 *)
(***************************************************************************)
EXTENDS Link, PyEvents, FiniteSets

CONSTANTS
    Tasks,        \* asyncio tasks of the application
    SentVariants, \* the events its messages are of
    MaxMessages,  \* bound on the events over the queue to the application
    MaxCalls      \* bound on its calls of send, and on those of receive

ASSUME PyBridgeAssumption ==
    /\ SentVariants \subseteq SendVariants
    /\ ServerEvents \subseteq ReceiveVariants
    /\ AppEvents = SendEvents
    /\ MaxMessages \in Nat /\ MaxCalls \in Nat

AppMessages == (UNION {MessagesOf(v) : v \in SentVariants}) \cup Malformed

VARIABLES
    task,      \* of each task: "idle", or in a call of "send" or "receive"
    message,   \* the message of a task in "send"
    held,      \* "toApp" / "fromApp": its receive / send object is alive
    asked,     \* history: the messages whose send has returned
    received   \* history: the dictionaries receive has returned

bridgeVars == <<task, message, held, asked, received>>
vars       == <<linkVars, bridgeVars>>

NoMessage == [type |-> "no message", well |-> {}, ill |-> {}]

BridgeInit ==
    /\ LinkInit
    /\ task     = [t \in Tasks |-> "idle"]
    /\ message  = [t \in Tasks |-> NoMessage]
    /\ held     = Channels
    /\ asked    = <<>>
    /\ received = <<>>

In(call) == {t \in Tasks : task[t] = call}

(* The call of a task is over: it has returned, raised or been cancelled. *)
Over(t) ==
    /\ task' = [task EXCEPT ![t] = "idle"]
    /\ message' = [message EXCEPT ![t] = NoMessage]
    /\ held' = held

-----------------------------------------------------------------------------
(* PySend *)

\* Mutant: a message that cannot be extracted is not turned away.
PySendUnchecked(t, m) ==
    /\ task[t] = "idle" /\ "fromApp" \in held
    /\ Len(asked) + Cardinality(In("send")) < MaxCalls
    /\ task' = [task EXCEPT ![t] = "send"]
    /\ message' = [message EXCEPT ![t] = m]
    /\ UNCHANGED <<linkVars, held, asked, received>>

(* __call__: a message that cannot be extracted raises, and nothing of it   *)
(* is sent.                                                                 *)
PySend(t, m) ==
    /\ task[t] = "idle" /\ "fromApp" \in held
    /\ Len(asked) + Cardinality(In("send")) < MaxCalls
    /\ extract(m) # PyErr
    /\ task' = [task EXCEPT ![t] = "send"]
    /\ message' = [message EXCEPT ![t] = m]
    /\ UNCHANGED <<linkVars, held, asked, received>>

SendReturns(t) ==
    /\ task[t] = "send"
    /\ Put("fromApp", extract(message[t]))
    /\ Over(t)
    /\ asked' = Append(asked, message[t])
    /\ UNCHANGED received

\* Mutant: a full queue holds the sender although it is closed.
SendRaisesDrained(t) ==
    /\ task[t] = "send" /\ queue["fromApp"] = <<>>
    /\ Tell("fromApp")
    /\ Over(t)
    /\ UNCHANGED <<asked, received>>

(* DisconnectedClient becomes an IOError. *)
SendRaises(t) ==
    /\ task[t] = "send"
    /\ Tell("fromApp")
    /\ Over(t)
    /\ UNCHANGED <<asked, received>>

-----------------------------------------------------------------------------
(* PyReceive *)

PyReceive(t) ==
    /\ task[t] = "idle" /\ "toApp" \in held
    /\ Len(received) + Cardinality(In("receive")) < MaxCalls
    /\ task' = [task EXCEPT ![t] = "receive"]
    /\ UNCHANGED <<linkVars, message, held, asked, received>>

ReceiveReturns(t) ==
    /\ task[t] = "receive"
    /\ Take("toApp")
    /\ Over(t)
    /\ received' = Append(received, into_pyobject(Head(queue["toApp"])))
    /\ UNCHANGED asked

(* The queue is closed and drained: an http.disconnect, whatever the scope. *)
ReceiveDisconnect(t) ==
    /\ task[t] = "receive"
    /\ Tell("toApp")
    /\ Over(t)
    /\ received' = Append(received, into_pyobject("HTTPDisconnect"))
    /\ UNCHANGED asked

\* Mutant: the future has taken the next event by the time it is dropped.
CancelTaking(t) ==
    /\ task[t] # "idle"
    /\ IF task[t] = "receive" /\ queue["toApp"] # <<>>
       THEN Take("toApp")
       ELSE UNCHANGED linkVars
    /\ Over(t)
    /\ UNCHANGED <<asked, received>>

(* The future is dropped where it waits. *)
Cancel(t) ==
    /\ task[t] # "idle"
    /\ Over(t)
    /\ UNCHANGED <<linkVars, asked, received>>

-----------------------------------------------------------------------------
(* PyASGIAppWrapper::call returns: the coroutine has, or has raised, or the *)
(* application could not be called at all.  Tasks it has left behind go on. *)
AppEnds ==
    /\ \E e \in {"Completed", "Failed"} : End(e)
    /\ UNCHANGED bridgeVars

UserOf == [toApp |-> "receive", fromApp |-> "send"]

(* The last reference to an object goes; a call in progress holds one. *)
Collect(c) ==
    /\ c \in held /\ In(UserOf[c]) = {}
    /\ held' = held \ {c}
    /\ IF c \in open THEN Close({c}) ELSE UNCHANGED linkVars
    /\ UNCHANGED <<task, message, asked, received>>

(* The handles of the server. *)
ServerStep ==
    /\ \/ \E v \in ServerEvents :
            Len(taken["toApp"]) + Len(queue["toApp"]) < MaxMessages /\ Put("toApp", v)
       \/ Take("fromApp")
       \/ \E C \in SUBSET open : Close(C)
    /\ UNCHANGED bridgeVars

(* The call of a task returns or raises. *)
Finish(t) ==
    \/ SendReturns(t)
    \/ SendRaises(t)
    \/ ReceiveReturns(t)
    \/ ReceiveDisconnect(t)

BridgeNext ==
    \/ \E t \in Tasks :
        \/ \E m \in AppMessages : PySend(t, m)
        \/ PyReceive(t)
        \/ Finish(t)
        \/ Cancel(t)
    \/ AppEnds
    \/ \E c \in Channels : Collect(c)
    \/ ServerStep

BridgeSpec == BridgeInit /\ [][BridgeNext]_vars

(* asyncio polls a future that has been woken. *)
FairBridgeSpec == BridgeSpec /\ \A t \in Tasks : WF_vars(Finish(t))

-----------------------------------------------------------------------------
(* Properties. *)

Dicts == {into_pyobject(v) : v \in ReceiveVariants}

BridgeTypeOK ==
    /\ queue["toApp"] \in Seq(ServerEvents) /\ taken["toApp"] \in Seq(ServerEvents)
    /\ queue["fromApp"] \in Seq(AppEvents) /\ taken["fromApp"] \in Seq(AppEvents)
    /\ task \in [Tasks -> {"idle", "send", "receive"}]
    /\ message \in [Tasks -> AppMessages \cup {NoMessage}]
    /\ \A t \in Tasks : message[t] # NoMessage <=> task[t] = "send"
    /\ held \in SUBSET Channels
    /\ asked \in Seq(AppMessages)
    /\ received \in Seq(Dicts)

(* What the server has been sent is, in order and one for one, what the     *)
(* calls of send that have returned were given: no event of a message that  *)
(* raised or of a call that was cancelled, and no field lost to an          *)
(* ill-typed neighbour (wrappers.rs:121-140, 209-215, convert.rs).          *)
SentAsAsked ==
    LET out == taken["fromApp"] \o queue["fromApp"] IN
    /\ Len(out) = Len(asked)
    /\ \A i \in 1..Len(asked) : Says(asked[i], out[i])

(* Whatever is cancelled, and whichever task receives it, the application   *)
(* is given every event taken from the queue, in order, as the dictionary   *)
(* that shows it; then, when the queue is closed and drained, only          *)
(* http.disconnect (wrappers.rs:159-168, 231-234, communication.rs:190-193). *)
ReceivedInOrder ==
    LET events == taken["toApp"] IN
    /\ Len(events) <= Len(received)
    /\ \A i \in 1..Len(received) :
          Shows(received[i], IF i <= Len(events) THEN events[i] ELSE "HTTPDisconnect")
    /\ Len(events) < Len(received) => Drained("toApp")

(* A call of send or receive whose queue has been closed, by the server or  *)
(* because it has gone, does not hang: it returns, raises or is cancelled   *)
(* (wrappers.rs:210-214, 232).                                              *)
CallsEnd ==
    \A c \in Channels : \A t \in Tasks :
        (task[t] = UserOf[c] /\ c \notin open) ~> task[t] = "idle"
=============================================================================
