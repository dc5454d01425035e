--------------------------- MODULE PyBridgeProofs ---------------------------
(***************************************************************************)
(* Events cross the border between Rust and Python faithfully, for every    *)
(* set of tasks, messages and events and every capacity of the queues.      *)
(***************************************************************************)
EXTENDS PyBridge, SequenceTheorems, TLAPS

(* Every message is turned away or becomes the event it says, field by      *)
(* field (wrappers.rs:121-140).                                             *)
LEMMA Extraction ==
    ASSUME NEW v \in SendVariants, NEW m \in MessagesOf(v)
    PROVE  \/ extract(m) = PyErr
           \/ extract(m) \in [variant : {v}, own : SUBSET FieldsOf(v)] /\ Says(m, extract(m))
<1>0. /\ m = [type |-> m.type, well |-> m.well, ill |-> m.ill]
      /\ m.type = SendTypes[v] /\ m.well \subseteq FieldsOf(v)
  BY DEF MessagesOf
<1>a. v \in {"StartupComplete", "StartupFailed", "ShutdownComplete", "ShutdownFailed",
              "HTTPResponseStart", "HTTPResponseBody", "WebsocketAccept", "WebsocketClose",
              "WebsocketSend"}
  BY DEF SendVariants, SendTypes
<1> USE DEF SendTypes, FieldsOf, Says, New, extract
<1>1. CASE v = "HTTPResponseStart"
  BY <1>0, <1>1 DEF HttpFields, Needs, parse_py_http_response_start
<1>2. CASE v = "HTTPResponseBody"
  BY <1>0, <1>2 DEF HttpFields, Needs, parse_py_http_response_body
<1>3. CASE v = "WebsocketAccept"
  BY <1>0, <1>3 DEF WebsocketFields, parse_websocket_accept
<1>4. CASE v = "WebsocketSend"
  BY <1>0, <1>4 DEF WebsocketFields, parse_websocket_send
<1>5. CASE v = "WebsocketClose"
  BY <1>0, <1>5 DEF WebsocketFields, parse_websocket_close
<1>6. CASE v = "StartupFailed"
  BY <1>0, <1>6 DEF LifespanFields, parse_startup_failed
<1>7. CASE v = "ShutdownFailed"
  BY <1>0, <1>7 DEF LifespanFields, parse_shutdown_failed
<1>8. CASE v \in {"StartupComplete", "ShutdownComplete"}
  <2>1. FieldsOf(v) = {} /\ m.well = {}
    BY <1>0, <1>8 DEF LifespanFields
  <2>2. extract(m) = [variant |-> v, own |-> {}]
    BY <1>0, <1>8, <2>1
  <2>3. extract(m) \in [variant : {v}, own : SUBSET FieldsOf(v)]
    <3>1. [variant |-> v, own |-> {}] \in [variant : {v}, own : SUBSET FieldsOf(v)]
      OBVIOUS
    <3>. QED BY ONLY <3>1, <2>2
  <2>4. Says(m, extract(m))
    <3>1. Says(m, [variant |-> v, own |-> {}])
      BY <1>0, <2>1 DEF Says
    <3>. QED BY <3>1, <2>2
  <2>. QED BY <2>3, <2>4
<1>. QED BY ONLY <1>a, <1>1, <1>2, <1>3, <1>4, <1>5, <1>6, <1>7, <1>8

(* The fields without which a message is turned away (convert.rs:11, 25).   *)
Required(v) ==
    IF v = "HTTPResponseStart" THEN {"status"}
    ELSE IF v = "HTTPResponseBody" THEN {"body"} ELSE {}

(* A message is turned away for want of a required field and for nothing     *)
(* else: no ill-typed optional field, and no mix of the fields, keeps the     *)
(* application from sending it (wrappers.rs:121-140, convert.rs:10-162).      *)
THEOREM RefusedOnlyForAWant ==
    ASSUME NEW v \in SendVariants, NEW m \in MessagesOf(v)
    PROVE  extract(m) = PyErr <=> ~(Required(v) \subseteq m.well)
<1>1. m.type = SendTypes[v]
  BY DEF MessagesOf
<1>2. v \in {"StartupComplete", "StartupFailed", "ShutdownComplete", "ShutdownFailed",
              "HTTPResponseStart", "HTTPResponseBody", "WebsocketAccept", "WebsocketClose",
              "WebsocketSend"}
  BY DEF SendVariants, SendTypes
<1>3. CASE v = "HTTPResponseStart"
  <2>1. extract(m) = IF "status" \in m.well
                     THEN [variant |-> "HTTPResponseStart",
                           own |-> (m.well \cap {"headers"}) \cup {"status"}]
                     ELSE PyErr
    BY <1>1, <1>3 DEF SendTypes, extract, parse_py_http_response_start, Needs, New
  <2>. QED BY <2>1, <1>3 DEF Required, PyErr
<1>4. CASE v = "HTTPResponseBody"
  <2>1. extract(m) = IF "body" \in m.well
                     THEN [variant |-> "HTTPResponseBody",
                           own |-> (m.well \cap {"more_body"}) \cup {"body"}]
                     ELSE PyErr
    BY <1>1, <1>4 DEF SendTypes, extract, parse_py_http_response_body, Needs, New
  <2>. QED BY <2>1, <1>4 DEF Required, PyErr
<1>5. CASE v \notin {"HTTPResponseStart", "HTTPResponseBody"}
  <2>1. extract(m).variant = v
    BY <1>1, <1>2, <1>5
    DEF SendTypes, extract, New, parse_startup_failed, parse_shutdown_failed,
        parse_websocket_accept, parse_websocket_send, parse_websocket_close
  <2>2. v # "PyErr"
    BY <1>2
  <2>. QED BY <2>1, <2>2, <1>5 DEF Required, PyErr
<1>. QED BY <1>3, <1>4, <1>5

(* What is extracted of a message the application can send is an event of   *)
(* the server that says it.                                                 *)
LEMMA MessageExtraction ==
    ASSUME NEW m \in AppMessages, extract(m) # PyErr
    PROVE  extract(m) \in AppEvents /\ Says(m, extract(m))
<1>1. CASE m \in Malformed
  <2>1. m.type \in {"none", "unknown"}
    BY <1>1 DEF Malformed
  <2>. QED BY <2>1 DEF extract
<1>2. CASE \E v \in SentVariants : m \in MessagesOf(v)
  <2>1. PICK v \in SendVariants : m \in MessagesOf(v)
    BY <1>2, PyBridgeAssumption
  <2>2. extract(m) \in [variant : {v}, own : SUBSET FieldsOf(v)] /\ Says(m, extract(m))
    BY <2>1, Extraction
  <2>3. [variant : {v}, own : SUBSET FieldsOf(v)] \subseteq SendEvents
    BY DEF SendEvents
  <2>. QED BY <2>2, <2>3, PyBridgeAssumption
<1>. QED BY <1>1, <1>2 DEF AppMessages

(* Every dictionary shows its event (wrappers.rs:159-168). *)
LEMMA DictShows ==
    ASSUME NEW v \in ReceiveVariants
    PROVE  into_pyobject(v) \in Dicts /\ Shows(into_pyobject(v), v)
<1>1. into_pyobject(v) \in Dicts
  BY DEF Dicts
<1>2. Shows(into_pyobject(v), v)
  BY DEF ReceiveVariants, ReceiveTypes, Shows, into_pyobject, Dict, FieldsOf, HttpFields,
         WebsocketFields, LifespanFields, http_request_event_into_py,
         http_disconnect_event_into_py, lifespan_startup_into_py, lifespan_shutdown_into_py,
         websocket_connect_into_py, websocket_receive_into_py, websocket_disconnect_into_py
<1>. QED BY <1>1, <1>2

-----------------------------------------------------------------------------
(* The inductive invariant: the two properties, their types, and that what  *)
(* waits in a call of send has been extracted.                              *)
Extracted == \A t \in Tasks : task[t] = "send" => extract(message[t]) # PyErr

BridgeInv ==
    /\ queue = [c \in Channels |-> queue[c]] /\ taken = [c \in Channels |-> taken[c]]
    /\ BridgeTypeOK
    /\ Extracted
    /\ SentAsAsked
    /\ ReceivedInOrder

(* No task has called send or receive. *)
LEMMA InitBridgeInv == BridgeInit => BridgeInv
<1> SUFFICES ASSUME BridgeInit PROVE BridgeInv
  OBVIOUS
<1>1. BridgeTypeOK
  BY DEF BridgeInit, LinkInit, BridgeTypeOK, Channels
<1>2. SentAsAsked /\ ReceivedInOrder
  BY DEF BridgeInit, LinkInit, SentAsAsked, ReceivedInOrder, Channels
<1>3. /\ queue = [c \in Channels |-> queue[c]]
      /\ taken = [c \in Channels |-> taken[c]]
  BY DEF BridgeInit, LinkInit
<1>4. Extracted
  BY DEF BridgeInit, Extracted
<1>. QED BY <1>1, <1>2, <1>3, <1>4 DEF BridgeInv

(* A call that is over leaves the tasks well typed.                         *)
LEMMA OverTypes ==
    ASSUME BridgeInv, NEW t \in Tasks, Over(t)
    PROVE  /\ task' \in [Tasks -> {"idle", "send", "receive"}]
           /\ message' \in [Tasks -> AppMessages \cup {NoMessage}]
           /\ \A u \in Tasks : message'[u] # NoMessage <=> task'[u] = "send"
           /\ held' \in SUBSET Channels
           /\ Extracted'
BY DEF BridgeInv, BridgeTypeOK, Extracted, Over

(* Putting an event into a queue adds it to what has left; taking one leaves *)
(* that as it is.                                                           *)
LEMMA PutEvent ==
    ASSUME NEW S, NEW s \in Seq(S), NEW q \in Seq(S), NEW e \in S
    PROVE  s \o Append(q, e) = Append(s \o q, e)
<1>1. s \o q \in Seq(S) /\ <<e>> \in Seq(S)
  BY ConcatProperties
<1>. QED BY <1>1, AppendIsConcat, ConcatAssociative

(* Appending moves no element. *)
LEMMA AppendPositions ==
    ASSUME NEW S, NEW s \in Seq(S), NEW e \in S
    PROVE  /\ Len(s) \in Nat /\ Len(Append(s, e)) = Len(s) + 1
           /\ Append(s, e)[Len(s) + 1] = e
           /\ \A i \in 1..Len(s) : Append(s, e)[i] = s[i]
BY AppendProperties, LenProperties

(* Taking an event moves it from what waits to what was taken. *)
LEMMA TakeEvent ==
    ASSUME NEW S, NEW s \in Seq(S), NEW q \in Seq(S), q # <<>>
    PROVE  Append(s, Head(q)) \o Tail(q) = s \o q
<1>1. /\ Head(q) \in S /\ Tail(q) \in Seq(S) /\ <<Head(q)>> \in Seq(S)
      /\ <<Head(q)>> \o Tail(q) = q
  BY HeadTailProperties
<1>2. Append(s, Head(q)) = s \o <<Head(q)>>
  BY <1>1, AppendIsConcat
<1>. QED BY <1>1, <1>2, ConcatAssociative

(* The properties only look at the queues, their histories and the closed   *)
(* queue to the application.                                                *)
LEMMA SameQueues ==
    ASSUME BridgeInv, UNCHANGED <<queue, taken, asked, received>>, open' \subseteq open,
           BridgeTypeOK', Extracted'
    PROVE  BridgeInv'
BY DEF BridgeInv, SentAsAsked, ReceivedInOrder, Drained

(* A call of send returns: its event is the last put, its message the last  *)
(* asked.                                                                   *)
LEMMA SendReturnsInv ==
    ASSUME BridgeInv, NEW t \in Tasks, SendReturns(t)
    PROVE  BridgeInv'
<1> DEFINE m == message[t]
           e == extract(m)
           out == taken["fromApp"] \o queue["fromApp"]
<1>1. m \in AppMessages /\ e \in AppEvents /\ Says(m, e)
  <2>1. m \in AppMessages /\ e # PyErr
    BY DEF BridgeInv, BridgeTypeOK, Extracted, SendReturns
  <2>. QED BY <2>1, MessageExtraction
<1>2. /\ queue' = [queue EXCEPT !["fromApp"] = Append(queue["fromApp"], e)]
      /\ asked' = Append(asked, m) /\ Over(t)
      /\ UNCHANGED <<taken, open, received>>
  BY DEF SendReturns, Put
<1> HIDE DEF m, e
<1>3. /\ queue["fromApp"] \in Seq(AppEvents) /\ taken["fromApp"] \in Seq(AppEvents)
      /\ asked \in Seq(AppMessages)
      /\ Append(queue["fromApp"], e) \in Seq(AppEvents) /\ asked' \in Seq(AppMessages)
      /\ out \in Seq(AppEvents)
  BY <1>1, <1>2 DEF BridgeInv, BridgeTypeOK
<1>4. /\ queue' = [c \in Channels |-> queue'[c]] /\ taken' = [c \in Channels |-> taken'[c]]
      /\ queue'["toApp"] = queue["toApp"]
      /\ queue'["fromApp"] = Append(queue["fromApp"], e)
  BY <1>2 DEF BridgeInv, Channels
<1>5. BridgeTypeOK' /\ Extracted'
  BY <1>2, <1>3, <1>4, OverTypes DEF BridgeInv, BridgeTypeOK
<1>6. SentAsAsked'
  <2>1. taken'["fromApp"] \o queue'["fromApp"] = Append(out, e)
    <3>1. taken["fromApp"] \o Append(queue["fromApp"], e) = Append(out, e)
      <4> DEFINE s == taken["fromApp"]
                 q == queue["fromApp"]
      <4>1. s \in Seq(AppEvents) /\ q \in Seq(AppEvents) /\ e \in AppEvents
        BY <1>1, <1>3
      <4> HIDE DEF s, q
      <4>2. s \o Append(q, e) = Append(s \o q, e)
        BY <4>1, PutEvent
      <4>. QED BY <4>2 DEF s, q
    <3>. QED BY <3>1, <1>2, <1>4
  <2>2. Len(out) = Len(asked) /\ \A i \in 1..Len(asked) : Says(asked[i], out[i])
    BY DEF BridgeInv, SentAsAsked
  <2> HIDE DEF out
  <2>3. /\ Len(Append(out, e)) = Len(out) + 1 /\ Len(asked') = Len(asked) + 1
        /\ Append(out, e)[Len(out) + 1] = e /\ asked'[Len(asked) + 1] = m
        /\ \A i \in 1..Len(out) : Append(out, e)[i] = out[i]
        /\ \A i \in 1..Len(asked) : asked'[i] = asked[i]
        /\ Len(asked) \in Nat
    BY <1>1, <1>2, <1>3, AppendPositions
  <2>4. \A i \in 1..Len(asked') : Says(asked'[i], Append(out, e)[i])
    BY <1>1, <2>2, <2>3
  <2>. QED BY <2>1, <2>2, <2>3, <2>4 DEF SentAsAsked
<1>7. ReceivedInOrder'
  BY <1>2, <1>4 DEF BridgeInv, ReceivedInOrder, Drained
<1>. QED BY <1>4, <1>5, <1>6, <1>7 DEF BridgeInv

(* A call of receive returns the dictionary of the event it takes. *)
LEMMA ReceiveReturnsInv ==
    ASSUME BridgeInv, NEW t \in Tasks, ReceiveReturns(t)
    PROVE  BridgeInv'
<1> DEFINE v == Head(queue["toApp"])
           d == into_pyobject(v)
           events == taken["toApp"]
<1>1. /\ queue["toApp"] # <<>>
      /\ queue' = [queue EXCEPT !["toApp"] = Tail(queue["toApp"])]
      /\ taken' = [taken EXCEPT !["toApp"] = Append(events, v)]
      /\ received' = Append(received, d) /\ Over(t)
      /\ UNCHANGED <<open, asked>>
  BY DEF ReceiveReturns, Take
<1>2. /\ queue["toApp"] \in Seq(ServerEvents) /\ events \in Seq(ServerEvents)
      /\ received \in Seq(Dicts)
  BY DEF BridgeInv, BridgeTypeOK
<1>3. /\ v \in ServerEvents /\ v \in ReceiveVariants
      /\ Tail(queue["toApp"]) \in Seq(ServerEvents)
  BY <1>1, <1>2, HeadTailProperties, PyBridgeAssumption
<1>4. d \in Dicts /\ Shows(d, v)
  BY <1>3, DictShows
<1> HIDE DEF v, d
<1>5. /\ queue' = [c \in Channels |-> queue'[c]] /\ taken' = [c \in Channels |-> taken'[c]]
      /\ queue'["toApp"] = Tail(queue["toApp"]) /\ taken'["toApp"] = Append(events, v)
      /\ queue'["fromApp"] = queue["fromApp"] /\ taken'["fromApp"] = taken["fromApp"]
  BY <1>1 DEF BridgeInv, Channels
<1>6. BridgeTypeOK' /\ Extracted'
  <2>1. Append(events, v) \in Seq(ServerEvents) /\ received' \in Seq(Dicts)
    BY <1>1, <1>2, <1>3, <1>4
  <2>. QED BY <1>1, <1>3, <1>5, <2>1, OverTypes DEF BridgeInv, BridgeTypeOK
<1>7. SentAsAsked'
  BY <1>1, <1>5 DEF BridgeInv, SentAsAsked
<1>8. ReceivedInOrder'
  <2>1. /\ Len(events) = Len(received)
        /\ \A i \in 1..Len(received) : Shows(received[i], events[i])
        /\ Len(received) \in Nat
    <3>1. Len(events) \in Nat /\ Len(received) \in Nat
      BY <1>2, LenProperties
    <3>2. ~Drained("toApp")
      BY <1>1 DEF Drained
    <3>3. Len(events) = Len(received)
      BY <3>1, <3>2 DEF BridgeInv, ReceivedInOrder
    <3>4. \A i \in 1..Len(received) : i <= Len(events)
      BY <3>1, <3>3
    <3>. QED BY <3>1, <3>3, <3>4 DEF BridgeInv, ReceivedInOrder
  <2>2. /\ Len(taken'["toApp"]) = Len(events) + 1 /\ Len(received') = Len(received) + 1
        /\ taken'["toApp"][Len(events) + 1] = v /\ received'[Len(received) + 1] = d
        /\ \A i \in 1..Len(events) : taken'["toApp"][i] = events[i]
        /\ \A i \in 1..Len(received) : received'[i] = received[i]
    BY <1>1, <1>2, <1>3, <1>4, <1>5, AppendPositions
  <2> HIDE DEF events
  <2>3. \A i \in 1..Len(received') : i <= Len(taken'["toApp"])
                                    /\ Shows(received'[i], taken'["toApp"][i])
    BY <1>4, <2>1, <2>2
  <2>. QED BY <2>1, <2>2, <2>3 DEF ReceivedInOrder
<1>. QED BY <1>5, <1>6, <1>7, <1>8 DEF BridgeInv

(* A call of receive finds its queue closed and drained, for good. *)
LEMMA ReceiveDisconnectInv ==
    ASSUME BridgeInv, NEW t \in Tasks, ReceiveDisconnect(t)
    PROVE  BridgeInv'
<1> DEFINE d == into_pyobject("HTTPDisconnect")
           events == taken["toApp"]
<1>1. /\ Drained("toApp") /\ Over(t)
      /\ received' = Append(received, d)
      /\ UNCHANGED <<queue, taken, open, asked>>
  BY DEF ReceiveDisconnect, Tell, Drained
<1>2. d \in Dicts /\ Shows(d, "HTTPDisconnect")
  BY DictShows DEF ReceiveVariants, ReceiveTypes
<1> HIDE DEF d
<1>3. received \in Seq(Dicts) /\ events \in Seq(ServerEvents)
  BY DEF BridgeInv, BridgeTypeOK
<1>4. /\ Len(received) \in Nat /\ Len(received') = Len(received) + 1
      /\ received'[Len(received) + 1] = d
      /\ \A i \in 1..Len(received) : received'[i] = received[i]
      /\ received' \in Seq(Dicts) /\ Len(events) \in Nat
  BY <1>1, <1>2, <1>3, AppendPositions, LenProperties
<1>5. BridgeTypeOK' /\ Extracted'
  BY <1>1, <1>4, OverTypes DEF BridgeInv, BridgeTypeOK
<1>6. SentAsAsked'
  BY <1>1 DEF BridgeInv, SentAsAsked
<1>7. ReceivedInOrder'
  <2>1. /\ Len(events) <= Len(received)
        /\ \A i \in 1..Len(received) :
              Shows(received[i], IF i <= Len(events) THEN events[i] ELSE "HTTPDisconnect")
    BY DEF BridgeInv, ReceivedInOrder
  <2>2. \A i \in 1..Len(received') :
              Shows(received'[i], IF i <= Len(events) THEN events[i] ELSE "HTTPDisconnect")
    BY <1>2, <1>4, <2>1
  <2>. QED BY <1>1, <1>4, <2>1, <2>2 DEF ReceivedInOrder, Drained
<1>. QED BY <1>1, <1>5, <1>6, <1>7 DEF BridgeInv

(* What a call of send waits with can be extracted. *)
LEMMA PySendInv ==
    ASSUME BridgeInv, NEW t \in Tasks, NEW m \in AppMessages, PySend(t, m)
    PROVE  BridgeInv'
<1>1. m # NoMessage
  <2>1. NoMessage.type = "no message"
    BY DEF NoMessage
  <2>2. extract(NoMessage) = PyErr
    BY <2>1 DEF extract
  <2>. QED BY <2>2 DEF PySend
<1>2. BridgeTypeOK' /\ Extracted'
  BY <1>1 DEF PySend, BridgeInv, BridgeTypeOK, Extracted, linkVars
<1>. QED BY <1>2, SameQueues DEF PySend, linkVars

(* A call of receive begins. *)
LEMMA PyReceiveInv ==
    ASSUME BridgeInv, NEW t \in Tasks, PyReceive(t)
    PROVE  BridgeInv'
<1>1. message[t] = NoMessage
  BY DEF PyReceive, BridgeInv, BridgeTypeOK
<1>2. BridgeTypeOK' /\ Extracted'
  BY <1>1 DEF PyReceive, BridgeInv, BridgeTypeOK, Extracted, linkVars
<1>. QED BY <1>2, SameQueues DEF PyReceive, linkVars

(* A call that ends without an event crossing. *)
LEMMA GivesUpInv ==
    ASSUME BridgeInv, NEW t \in Tasks, Cancel(t) \/ SendRaises(t)
    PROVE  BridgeInv'
<1>1. Over(t) /\ UNCHANGED <<queue, taken, open, asked, received>>
  BY DEF Cancel, SendRaises, Tell, linkVars
<1>2. BridgeTypeOK' /\ Extracted'
  BY <1>1, OverTypes DEF BridgeInv, BridgeTypeOK
<1>. QED BY <1>1, <1>2, SameQueues

(* An object is collected: its queue closes. *)
LEMMA CollectInv ==
    ASSUME BridgeInv, NEW c \in Channels, Collect(c)
    PROVE  BridgeInv'
<1>1. /\ UNCHANGED <<queue, taken, task, message, asked, received>>
      /\ open' \subseteq open /\ held' \subseteq held
  BY DEF Collect, Close, linkVars
<1>2. BridgeTypeOK' /\ Extracted'
  BY <1>1 DEF BridgeInv, BridgeTypeOK, Extracted
<1>. QED BY <1>1, <1>2, SameQueues

(* The server puts, takes or closes. *)
LEMMA ServerInv ==
    ASSUME BridgeInv, ServerStep
    PROVE  BridgeInv'
<1>0. UNCHANGED <<task, message, held, asked, received>>
  BY DEF ServerStep, bridgeVars
<1>1. ASSUME NEW v \in ServerEvents, Put("toApp", v)
      PROVE  BridgeInv'
  <2>1. /\ "toApp" \in open
        /\ queue' = [queue EXCEPT !["toApp"] = Append(queue["toApp"], v)]
        /\ UNCHANGED <<taken, open>>
    BY <1>1 DEF Put
  <2>2. /\ queue' = [c \in Channels |-> queue'[c]] /\ taken' = [c \in Channels |-> taken'[c]]
        /\ queue'["fromApp"] = queue["fromApp"]
        /\ queue'["toApp"] = Append(queue["toApp"], v)
    BY <2>1 DEF BridgeInv, Channels
  <2>3. queue'["toApp"] \in Seq(ServerEvents)
    BY <2>2 DEF BridgeInv, BridgeTypeOK
  <2>4. BridgeTypeOK' /\ Extracted'
    BY <1>0, <2>1, <2>2, <2>3 DEF BridgeInv, BridgeTypeOK, Extracted
  <2>5. SentAsAsked'
    BY <1>0, <2>1, <2>2 DEF BridgeInv, SentAsAsked
  <2>6. ReceivedInOrder'
    BY <1>0, <2>1 DEF BridgeInv, ReceivedInOrder, Drained
  <2>. QED BY <2>2, <2>4, <2>5, <2>6 DEF BridgeInv
<1>2. ASSUME Take("fromApp")
      PROVE  BridgeInv'
  <2> DEFINE s == taken["fromApp"]
             q == queue["fromApp"]
  <2>1. /\ q # <<>> /\ open' = open
        /\ queue' = [queue EXCEPT !["fromApp"] = Tail(q)]
        /\ taken' = [taken EXCEPT !["fromApp"] = Append(s, Head(q))]
    BY <1>2 DEF Take
  <2>2. s \in Seq(AppEvents) /\ q \in Seq(AppEvents)
    BY DEF BridgeInv, BridgeTypeOK
  <2>3. /\ queue' = [c \in Channels |-> queue'[c]] /\ taken' = [c \in Channels |-> taken'[c]]
        /\ queue'["fromApp"] = Tail(q) /\ taken'["fromApp"] = Append(s, Head(q))
        /\ queue'["toApp"] = queue["toApp"] /\ taken'["toApp"] = taken["toApp"]
    BY <2>1 DEF BridgeInv, Channels
  <2>4. Tail(q) \in Seq(AppEvents) /\ Append(s, Head(q)) \in Seq(AppEvents)
    BY <2>1, <2>2, HeadTailProperties, AppendProperties
  <2>5. Append(s, Head(q)) \o Tail(q) = s \o q
    <3> HIDE DEF s, q
    <3>. QED BY <2>1, <2>2, TakeEvent
  <2>6. BridgeTypeOK' /\ Extracted'
    BY <1>0, <2>3, <2>4 DEF BridgeInv, BridgeTypeOK, Extracted
  <2>7. SentAsAsked'
    <3>1. taken'["fromApp"] \o queue'["fromApp"] = s \o q
      BY <2>3, <2>5
    <3>. QED BY <1>0, <3>1 DEF BridgeInv, SentAsAsked
  <2>8. ReceivedInOrder'
    BY <1>0, <2>1, <2>3 DEF BridgeInv, ReceivedInOrder, Drained
  <2>. QED BY <2>3, <2>6, <2>7, <2>8 DEF BridgeInv
<1>3. ASSUME NEW C \in SUBSET open, Close(C)
      PROVE  BridgeInv'
  <2>1. open' \subseteq open /\ UNCHANGED <<queue, taken>>
    BY <1>3 DEF Close
  <2>2. BridgeTypeOK' /\ Extracted'
    BY <1>0, <2>1 DEF BridgeInv, BridgeTypeOK, Extracted
  <2>. QED BY <1>0, <2>1, <2>2, SameQueues
<1>. QED BY <1>1, <1>2, <1>3 DEF ServerStep

(* No step breaks the invariant. *)
LEMMA StepBridgeInv == BridgeInv /\ [BridgeNext]_vars => BridgeInv'
<1> SUFFICES ASSUME BridgeInv, [BridgeNext]_vars PROVE BridgeInv'
  OBVIOUS
<1>1. ASSUME NEW t \in Tasks, Finish(t) PROVE BridgeInv'
  BY <1>1, SendReturnsInv, GivesUpInv, ReceiveReturnsInv, ReceiveDisconnectInv DEF Finish
<1>2. CASE AppEnds \/ UNCHANGED vars
  <2>1. UNCHANGED <<queue, taken, open, task, message, held, asked, received>>
    BY <1>2 DEF AppEnds, End, vars, linkVars, bridgeVars
  <2>2. BridgeTypeOK' /\ Extracted'
    BY <2>1 DEF BridgeInv, BridgeTypeOK, Extracted
  <2>. QED BY <2>1, <2>2, SameQueues
<1>. QED BY <1>1, <1>2, PySendInv, PyReceiveInv, GivesUpInv, CollectInv, ServerInv DEF BridgeNext

-----------------------------------------------------------------------------
(* The invariant holds in every state. *)
THEOREM BridgeInvariant == BridgeSpec => []BridgeInv
BY InitBridgeInv, StepBridgeInv, PTL DEF BridgeSpec

(* What the server is sent is what the calls of send that returned were     *)
(* given, in order and field for field (wrappers.rs:121-140, 209-215).      *)
THEOREM MessagesCrossAsAsked == BridgeSpec => []SentAsAsked
<1>1. BridgeInv => SentAsAsked
  BY DEF BridgeInv
<1>. QED BY <1>1, BridgeInvariant, PTL

(* The application is given every event taken for it, in order, and then    *)
(* nothing but the disconnect of a closed and drained queue                 *)
(* (wrappers.rs:159-168, 231-234).                                          *)
THEOREM EventsCrossInOrder == BridgeSpec => []ReceivedInOrder
<1>1. BridgeInv => ReceivedInOrder
  BY DEF BridgeInv
<1>. QED BY <1>1, BridgeInvariant, PTL

(* Type correctness of the bridge; a message is kept exactly while its task *)
(* waits in send, and what is queued is an event (wrappers.rs:209-215).     *)
THEOREM BridgeTypeCorrect == BridgeSpec => []BridgeTypeOK
<1>1. BridgeInv => BridgeTypeOK
  BY DEF BridgeInv
<1>. QED BY <1>1, BridgeInvariant, PTL

-----------------------------------------------------------------------------
(* The bridge uses the queues as Link allows. *)

(* Every step is one of the link, or leaves it alone. *)
LEMMA BridgeStepUsesLink ==
    ASSUME BridgeInv, open \subseteq Channels, [BridgeNext]_vars
    PROVE  [LinkNext]_linkVars
<1>0. "toApp" \in Channels /\ "fromApp" \in Channels
      /\ Events("toApp") = ServerEvents /\ Events("fromApp") = AppEvents
  BY DEF Channels, Events
<1>1. ASSUME NEW t \in Tasks, SendReturns(t)
      PROVE  LinkNext
  <2>1. message[t] \in AppMessages /\ extract(message[t]) # PyErr
    BY <1>1 DEF SendReturns, BridgeInv, BridgeTypeOK, Extracted
  <2>2. extract(message[t]) \in AppEvents
    BY <2>1, MessageExtraction
  <2>. QED BY <1>0, <1>1, <2>2 DEF SendReturns, LinkNext
<1>2. ASSUME NEW t \in Tasks, SendRaises(t) \/ ReceiveReturns(t) \/ ReceiveDisconnect(t)
      PROVE  LinkNext
  BY <1>0, <1>2 DEF SendRaises, ReceiveReturns, ReceiveDisconnect, LinkNext
<1>3. ASSUME NEW t \in Tasks,
             Cancel(t) \/ PyReceive(t) \/ \E m \in AppMessages : PySend(t, m)
      PROVE  UNCHANGED linkVars
  BY <1>3 DEF Cancel, PyReceive, PySend
<1>4. CASE AppEnds
  BY <1>4 DEF AppEnds, LinkNext, Endings
<1>5. ASSUME NEW c \in Channels, Collect(c)
      PROVE  [LinkNext]_linkVars
  BY <1>5 DEF Collect, LinkNext
<1>6. CASE ServerStep
  <2>1. ASSUME NEW C \in SUBSET open, Close(C)
        PROVE  LinkNext
    BY <2>1 DEF LinkNext
  <2>. QED BY <1>0, <1>6, <2>1 DEF ServerStep, LinkNext
<1>7. CASE UNCHANGED vars
  BY <1>7 DEF vars
<1>. QED BY <1>1, <1>2, <1>3, <1>4, <1>5, <1>6, <1>7 DEF BridgeNext, Finish

(* A closed queue stays closed. *)
LEMMA OpenShrinks == [LinkNext]_linkVars => open' \subseteq open
BY DEF LinkNext, Put, Take, Report, Forget, Tell, Close, End, linkVars

(* The tasks, the objects they call and the server do to the queues only    *)
(* what Link lets the two sides do: the bridge stands on the same promises  *)
(* that Communication is proved to keep (wrappers.rs:205-235).              *)
THEOREM BridgeUsesLink == BridgeSpec => LinkSpec
<1>1. BridgeInit => LinkInit /\ open \subseteq Channels
  BY DEF BridgeInit, LinkInit
<1>2. BridgeInv /\ open \subseteq Channels /\ [BridgeNext]_vars
         => [LinkNext]_linkVars /\ (open \subseteq Channels)'
  BY BridgeStepUsesLink, OpenShrinks
<1>. QED BY <1>1, <1>2, BridgeInvariant, PTL DEF BridgeSpec, LinkSpec
=============================================================================
