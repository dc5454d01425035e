------------------------- MODULE CommunicationProofs -------------------------
(***************************************************************************)
(* Proofs about the link between the server and one call of the            *)
(* application, for every capacity, every set of events and every user of   *)
(* the two handles.  CommInv is inductive; the safety properties of         *)
(* Communication are consequences of it, and so is that it implements Link. *)
(***************************************************************************)
EXTENDS Communication, SequenceTheorems, TLAPS

(* Appending to the buffer appends to the whole history. *)
LEMMA ConcatAppend ==
    ASSUME NEW S, NEW g \in Seq(S), NEW b \in Seq(S), NEW m \in S
    PROVE  g \o Append(b, m) = Append(g \o b, m)
<1>1. /\ g \o b \in Seq(S)
      /\ <<m>> \in Seq(S)
  BY ConcatProperties
<1>2. Append(b, m) = b \o <<m>> /\ Append(g \o b, m) = (g \o b) \o <<m>>
  BY <1>1, AppendIsConcat
<1>3. QED
  BY <1>1, <1>2, ConcatAssociative

(* Moving the head of the buffer to the received events leaves the history. *)
LEMMA MoveHead ==
    ASSUME NEW S, NEW g \in Seq(S), NEW b \in Seq(S), b # <<>>
    PROVE  Append(g, Head(b)) \o Tail(b) = g \o b
<1>1. Head(b) \in S /\ Tail(b) \in Seq(S) /\ Len(Tail(b)) = Len(b) - 1
      /\ \A i \in 1 .. Len(Tail(b)) : Tail(b)[i] = b[i + 1]
  BY HeadTailProperties
<1>2. Append(g, Head(b)) \in Seq(S) /\ Len(Append(g, Head(b))) = Len(g) + 1
      /\ \A i \in 1 .. Len(g) : Append(g, Head(b))[i] = g[i]
      /\ Append(g, Head(b))[Len(g) + 1] = Head(b)
  BY <1>1, AppendProperties
<1>3. Len(g) \in Nat /\ Len(b) \in Nat \ {0} /\ Head(b) = b[1]
  BY LenProperties, EmptySeq
<1> DEFINE l == Append(g, Head(b)) \o Tail(b)
           r == g \o b
<1>4. /\ l \in Seq(S) /\ Len(l) = Len(g) + 1 + (Len(b) - 1)
      /\ \A i \in 1 .. Len(g) + 1 + (Len(b) - 1) :
           l[i] = IF i <= Len(g) + 1 THEN Append(g, Head(b))[i]
                                     ELSE Tail(b)[i - (Len(g) + 1)]
  BY <1>1, <1>2, ConcatProperties
<1>5. /\ r \in Seq(S) /\ Len(r) = Len(g) + Len(b)
      /\ \A i \in 1 .. Len(g) + Len(b) :
           r[i] = IF i <= Len(g) THEN g[i] ELSE b[i - Len(g)]
  BY ConcatProperties
<1>6. ASSUME NEW i \in 1 .. Len(l)
      PROVE  l[i] = r[i]
  <2>1. CASE i <= Len(g)
    BY <2>1, <1>2, <1>3, <1>4, <1>5
  <2>2. CASE i = Len(g) + 1
    BY <2>2, <1>2, <1>3, <1>4, <1>5
  <2>3. CASE i > Len(g) + 1
    <3>1. i - (Len(g) + 1) \in 1 .. Len(Tail(b))
      BY <2>3, <1>1, <1>3, <1>4
    <3>2. l[i] = b[(i - (Len(g) + 1)) + 1]
      BY <2>3, <3>1, <1>1, <1>3, <1>4
    <3>3. r[i] = b[i - Len(g)]
      BY <2>3, <1>3, <1>4, <1>5
    <3>4. QED
      BY <3>2, <3>3, <1>3
  <2>4. QED
    BY <2>1, <2>2, <2>3, <1>3, <1>4
<1>7. Len(l) = Len(r)
  BY <1>3, <1>4, <1>5
<1>8. l = r
  BY <1>4, <1>5, <1>6, <1>7, SeqEqual
<1>9. QED
  BY <1>8

-----------------------------------------------------------------------------
(* The events a channel carries. *)
EventsOf(c) == IF c = "toApp" THEN ServerEvents ELSE AppEvents

(* A history is a sequence of the events of its channel, for each. *)
LEMMA HistoryChannels ==
    \A h : h \in Histories <=>
             /\ h \in [Channels -> Seq(ServerEvents \cup AppEvents)]
             /\ \A c \in Channels : h[c] \in Seq(EventsOf(c))
BY DEF Histories, EventsOf, Channels

(* A sequence of the events of a channel is one of events. *)
LEMMA WideSeq ==
    ASSUME NEW c \in Channels, NEW s \in Seq(EventsOf(c))
    PROVE  s \in Seq(ServerEvents \cup AppEvents)
<1>1. EventsOf(c) \subseteq ServerEvents \cup AppEvents
  BY DEF EventsOf
<1>2. QED
  BY <1>1, SeqMonotonic

(* Replacing one channel's history by one of that channel. *)
LEMMA HistoryUpdate ==
    ASSUME NEW h \in Histories, NEW c \in Channels, NEW s \in Seq(EventsOf(c))
    PROVE  /\ [h EXCEPT ![c] = s] \in Histories
           /\ [h EXCEPT ![c] = s][c] = s
           /\ \A d \in Channels \ {c} : [h EXCEPT ![c] = s][d] = h[d]
<1> DEFINE g == [h EXCEPT ![c] = s]
<1>1. s \in Seq(ServerEvents \cup AppEvents)
  BY WideSeq
<1>2. /\ h \in [Channels -> Seq(ServerEvents \cup AppEvents)]
      /\ \A d \in Channels : h[d] \in Seq(EventsOf(d))
  BY HistoryChannels
<1>3. /\ g \in [Channels -> Seq(ServerEvents \cup AppEvents)]
      /\ g[c] = s
      /\ \A d \in Channels \ {c} : g[d] = h[d]
  BY <1>1, <1>2
<1>4. \A d \in Channels : g[d] \in Seq(EventsOf(d))
  BY <1>2, <1>3
<1>5. g \in Histories
  <2> HIDE DEF g
  <2> QED BY <1>3, <1>4, HistoryChannels
<1>6. QED
  BY <1>3, <1>5

(* What an event entering a channel leaves true. *)
LEMMA PushFacts ==
    ASSUME TypeOK, Lossless, NEW c \in Channels, NEW m \in EventsOf(c), Push(c, m)
    PROVE  /\ buf' \in Histories /\ sent' \in Histories /\ got' \in Histories
           /\ Lossless'
           /\ \A d \in Channels \ {c} : buf'[d] = buf[d]
<1>1. buf \in Histories /\ sent \in Histories /\ got \in Histories
  BY DEF TypeOK
<1>2. buf[c] \in Seq(EventsOf(c)) /\ sent[c] \in Seq(EventsOf(c)) /\ got[c] \in Seq(EventsOf(c))
  BY <1>1, HistoryChannels
<1>3. Append(buf[c], m) \in Seq(EventsOf(c)) /\ Append(sent[c], m) \in Seq(EventsOf(c))
  BY <1>2, AppendProperties
<1>4. /\ buf'  = [buf  EXCEPT ![c] = Append(buf[c], m)]
      /\ sent' = [sent EXCEPT ![c] = Append(sent[c], m)]
      /\ got'  = got
  BY DEF Push
<1>5. /\ buf' \in Histories /\ buf'[c] = Append(buf[c], m)
      /\ \A d \in Channels \ {c} : buf'[d] = buf[d]
  <2> DEFINE x == Append(buf[c], m)
  <2>0. x \in Seq(EventsOf(c))
    BY <1>3, <1>4
  <2>1. buf' = [buf EXCEPT ![c] = x]
    BY <1>3, <1>4
  <2>2. LET k == [buf EXCEPT ![c] = x]
        IN  k \in Histories /\ k[c] = x /\ \A d \in Channels \ {c} : k[d] = buf[d]
    <3> HIDE DEF x
    <3> QED BY <1>1, <2>0, HistoryUpdate
  <2>3. QED
    BY <2>1, <2>2
<1>6. /\ sent' \in Histories /\ sent'[c] = Append(sent[c], m)
      /\ \A d \in Channels \ {c} : sent'[d] = sent[d]
  <2> DEFINE x == Append(sent[c], m)
  <2>0. x \in Seq(EventsOf(c))
    BY <1>3, <1>4
  <2>1. sent' = [sent EXCEPT ![c] = x]
    BY <1>3, <1>4
  <2>2. LET k == [sent EXCEPT ![c] = x]
        IN  k \in Histories /\ k[c] = x /\ \A d \in Channels \ {c} : k[d] = sent[d]
    <3> HIDE DEF x
    <3> QED BY <1>1, <2>0, HistoryUpdate
  <2>3. QED
    BY <2>1, <2>2
<1>7. got[c] \o Append(buf[c], m) = Append(got[c] \o buf[c], m)
  <2>1. \A g, b \in Seq(EventsOf(c)) : g \o Append(b, m) = Append(g \o b, m)
    BY ConcatAppend
  <2>2. QED
    BY <1>2, <2>1
<1>8. Lossless'
  BY <1>4, <1>5, <1>6, <1>7 DEF Lossless
<1>9. QED
  BY <1>1, <1>4, <1>5, <1>6, <1>8

(* What taking an event out of a channel leaves true. *)
LEMMA PopFacts ==
    ASSUME TypeOK, Lossless, NEW c \in Channels, Pop(c)
    PROVE  /\ buf' \in Histories /\ sent' \in Histories /\ got' \in Histories
           /\ Lossless'
           /\ \A d \in Channels \ {c} : buf'[d] = buf[d]
           /\ Head(buf[c]) \in EventsOf(c)
<1>1. buf \in Histories /\ sent \in Histories /\ got \in Histories
  BY DEF TypeOK
<1>2. buf[c] \in Seq(EventsOf(c)) /\ got[c] \in Seq(EventsOf(c)) /\ buf[c] # <<>>
  BY <1>1, HistoryChannels DEF Pop
<1>3. /\ Head(buf[c]) \in EventsOf(c)
      /\ Tail(buf[c]) \in Seq(EventsOf(c))
  BY <1>2, HeadTailProperties
<1>4. Append(got[c], Head(buf[c])) \in Seq(EventsOf(c))
  BY <1>2, <1>3, AppendProperties
<1>5. /\ buf' = [buf EXCEPT ![c] = Tail(buf[c])]
      /\ got' = [got EXCEPT ![c] = Append(got[c], Head(buf[c]))]
      /\ sent' = sent
  BY DEF Pop
<1>6. /\ buf' \in Histories /\ buf'[c] = Tail(buf[c])
      /\ \A d \in Channels \ {c} : buf'[d] = buf[d]
  <2> DEFINE x == Tail(buf[c])
  <2>0. x \in Seq(EventsOf(c))
    BY <1>3, <1>5
  <2>1. buf' = [buf EXCEPT ![c] = x]
    BY <1>3, <1>5
  <2>2. LET k == [buf EXCEPT ![c] = x]
        IN  k \in Histories /\ k[c] = x /\ \A d \in Channels \ {c} : k[d] = buf[d]
    <3> HIDE DEF x
    <3> QED BY <1>1, <2>0, HistoryUpdate
  <2>3. QED
    BY <2>1, <2>2
<1>7. /\ got' \in Histories /\ got'[c] = Append(got[c], Head(buf[c]))
      /\ \A d \in Channels \ {c} : got'[d] = got[d]
  <2> DEFINE x == Append(got[c], Head(buf[c]))
  <2>0. x \in Seq(EventsOf(c))
    BY <1>4, <1>5
  <2>1. got' = [got EXCEPT ![c] = x]
    BY <1>4, <1>5
  <2>2. LET k == [got EXCEPT ![c] = x]
        IN  k \in Histories /\ k[c] = x /\ \A d \in Channels \ {c} : k[d] = got[d]
    <3> HIDE DEF x
    <3> QED BY <1>1, <2>0, HistoryUpdate
  <2>3. QED
    BY <2>1, <2>2
<1>8. Append(got[c], Head(buf[c])) \o Tail(buf[c]) = got[c] \o buf[c]
  BY <1>2, MoveHead
<1>9. Lossless'
  BY <1>5, <1>6, <1>7, <1>8 DEF Lossless
<1>10. QED
  BY <1>1, <1>3, <1>5, <1>6, <1>7, <1>9
-----------------------------------------------------------------------------
(* CommInv is inductive: one lemma per group of actions. *)

(* The link as it is built. *)
LEMMA InitInv == CommInit => CommInv
<1> SUFFICES ASSUME CommInit PROVE CommInv
  OBVIOUS
<1>1. <<>> \in Seq(ServerEvents) /\ <<>> \in Seq(AppEvents)
      /\ <<>> \in Seq(ServerEvents \cup AppEvents)
  BY EmptySeq
<1>2. buf \in Histories /\ sent \in Histories /\ got \in Histories
  BY <1>1 DEF CommInit, Histories, Channels
<1>3. TypeOK
  BY <1>2 DEF TypeOK, CommInit, Channels, Points
<1>4. Lossless
  BY <1>1, ConcatEmptySeq DEF Lossless, CommInit
<1>5. SeenDrained /\ OneshotTruth /\ SingleAwaiter
  BY DEF CommInit, SeenDrained, OneshotTruth, SingleAwaiter, Awaiting, Results, Channels
<1>6. QED
  BY <1>3, <1>4, <1>5 DEF CommInv

(* A step of the application or of its task. *)
LEMMA AppInv ==
    ASSUME CommInv, AppStep
    PROVE  CommInv'
<1> USE DEF channelVars, endVars, appVars, handleVars, callVars
<1>0. TypeOK /\ Lossless /\ SeenDrained /\ OneshotTruth /\ SingleAwaiter
  BY DEF CommInv
<1>1. ASSUME NEW m \in AppEvents, AppSend(m)
      PROVE  CommInv'
  <2>1. /\ Push("fromApp", m) /\ m \in EventsOf("fromApp") /\ "fromApp" \in Channels
        /\ UNCHANGED <<endVars, appVars, handleVars, callVars>>
    BY <1>1 DEF AppSend, EventsOf, Channels
  <2>2. /\ buf' \in Histories /\ sent' \in Histories /\ got' \in Histories
        /\ Lossless'
        /\ \A d \in Channels \ {"fromApp"} : buf'[d] = buf[d]
    BY <1>0, <2>1, PushFacts
  <2>3. TypeOK'
    BY <1>0, <2>1, <2>2 DEF TypeOK
  <2>4. SeenDrained'
    BY <1>0, <2>1, <2>2 DEF SeenDrained, Drained, Closed, Push, Channels
  <2>5. OneshotTruth' /\ SingleAwaiter'
    BY <1>0, <2>1 DEF OneshotTruth, SingleAwaiter, Awaiting
  <2>6. QED
    BY <2>2, <2>3, <2>4, <2>5 DEF CommInv
<1>2. ASSUME AppReceive
      PROVE  CommInv'
  <2>1. /\ Pop("toApp") /\ "toApp" \in Channels
        /\ UNCHANGED <<endVars, appVars, handleVars, callVars>>
    BY <1>2 DEF AppReceive, Channels
  <2>2. /\ buf' \in Histories /\ sent' \in Histories /\ got' \in Histories
        /\ Lossless'
        /\ \A d \in Channels \ {"toApp"} : buf'[d] = buf[d]
    BY <1>0, <2>1, PopFacts
  <2>3. TypeOK'
    BY <1>0, <2>1, <2>2 DEF TypeOK
  <2>4. SeenDrained'
    BY <1>0, <2>1, <2>2 DEF SeenDrained, Drained, Closed, Pop, Channels
  <2>5. OneshotTruth' /\ SingleAwaiter'
    BY <1>0, <2>1 DEF OneshotTruth, SingleAwaiter, Awaiting
  <2>6. QED
    BY <2>2, <2>3, <2>4, <2>5 DEF CommInv
<1>3. ASSUME AppSendRejected \/ AppReceiveDisconnect
      PROVE  CommInv'
  <2>1. /\ UNCHANGED <<channelVars, endVars, app, oneshot, handleVars, callVars>>
        /\ told' \in SUBSET Channels
        /\ "toApp" \in told' => "toApp" \in told \/ Drained("toApp")
    BY <1>0, <1>3 DEF AppSendRejected, AppReceiveDisconnect, TypeOK, Channels, Drained
  <2>2. TypeOK' /\ Lossless'
    BY <1>0, <2>1 DEF TypeOK, Lossless
  <2>3. SeenDrained'
    BY <1>0, <2>1 DEF SeenDrained, Drained, Closed
  <2>4. OneshotTruth' /\ SingleAwaiter'
    BY <1>0, <2>1 DEF OneshotTruth, SingleAwaiter, Awaiting
  <2>5. QED
    BY <2>2, <2>3, <2>4 DEF CommInv
<1>4. ASSUME NEW c \in Channels, AppDrops(c)
      PROVE  CommInv'
  <2>1. /\ appHas' = appHas \ {c}
        /\ UNCHANGED <<channelVars, serverHas, appVars, handleVars, callVars>>
    BY <1>4 DEF AppDrops
  <2>2. TypeOK' /\ Lossless'
    BY <1>0, <2>1 DEF TypeOK, Lossless
  <2>3. SeenDrained'
    BY <1>0, <2>1 DEF SeenDrained, Drained, Closed
  <2>4. OneshotTruth' /\ SingleAwaiter'
    BY <1>0, <2>1 DEF OneshotTruth, SingleAwaiter, Awaiting
  <2>5. QED
    BY <2>2, <2>3, <2>4 DEF CommInv
<1>5. ASSUME NEW e \in Endings, AppEnds(e)
      PROVE  CommInv'
  <2>1. /\ app = "running" /\ app' = e
        /\ UNCHANGED <<channelVars, endVars, oneshot, told, handleVars, callVars>>
    BY <1>5 DEF AppEnds
  <2>2. TypeOK' /\ Lossless'
    BY <1>0, <2>1 DEF TypeOK, Lossless
  <2>3. SeenDrained'
    BY <1>0, <2>1 DEF SeenDrained, Drained, Closed
  <2>4. OneshotTruth' /\ SingleAwaiter'
    BY <1>0, <2>1 DEF OneshotTruth, SingleAwaiter, Awaiting, Endings
  <2>5. QED
    BY <2>2, <2>3, <2>4 DEF CommInv
<1>6. ASSUME DeliverResult
      PROVE  CommInv'
  <2>1. /\ app # "running" /\ oneshot = "pending"
        /\ oneshot' = IF app = "Panicked" THEN "dropped" ELSE app
        /\ UNCHANGED <<channelVars, endVars, app, told, handleVars, callVars>>
    BY <1>6 DEF DeliverResult
  <2>2. TypeOK' /\ Lossless'
    BY <1>0, <2>1 DEF TypeOK, Lossless, Endings
  <2>3. SeenDrained'
    BY <1>0, <2>1 DEF SeenDrained, Drained, Closed
  <2>4. oneshot' # "pending"
    BY <1>0, <2>1 DEF TypeOK, Endings
  <2>5. OneshotTruth' /\ SingleAwaiter'
    BY <1>0, <2>1, <2>4 DEF OneshotTruth, SingleAwaiter, Awaiting
  <2>6. QED
    BY <2>2, <2>3, <2>5 DEF CommInv
<1>7. QED
  BY <1>1, <1>2, <1>3, <1>4, <1>5, <1>6 DEF AppStep
(* A channel operation of a handle that moved an event. *)
LEMMA TransferInv ==
    ASSUME CommInv, SendAccepted \/ ReceiveAccepted
    PROVE  CommInv'
<1> USE DEF channelVars, endVars, appVars, handleVars, callVars
<1>0. TypeOK /\ Lossless /\ SeenDrained /\ OneshotTruth /\ SingleAwaiter
  BY DEF CommInv
<1>1. CASE SendAccepted
  <2>1. /\ Push("toApp", arg) /\ arg \in EventsOf("toApp") /\ "toApp" \in Channels
        /\ at' = [at EXCEPT !["toApp"] = "idle"] /\ arg' = "none"
        /\ answer' = [answer EXCEPT !["toApp"] = "ok"]
        /\ UNCHANGED <<endVars, appVars, handleVars>>
    BY <1>0, <1>1 DEF SendAccepted, Return, TypeOK, EventsOf, Channels
  <2>2. /\ buf' \in Histories /\ sent' \in Histories /\ got' \in Histories
        /\ Lossless'
        /\ \A d \in Channels \ {"toApp"} : buf'[d] = buf[d]
    BY <1>0, <2>1, PushFacts
  <2>3. TypeOK'
    BY <1>0, <2>1, <2>2 DEF TypeOK, Points
  <2>4. SeenDrained'
    <3>1. ~Closed("toApp")
      BY <2>1 DEF Push
    <3>2. QED
      BY <1>0, <2>1, <2>2, <3>1 DEF SeenDrained, Drained, Closed, Channels, TypeOK
  <2>5. OneshotTruth' /\ SingleAwaiter'
    BY <1>0, <2>1 DEF OneshotTruth, SingleAwaiter, Awaiting, TypeOK
  <2>6. QED
    BY <2>2, <2>3, <2>4, <2>5 DEF CommInv
<1>2. CASE ReceiveAccepted
  <2>1. /\ Pop("fromApp") /\ "fromApp" \in Channels /\ at["fromApp"] = "channel"
        /\ at' = [at EXCEPT !["fromApp"] = "idle"] /\ arg' = arg
        /\ answer' = [answer EXCEPT !["fromApp"] = Head(buf["fromApp"])]
        /\ UNCHANGED <<endVars, appVars, handleVars>>
    BY <1>2 DEF ReceiveAccepted, Return, Channels
  <2>2. /\ buf' \in Histories /\ sent' \in Histories /\ got' \in Histories
        /\ Lossless'
        /\ \A d \in Channels \ {"fromApp"} : buf'[d] = buf[d]
        /\ Head(buf["fromApp"]) \in EventsOf("fromApp")
    BY <1>0, <2>1, PopFacts
  <2>3. Head(buf["fromApp"]) \in AppEvents /\ Head(buf["fromApp"]) \notin Results
    BY <2>2, CommunicationAssumption DEF EventsOf
  <2>4. TypeOK'
    BY <1>0, <2>1, <2>2, <2>3 DEF TypeOK, Points
  <2>5. SeenDrained'
    BY <1>0, <2>1, <2>2, <2>3 DEF SeenDrained, Drained, Closed, Channels, TypeOK
  <2>6. OneshotTruth' /\ SingleAwaiter'
    BY <1>0, <2>1, <2>3 DEF OneshotTruth, SingleAwaiter, Awaiting, TypeOK, Results
  <2>7. QED
    BY <2>2, <2>4, <2>5, <2>6 DEF CommInv
<1>3. QED
  BY <1>1, <1>2

(* Beginning a call, or giving calls and handles up. *)
LEMMA OwnerInv ==
    ASSUME CommInv,
           \/ \E m \in ServerEvents : BeginSend(m)
           \/ BeginReceive
           \/ \E C \in SUBSET Channels, D \in SUBSET Channels : Abandon(C, D)
    PROVE  CommInv'
<1> USE DEF channelVars, endVars, appVars, handleVars, callVars
<1>0. TypeOK /\ Lossless /\ SeenDrained /\ OneshotTruth /\ SingleAwaiter
  BY DEF CommInv
<1>1. ASSUME NEW m \in ServerEvents, BeginSend(m)
      PROVE  CommInv'
  <2>1. /\ at' = [at EXCEPT !["toApp"] = "channel"] /\ arg' = m
        /\ answer' = [answer EXCEPT !["toApp"] = "none"]
        /\ UNCHANGED <<channelVars, endVars, appVars, handleVars>>
    BY <1>1 DEF BeginSend
  <2>2. TypeOK' /\ Lossless'
    BY <1>0, <2>1 DEF TypeOK, Lossless, Points
  <2>3. SeenDrained'
    BY <1>0, <2>1 DEF SeenDrained, Drained, Closed, TypeOK
  <2>4. OneshotTruth' /\ SingleAwaiter'
    BY <1>0, <2>1 DEF OneshotTruth, SingleAwaiter, Awaiting, TypeOK
  <2>5. QED
    BY <2>2, <2>3, <2>4 DEF CommInv
<1>2. ASSUME BeginReceive
      PROVE  CommInv'
  <2>1. /\ at' = [at EXCEPT !["fromApp"] = "channel"]
        /\ answer' = [answer EXCEPT !["fromApp"] = "none"]
        /\ UNCHANGED <<channelVars, endVars, appVars, handleVars, arg>>
    BY <1>2 DEF BeginReceive
  <2>2. TypeOK' /\ Lossless'
    BY <1>0, <2>1 DEF TypeOK, Lossless, Points, Channels
  <2>3. SeenDrained'
    BY <1>0, <2>1 DEF SeenDrained, Drained, Closed, TypeOK, Channels, Results
  <2>4. OneshotTruth' /\ SingleAwaiter'
    BY <1>0, <2>1 DEF OneshotTruth, SingleAwaiter, Awaiting, TypeOK
  <2>5. QED
    BY <2>2, <2>3, <2>4 DEF CommInv
<1>3. ASSUME NEW C \in SUBSET Channels, NEW D \in SUBSET Channels, Abandon(C, D)
      PROVE  CommInv'
  <2>1. /\ serverHas' = serverHas \ D
        /\ at' \in [Channels -> Points]
        /\ \A c \in Channels : at'[c] = at[c] \/ at'[c] = "idle"
        /\ arg' \in {"none"} \cup ServerEvents
        /\ at'["toApp"] = "channel" => arg' = arg /\ at["toApp"] = "channel"
        /\ UNCHANGED <<channelVars, appHas, appVars, handleVars, answer>>
    BY <1>0, <1>3 DEF Abandon, TypeOK, Points, Channels
  <2>2. TypeOK' /\ Lossless'
    <3>1. at'["toApp"] = "channel" => arg' \in ServerEvents
      BY <1>0, <2>1 DEF TypeOK
    <3>2. serverHas' \in SUBSET Channels
      BY <1>0, <2>1 DEF TypeOK
    <3>3. TypeOK'
      BY <1>0, <2>1, <3>1, <3>2 DEF TypeOK
    <3>4. Lossless'
      BY <1>0, <2>1 DEF Lossless
    <3>5. QED
      BY <3>3, <3>4
  <2>3. SeenDrained'
    BY <1>0, <2>1 DEF SeenDrained, Drained, Closed, Channels
  <2>4. OneshotTruth' /\ SingleAwaiter'
    BY <1>0, <2>1 DEF OneshotTruth, SingleAwaiter, Awaiting
  <2>5. QED
    BY <2>2, <2>3, <2>4 DEF CommInv
<1>4. QED
  BY <1>1, <1>2, <1>3

(* wait_for_completion, entered when the channel operation has failed. *)
LEMMA WaitInv ==
    ASSUME CommInv, NEW c \in Channels, ChannelFailed(c) \/ WaitForCompletion(c)
    PROVE  CommInv'
<1> USE DEF channelVars, endVars, appVars, handleVars, callVars
<1>0. TypeOK /\ Lossless /\ SeenDrained /\ OneshotTruth /\ SingleAwaiter
  BY DEF CommInv
<1>1. /\ UNCHANGED <<channelVars, endVars, appVars>>
      /\ at[c] \in {"channel", "cached", "take", "recheck", "await", "store"}
      /\ c = "fromApp" => Drained("fromApp")
  BY <1>0 DEF ChannelFailed, WaitForCompletion, ReadCached, TakeReceiver, Recheck,
              AwaitResult, StoreResult, SeenDrained, Drained
<1>2. SeenDrained /\ Lossless'
  BY <1>0, <1>1 DEF Lossless
<1>3. ASSUME NEW x \in Results, Return(c, x), slot' = slot,
             \/ cached' = cached /\ x = cached /\ ~Awaiting(c)
             \/ cached' = cached /\ x = "Unexpected" /\ ~Awaiting(c)
             \/ cached' = x /\ x = ResultOf(oneshot) /\ at[c] = "store"
      PROVE  CommInv'
  <2>1. /\ at' = [at EXCEPT ![c] = "idle"] /\ answer' = [answer EXCEPT ![c] = x]
        /\ arg' \in {arg, "none"}
        /\ c = "fromApp" => arg' = arg
    BY <1>3 DEF Return
  <2>2. TypeOK'
    <3>1. at' \in [Channels -> Points] /\ cached' \in {"none"} \cup Results
      BY <1>0, <1>3, <2>1 DEF TypeOK, Points
    <3>2. answer' \in [Channels -> {"none", "ok"} \cup Results \cup AppEvents]
      BY <1>0, <1>3, <2>1 DEF TypeOK
    <3>3. arg' \in {"none"} \cup ServerEvents
          /\ (at'["toApp"] = "channel" => arg' \in ServerEvents)
      BY <1>0, <2>1 DEF TypeOK, Channels
    <3>4. QED
      BY <1>0, <1>1, <1>3, <3>1, <3>2, <3>3 DEF TypeOK
  <2>3. SeenDrained'
    BY <1>0, <1>1, <2>1 DEF SeenDrained, Drained, Closed, TypeOK, Channels
  <2>4. OneshotTruth'
    BY <1>0, <1>1, <1>3, <2>1
       DEF OneshotTruth, SingleAwaiter, Awaiting, TypeOK, ResultOf, Results
  <2>5. SingleAwaiter'
    BY <1>0, <1>1, <1>3, <2>1 DEF SingleAwaiter, Awaiting, TypeOK
  <2>6. QED
    BY <1>2, <2>2, <2>3, <2>4, <2>5 DEF CommInv
<1>4. ASSUME NEW p \in {"cached", "take", "recheck", "await", "store"}, Goto(c, p),
             cached' = cached, slot' \in BOOLEAN, slot' => slot,
             p = "await" => slot /\ ~slot',
             p = "store" => oneshot # "pending" /\ at[c] = "await"
      PROVE  CommInv'
  <2>1. at' = [at EXCEPT ![c] = p] /\ UNCHANGED <<arg, answer>>
    BY <1>4 DEF Goto
  <2>2. TypeOK'
    BY <1>0, <1>1, <1>4, <2>1 DEF TypeOK, Points, Channels
  <2>3. SeenDrained'
    BY <1>0, <1>1, <2>1 DEF SeenDrained, Drained, Closed, TypeOK, Channels
  <2>4. OneshotTruth'
    BY <1>0, <1>1, <1>4, <2>1 DEF OneshotTruth, TypeOK
  <2>5. SingleAwaiter'
    BY <1>0, <1>1, <1>4, <2>1 DEF SingleAwaiter, Awaiting, OneshotTruth, TypeOK
  <2>6. QED
    BY <1>2, <2>2, <2>3, <2>4, <2>5 DEF CommInv
<1>5. CASE ChannelFailed(c)
  BY <1>0, <1>4, <1>5 DEF ChannelFailed, TypeOK
<1>6. CASE ReadCached(c)
  <2>1. CASE cached # "none"
    BY <1>0, <1>3, <1>6, <2>1 DEF ReadCached, Awaiting, TypeOK
  <2>2. CASE cached = "none"
    BY <1>0, <1>4, <1>6, <2>2 DEF ReadCached, TypeOK
  <2>3. QED
    BY <2>1, <2>2
<1>7. CASE TakeReceiver(c)
  BY <1>0, <1>4, <1>7 DEF TakeReceiver, TypeOK
<1>8. CASE Recheck(c)
  BY <1>0, <1>3, <1>8 DEF Recheck, Awaiting, TypeOK, Results
<1>9. CASE AwaitResult(c)
  BY <1>0, <1>4, <1>9 DEF AwaitResult, TypeOK
<1>10. CASE StoreResult(c)
  <2>1. ResultOf(oneshot) \in Results
    BY <1>0, <1>10 DEF StoreResult, OneshotTruth, TypeOK, ResultOf, Results
  <2>2. QED
    BY <1>0, <1>3, <1>10, <2>1 DEF StoreResult, TypeOK
<1>11. QED
  BY <1>5, <1>6, <1>7, <1>8, <1>9, <1>10 DEF WaitForCompletion
-----------------------------------------------------------------------------
(* Every step of the link keeps CommInv, whoever uses the handles. *)
LEMMA StepInv ==
    ASSUME CommInv, [CommNext]_commVars
    PROVE  CommInv'
<1>0. CommInv /\ TypeOK
  BY DEF CommInv
<1>1. CASE AppStep
  BY <1>1, AppInv
<1>2. ASSUME NEW c \in Channels, CallStep(c)
      PROVE  CommInv'
  BY <1>2, TransferInv, WaitInv DEF CallStep
<1>3. ASSUME NEW C \in SUBSET Channels, NEW D \in SUBSET serverHas, Abandon(C, D)
      PROVE  CommInv'
  <2>1. D \in SUBSET Channels
    BY <1>0 DEF TypeOK
  <2>2. QED
    BY <1>3, <2>1, OwnerInv
<1>4. CASE BeginReceive \/ \E m \in ServerEvents : BeginSend(m)
  BY <1>4, OwnerInv
<1>5. CASE UNCHANGED commVars
  <2>1. TypeOK' /\ Lossless'
    BY <1>5 DEF commVars, CommInv, TypeOK, Lossless
  <2>2. SeenDrained' /\ OneshotTruth' /\ SingleAwaiter'
    BY <1>5 DEF commVars, CommInv, SeenDrained, Drained, Closed, OneshotTruth,
                SingleAwaiter, Awaiting
  <2>3. QED
    BY <2>1, <2>2 DEF CommInv
<1>6. QED
  BY <1>1, <1>2, <1>3, <1>4, <1>5 DEF CommNext, User

(* The link keeps its inductive invariant under every behaviour of the      *)
(* application and of the user of the handles.                              *)
THEOREM LinkInvariant == CommSpec => []CommInv
<1>1. CommInit => CommInv
  BY InitInv
<1>2. CommInv /\ [CommNext]_commVars => CommInv'
  BY StepInv
<1>3. QED
  BY <1>1, <1>2, PTL DEF CommSpec

(* Type correctness of the channels, the handles and the cached result.     *)
THEOREM TypeCorrect == CommSpec => []TypeOK
<1>1. CommInv => TypeOK
  BY DEF CommInv
<1>2. QED
  BY <1>1, LinkInvariant, PTL

(* receive() reports the end of the application only after it has returned  *)
(* every event the application sent (communication.rs:134-140).             *)
THEOREM NoEventLostToAnError == CommSpec => []ErrorMeansDrained
<1>1. CommInv => ErrorMeansDrained
  <2>1. SUFFICES ASSUME CommInv, answer["fromApp"] \in Results
                 PROVE  got["fromApp"] = sent["fromApp"]
    BY DEF ErrorMeansDrained
  <2>2. "fromApp" \in Channels /\ got["fromApp"] \in Seq(AppEvents)
        /\ buf["fromApp"] = <<>> /\ sent["fromApp"] = got["fromApp"] \o buf["fromApp"]
    BY <2>1 DEF CommInv, TypeOK, Histories, SeenDrained, Drained, Lossless, Channels
  <2>3. QED
    BY <2>2, ConcatEmptySeq
<1>2. QED
  BY <1>1, LinkInvariant, PTL

(* The application is told http.disconnect by a closed channel only after   *)
(* it has received all the server sent it (communication.rs:190-193).       *)
THEOREM NoEventLostToADisconnect == CommSpec => []DisconnectMeansDrained
<1>1. CommInv => DisconnectMeansDrained
  <2>1. SUFFICES ASSUME CommInv, "toApp" \in told
                 PROVE  got["toApp"] = sent["toApp"]
    BY DEF DisconnectMeansDrained
  <2>2. "toApp" \in Channels /\ got["toApp"] \in Seq(ServerEvents)
        /\ buf["toApp"] = <<>> /\ sent["toApp"] = got["toApp"] \o buf["toApp"]
    BY <2>1 DEF CommInv, TypeOK, Histories, SeenDrained, Drained, Lossless, Channels
  <2>3. QED
    BY <2>2, ConcatEmptySeq
<1>2. QED
  BY <1>1, LinkInvariant, PTL

(* A definite result is how the application ended (communication.rs:92-122). *)
THEOREM ResultsAreTrue == CommSpec => []TruthfulResults
<1>1. CommInv => TruthfulResults
  BY DEF CommInv, TypeOK, OneshotTruth, TruthfulResults, ResultOf, Endings, Results
<1>2. QED
  BY <1>1, LinkInvariant, PTL

(* The oneshot is never awaited by both handles, nor twice                  *)
(* (communication.rs:99-112).                                               *)
THEOREM OneAwaiter == CommSpec => []SingleAwaiter
<1>1. CommInv => SingleAwaiter
  BY DEF CommInv
<1>2. QED
  BY <1>1, LinkInvariant, PTL

(* The cached result is written once (communication.rs:73, 118-119).        *)
THEOREM CacheIsStable == CommSpec => CacheWriteOnce
<1>1. CommInv /\ [CommNext]_commVars => [cached # "none" => cached' = cached]_commVars
  <2>1. SUFFICES ASSUME CommInv, CommNext, cached # "none"
                 PROVE  cached' = cached
    OBVIOUS
  <2>2. \A c \in Channels : at[c] # "store"
    BY <2>1 DEF CommInv, SingleAwaiter, Awaiting
  <2>3. CASE AppStep
    BY <2>3 DEF AppStep, AppSend, AppSendRejected, AppReceive, AppReceiveDisconnect,
                AppDrops, AppEnds, DeliverResult, handleVars
  <2>4. ASSUME NEW c \in Channels, CallStep(c)
        PROVE  cached' = cached
    BY <2>2, <2>4 DEF CallStep, SendAccepted, ReceiveAccepted, ChannelFailed,
         WaitForCompletion, ReadCached, TakeReceiver, Recheck, AwaitResult, StoreResult,
         handleVars
  <2>5. ASSUME \/ BeginReceive
               \/ \E m \in ServerEvents : BeginSend(m)
               \/ \E C \in SUBSET Channels, D \in SUBSET serverHas : Abandon(C, D)
        PROVE  cached' = cached
    BY <2>5 DEF BeginReceive, BeginSend, Abandon, handleVars
  <2>6. QED
    BY <2>1, <2>3, <2>4, <2>5 DEF CommNext, User
<1>2. QED
  BY <1>1, LinkInvariant, PTL DEF CommSpec, CacheWriteOnce
-----------------------------------------------------------------------------
(* For the modules that put a real handler in the place of User.            *)

(* A step of a handler, as far as the link is concerned: at most one of the *)
(* things User may do, or none.                                             *)
HandlerStep ==
    \/ AppStep
    \/ \E c \in Channels : CallStep(c)
    \/ \E m \in ServerEvents : BeginSend(m)
    \/ BeginReceive
    \/ \E C, D \in SUBSET Channels : Abandon(C, D)
    \/ UNCHANGED commVars

(* A handler is a user of the link.                                         *)
LEMMA HandlerUses ==
    ASSUME CommInv, HandlerStep
    PROVE  [CommNext]_commVars /\ CommInv'
<1>1. at \in [Channels -> Points]
  BY DEF CommInv, TypeOK
<1>2. ASSUME NEW C \in SUBSET Channels, NEW D \in SUBSET Channels, Abandon(C, D)
      PROVE  [CommNext]_commVars
  <2>1. CASE C \cup D = {}
    <3>1. /\ serverHas' = serverHas /\ arg' = arg
          /\ at' = [c \in Channels |-> at[c]]
      BY <1>2, <2>1 DEF Abandon
    <3>2. at' = at
      BY <1>1, <3>1
    <3>3. UNCHANGED <<channelVars, appHas, appVars, handleVars, answer>>
      BY <1>2 DEF Abandon
    <3>4. QED
      BY <3>1, <3>2, <3>3 DEF commVars, channelVars, appVars, handleVars
  <2>2. CASE C \cup D # {}
    <3>1. D \in SUBSET serverHas
      BY <1>2 DEF Abandon
    <3>2. QED
      BY <1>2, <2>2, <3>1 DEF CommNext, User
  <2>3. QED
    BY <2>1, <2>2
<1>3. [CommNext]_commVars
  BY <1>2 DEF HandlerStep, CommNext, User
<1>4. QED
  BY <1>3, StepInv

(* What the application leaves alone.                                       *)
LEMMA AppFrame ==
    ASSUME CommInv, AppStep
    PROVE  /\ UNCHANGED <<at, arg, answer, serverHas, slot, cached>>
           /\ sent'["toApp"] = sent["toApp"] /\ got'["fromApp"] = got["fromApp"]
           /\ appHas' \subseteq appHas
<1>1. sent \in Histories /\ got \in Histories
  BY DEF CommInv, TypeOK
<1>2. QED
  BY <1>1 DEF AppStep, AppSend, AppSendRejected, AppReceive, AppReceiveDisconnect,
              AppDrops, AppEnds, DeliverResult, Push, Pop, Histories, Channels,
              channelVars, endVars, appVars, handleVars, callVars

(* What the end of a call moves and returns.                                *)
LEMMA SendAcceptedFacts ==
    ASSUME CommInv, SendAccepted
    PROVE  /\ at["toApp"] = "channel" /\ arg \in ServerEvents
           /\ sent["toApp"] \in Seq(ServerEvents)
           /\ sent'["toApp"] = Append(sent["toApp"], arg) /\ got' = got
           /\ at' = [at EXCEPT !["toApp"] = "idle"]
           /\ answer' = [answer EXCEPT !["toApp"] = "ok"]
           /\ UNCHANGED <<appHas, serverHas, app>>
<1>1. /\ sent \in [Channels -> Seq(ServerEvents \cup AppEvents)]
      /\ sent["toApp"] \in Seq(ServerEvents)
      /\ at["toApp"] = "channel" => arg \in ServerEvents
  BY DEF CommInv, TypeOK, Histories
<1>2. QED
  BY <1>1 DEF SendAccepted, Push, Return, Channels, endVars, appVars

(* What receive() does when the channel has an event. *)
LEMMA ReceiveAcceptedFacts ==
    ASSUME CommInv, ReceiveAccepted
    PROVE  /\ at["fromApp"] = "channel"
           /\ \E m \in AppEvents :
                /\ got["fromApp"] \in Seq(AppEvents)
                /\ got'["fromApp"] = Append(got["fromApp"], m) /\ sent' = sent
                /\ at' = [at EXCEPT !["fromApp"] = "idle"]
                /\ answer' = [answer EXCEPT !["fromApp"] = m]
           /\ UNCHANGED <<appHas, serverHas, app, arg>>
<1>1. /\ got \in [Channels -> Seq(ServerEvents \cup AppEvents)]
      /\ got["fromApp"] \in Seq(AppEvents)
  BY DEF CommInv, TypeOK, Histories
<1>2. /\ Pop("fromApp") /\ "fromApp" \in Channels /\ TypeOK /\ Lossless
      /\ EventsOf("fromApp") = AppEvents
  BY DEF ReceiveAccepted, Channels, CommInv, EventsOf
<1>3. Head(buf["fromApp"]) \in AppEvents
  BY <1>2, PopFacts
<1>4. QED
  BY <1>1, <1>3 DEF ReceiveAccepted, Pop, Return, Channels, endVars, appVars

(* Every other step of a call: it gives no event, and what it returns is    *)
(* how the application ended.                                               *)
LEMMA WaitFacts ==
    ASSUME CommInv, NEW c \in Channels, ChannelFailed(c) \/ WaitForCompletion(c)
    PROVE  /\ at[c] # "idle"
           /\ UNCHANGED <<sent, got, appHas, serverHas, app>>
           /\ at'[c] # "channel"
           /\ at'[c] = "idle" => answer'[c] \in Results
           /\ at'[c] # "idle" => answer'[c] = answer[c]
           /\ \A d \in Channels \ {c} : at'[d] = at[d] /\ answer'[d] = answer[d]
           /\ c = "fromApp" => arg' = arg
           /\ at[c] = "channel" => Closed(c) /\ at'[c] = "cached"
<1>0. TypeOK /\ OneshotTruth
  BY DEF CommInv
<1>1. CASE ChannelFailed(c)
  BY <1>0, <1>1 DEF ChannelFailed, Goto, TypeOK, channelVars, endVars, appVars
<1>2. CASE ReadCached(c)
  BY <1>0, <1>2 DEF ReadCached, Goto, Return, TypeOK, Results, channelVars, endVars, appVars
<1>3. CASE TakeReceiver(c)
  BY <1>0, <1>3 DEF TakeReceiver, Goto, TypeOK, channelVars, endVars, appVars
<1>4. CASE Recheck(c)
  BY <1>0, <1>4 DEF Recheck, Return, TypeOK, Results, channelVars, endVars, appVars
<1>5. CASE AwaitResult(c)
  BY <1>0, <1>5 DEF AwaitResult, Goto, TypeOK, channelVars, endVars, appVars
<1>6. CASE StoreResult(c)
  <2>1. ResultOf(oneshot) \in Results
    BY <1>0, <1>6 DEF StoreResult, OneshotTruth, TypeOK, ResultOf, Results
  <2>2. QED
    BY <1>0, <1>6, <2>1 DEF StoreResult, Return, TypeOK, channelVars, endVars, appVars
<1>7. QED
  BY <1>1, <1>2, <1>3, <1>4, <1>5, <1>6 DEF WaitForCompletion

(* A call in progress belongs to a handle that the server still has.        *)
CallsHeld == \A c \in Channels : at[c] # "idle" => c \in serverHas

(* A call in progress is on a handle that is still there. *)
LEMMA CallsAreHeld == CommSpec => []CallsHeld
<1>1. CommInit => CallsHeld
  BY DEF CommInit, CallsHeld
<1>2. ASSUME CommInv, CallsHeld, [CommNext]_commVars
      PROVE  CallsHeld'
  <2>0. at \in [Channels -> Points]
    BY <1>2 DEF CommInv, TypeOK
  <2>1. CASE AppStep
    BY <1>2, <2>1, AppFrame DEF CallsHeld
  <2>2. CASE \E c \in Channels : CallStep(c)
    <3>1. CASE SendAccepted
      BY <1>2, <2>0, <3>1, SendAcceptedFacts DEF CallsHeld
    <3>2. CASE ReceiveAccepted
      BY <1>2, <2>0, <3>2, ReceiveAcceptedFacts DEF CallsHeld
    <3>3. ASSUME NEW c \in Channels, ChannelFailed(c) \/ WaitForCompletion(c)
          PROVE  CallsHeld'
      BY <1>2, <2>0, <3>3, WaitFacts DEF CallsHeld
    <3>4. QED
      BY <2>2, <3>1, <3>2, <3>3 DEF CallStep
  <2>3. CASE BeginReceive \/ \E m \in ServerEvents : BeginSend(m)
    BY <1>2, <2>0, <2>3 DEF BeginReceive, BeginSend, CallsHeld, endVars
  <2>4. CASE \E C \in SUBSET Channels, D \in SUBSET serverHas : Abandon(C, D)
    BY <1>2, <2>0, <2>4 DEF Abandon, CallsHeld
  <2>5. CASE UNCHANGED commVars
    BY <1>2, <2>5 DEF commVars, CallsHeld
  <2>6. QED
    BY <1>2, <2>1, <2>2, <2>3, <2>4, <2>5 DEF CommNext, User
<1>3. QED
  BY <1>1, <1>2, LinkInvariant, PTL DEF CommSpec

(* A channel once closed stays closed, and nothing enters it.               *)
LEMMA ClosedForGood ==
    ASSUME CommInv, HandlerStep, NEW c \in Channels, Closed(c)
    PROVE  /\ Closed(c)'
           /\ c = "fromApp" => sent'[c] = sent[c]
<1>0. /\ sent \in [Channels -> Seq(ServerEvents \cup AppEvents)]
      /\ appHas \in SUBSET Channels
  BY DEF CommInv, TypeOK, Histories
<1>1. CASE AppStep
  <2>1. appHas' \subseteq appHas /\ serverHas' = serverHas
    BY <1>1, AppFrame
  <2>2. c = "fromApp" => sent'[c] = sent[c]
    BY <1>0, <1>1 DEF AppStep, AppSend, AppSendRejected, AppReceive, AppReceiveDisconnect,
              AppDrops, AppEnds, DeliverResult, Push, Pop, channelVars, Channels
  <2>3. QED
    BY <2>1, <2>2 DEF Closed
<1>2. ASSUME NEW d \in Channels, CallStep(d)
      PROVE  /\ appHas' = appHas /\ serverHas' = serverHas
             /\ sent'["fromApp"] = sent["fromApp"]
  <2>1. CASE SendAccepted
    <3>1. sent' = [sent EXCEPT !["toApp"] = Append(@, arg)]
      BY <2>1 DEF SendAccepted, Push
    <3>2. QED
      BY <1>0, <2>1, <3>1, SendAcceptedFacts DEF Channels
  <2>2. CASE ReceiveAccepted
    BY <2>2, ReceiveAcceptedFacts
  <2>3. CASE ChannelFailed(d) \/ WaitForCompletion(d)
    BY <2>3, WaitFacts
  <2>4. QED
    BY <1>2, <2>1, <2>2, <2>3 DEF CallStep
<1>3. CASE \/ \E m \in ServerEvents : BeginSend(m)
           \/ BeginReceive
           \/ \E C, D \in SUBSET Channels : Abandon(C, D)
           \/ UNCHANGED commVars
  <2>1. appHas' = appHas /\ serverHas' \subseteq serverHas /\ sent' = sent
    BY <1>3 DEF BeginSend, BeginReceive, Abandon, commVars, channelVars, endVars
  <2>2. QED
    BY <2>1 DEF Closed
<1>4. QED
  BY <1>1, <1>2, <1>3 DEF HandlerStep, Closed

-----------------------------------------------------------------------------
(* The link implements the abstract specification Link.                     *)
(*                                                                          *)
(* The mapping of Communication (AbstractLink) hides the handles, the       *)
(* oneshot and the cache.  That a step which returns a result is a Report   *)
(* needs the invariant of the link, for what the result says, and that a    *)
(* call past its channel operation has seen the channel closed              *)
(* (CallsAnswer).                                                           *)

(* A call in progress has nothing to answer yet, and is past its channel    *)
(* operation only because the channel is closed.                            *)
CallsAnswer ==
    \A c \in Channels :
        /\ at[c] # "idle" => answer[c] = "none"
        /\ at[c] \notin {"idle", "channel"} => Closed(c)

MappedOpen == {c \in Channels : ~Closed(c)}
MappedReport == [c \in Channels |-> IF answer[c] \in Results THEN answer[c] ELSE "none"]

(* No call has answered. *)
LEMMA CallsInit == CommInit => CallsAnswer
BY DEF CommInit, CallsAnswer, Channels

(* No end of a channel comes back. *)
LEMMA ClosedStays ==
    ASSUME CommInv, [CommNext]_commVars, NEW c \in Channels, Closed(c)
    PROVE  Closed(c)'
<1>1. appHas' \subseteq appHas /\ serverHas' \subseteq serverHas
  <2>1. CASE AppStep
    BY <2>1 DEF AppStep, AppSend, AppSendRejected, AppReceive, AppReceiveDisconnect,
                AppDrops, AppEnds, DeliverResult, endVars
  <2>2. ASSUME NEW d \in Channels, CallStep(d)
        PROVE  UNCHANGED endVars
    BY <2>2 DEF CallStep, SendAccepted, ReceiveAccepted, ChannelFailed, WaitForCompletion,
                ReadCached, TakeReceiver, Recheck, AwaitResult, StoreResult, endVars
  <2>3. CASE BeginReceive \/ \E m \in ServerEvents : BeginSend(m)
    BY <2>3 DEF BeginReceive, BeginSend, endVars
  <2>4. CASE \E C \in SUBSET Channels, D \in SUBSET serverHas : Abandon(C, D)
    BY <2>4 DEF Abandon
  <2>5. CASE UNCHANGED commVars
    BY <2>5 DEF commVars
  <2>. QED BY <2>1, <2>2, <2>3, <2>4, <2>5 DEF CommNext, User, endVars
<1>. QED BY <1>1 DEF Closed

(* No step breaks the invariant of the calls. *)
LEMMA CallsStep ==
    ASSUME CommInv, CallsAnswer, [CommNext]_commVars
    PROVE  CallsAnswer'
<1>0. at \in [Channels -> Points] /\ answer \in [Channels -> {"none", "ok"} \cup Results \cup AppEvents]
  BY DEF CommInv, TypeOK
<1>1. \A c \in Channels : Closed(c) => Closed(c)'
  BY ClosedStays
<1>2. CASE AppStep
  <2>1. UNCHANGED <<at, answer>>
    BY <1>2 DEF AppStep, AppSend, AppSendRejected, AppReceive, AppReceiveDisconnect,
                AppDrops, AppEnds, DeliverResult, callVars
  <2>. QED BY <2>1, <1>1 DEF CallsAnswer
<1>3. ASSUME NEW c \in Channels, CallStep(c)
      PROVE  CallsAnswer'
  <2>1. CASE \E x : Return(c, x)
    <3>1. at'[c] = "idle" /\ \A d \in Channels \ {c} : at'[d] = at[d] /\ answer'[d] = answer[d]
      BY <2>1, <1>0 DEF Return
    <3>. QED BY <3>1, <1>1 DEF CallsAnswer
  <2>2. CASE \E p : Goto(c, p) /\ Closed(c) /\ at[c] # "idle"
    <3>1. answer' = answer /\ answer[c] = "none" /\ Closed(c)
          /\ \A d \in Channels \ {c} : at'[d] = at[d]
      BY <2>2, <1>0 DEF Goto, CallsAnswer
    <3>. QED BY <3>1, <1>1 DEF CallsAnswer
  <2>3. CASE (c = "toApp" /\ SendAccepted) \/ (c = "fromApp" /\ ReceiveAccepted)
    BY <2>1, <2>3 DEF SendAccepted, ReceiveAccepted
  <2>4. CASE ChannelFailed(c)
    BY <2>2, <2>4 DEF ChannelFailed
  <2>5. CASE ReadCached(c)
    <3>1. Closed(c)
      BY <2>5 DEF CallsAnswer, ReadCached
    <3>. QED BY <3>1, <2>5, <2>1, <2>2 DEF ReadCached
  <2>6. CASE TakeReceiver(c)
    <3>1. Closed(c)
      BY <2>6 DEF CallsAnswer, TakeReceiver
    <3>. QED BY <3>1, <2>6, <2>2 DEF TakeReceiver
  <2>7. CASE AwaitResult(c)
    <3>1. Closed(c)
      BY <2>7 DEF CallsAnswer, AwaitResult
    <3>. QED BY <3>1, <2>7, <2>2 DEF AwaitResult
  <2>8. CASE Recheck(c) \/ StoreResult(c)
    BY <2>8, <2>1 DEF Recheck, StoreResult
  <2>9. CASE WaitForCompletion(c)
    BY <2>9, <2>5, <2>6, <2>7, <2>8 DEF WaitForCompletion
  <2>. QED BY <1>3, <2>3, <2>4, <2>9 DEF CallStep
<1>4. CASE BeginReceive \/ \E m \in ServerEvents : BeginSend(m)
  BY <1>4, <1>0, <1>1 DEF BeginReceive, BeginSend, CallsAnswer, Channels
<1>5. ASSUME NEW C \in SUBSET Channels, NEW D \in SUBSET serverHas, Abandon(C, D)
      PROVE  CallsAnswer'
  <2>1. answer' = answer /\ \A c \in Channels : at'[c] \in {"idle", at[c]}
    BY <1>5 DEF Abandon
  <2>. QED BY <2>1, <1>1 DEF CallsAnswer
<1>6. CASE UNCHANGED commVars
  BY <1>6, <1>1 DEF commVars, CallsAnswer
<1>. QED BY <1>2, <1>3, <1>4, <1>5, <1>6 DEF CommNext, User

-----------------------------------------------------------------------------

(* The link as it is built is an initial state of the abstract one. *)
LEMMA RefinesInit == CommInit => AbstractLink!LinkInit
BY DEF CommInit, AbstractLink!LinkInit, AbstractLink!Channels, Channels, Closed, Results

(* What the mapping makes of a step that leaves its parts alone. *)
LEMMA SameMapping ==
    /\ UNCHANGED endVars => MappedOpen' = MappedOpen
    /\ answer' = answer => MappedReport' = MappedReport
BY DEF endVars, MappedOpen, MappedReport, Closed

(* A call of the server that returns a result reports it. *)
LEMMA ReportRefines ==
    ASSUME CommInv, CallsAnswer, NEW c \in Channels, NEW r \in Results,
           Return(c, r), at[c] \notin {"idle", "channel"}, r # "Unexpected" => app = r,
           UNCHANGED <<channelVars, endVars, appVars>>
    PROVE  AbstractLink!Report(c, r)
<1>1. Closed(c) /\ (c = "fromApp" => buf[c] = <<>>)
  BY DEF CallsAnswer, CommInv, SeenDrained, Drained
<1>2. answer' = [answer EXCEPT ![c] = r] /\ DOMAIN answer = Channels
  BY DEF Return, CommInv, TypeOK
<1>3. MappedReport' = [MappedReport EXCEPT ![c] = r]
  BY <1>2 DEF MappedReport
<1>4. MappedOpen' = MappedOpen
  BY SameMapping
<1>. QED BY <1>1, <1>3, <1>4 DEF AbstractLink!Report, MappedReport, MappedOpen, channelVars, appVars

(* A step of the application puts, takes, closes, ends, or tells. *)
LEMMA AppRefines ==
    ASSUME CommInv, AppStep
    PROVE  [AbstractLink!LinkNext]_AbstractLink!linkVars
<1> USE DEF AbstractLink!Channels, AbstractLink!Events, AbstractLink!Endings
<1>1. ASSUME NEW m \in AppEvents, AppSend(m)
      PROVE  AbstractLink!Put("fromApp", m)
  <2>1. UNCHANGED endVars /\ answer' = answer /\ ~Closed("fromApp") /\ Room("fromApp")
        /\ buf' = [buf EXCEPT !["fromApp"] = Append(@, m)]
        /\ UNCHANGED <<got, app, told>>
    BY <1>1 DEF AppSend, Push, callVars, appVars
  <2>. QED BY <2>1, SameMapping
           DEF AbstractLink!Put, MappedOpen, MappedReport, Room, Channels
<1>2. CASE AppSendRejected
  <2>1. UNCHANGED endVars /\ answer' = answer /\ Closed("fromApp")
        /\ told' = told \cup {"fromApp"} /\ UNCHANGED <<buf, got, app>>
    BY <1>2 DEF AppSendRejected, callVars, channelVars
  <2>2. AbstractLink!Tell("fromApp")
    BY <2>1, SameMapping DEF AbstractLink!Tell, MappedOpen, MappedReport
  <2>. QED BY <2>2 DEF AbstractLink!LinkNext
<1>3. CASE AppReceive
  <2>1. UNCHANGED endVars /\ answer' = answer /\ buf["toApp"] # <<>>
        /\ buf' = [buf EXCEPT !["toApp"] = Tail(@)]
        /\ got' = [got EXCEPT !["toApp"] = Append(@, Head(buf["toApp"]))]
        /\ UNCHANGED <<app, told>>
    BY <1>3 DEF AppReceive, Pop, callVars, appVars
  <2>2. AbstractLink!Take("toApp")
    BY <2>1, SameMapping DEF AbstractLink!Take, MappedOpen, MappedReport
  <2>. QED BY <2>2 DEF AbstractLink!LinkNext
<1>4. CASE AppReceiveDisconnect
  <2>1. UNCHANGED endVars /\ answer' = answer /\ Closed("toApp") /\ buf["toApp"] = <<>>
        /\ told' = told \cup {"toApp"} /\ UNCHANGED <<buf, got, app>>
    BY <1>4 DEF AppReceiveDisconnect, callVars, channelVars
  <2>2. AbstractLink!Tell("toApp")
    BY <2>1, SameMapping DEF AbstractLink!Tell, MappedOpen, MappedReport
  <2>. QED BY <2>2 DEF AbstractLink!LinkNext
<1>5. ASSUME NEW c \in Channels, AppDrops(c)
      PROVE  [AbstractLink!LinkNext]_AbstractLink!linkVars
  <2>1. appHas' = appHas \ {c} /\ serverHas' = serverHas /\ answer' = answer
        /\ UNCHANGED <<buf, got, app, told>>
    BY <1>5 DEF AppDrops, channelVars, appVars, callVars
  <2>2. MappedOpen' = MappedOpen \ {c}
    BY <2>1 DEF MappedOpen, Closed
  <2>3. CASE c \in MappedOpen
    <3>1. AbstractLink!Close({c})
      BY <2>1, <2>2, <2>3, SameMapping DEF AbstractLink!Close, MappedOpen, MappedReport
    <3>. QED BY <3>1 DEF AbstractLink!LinkNext, Channels
  <2>4. CASE c \notin MappedOpen
    <3>1. MappedOpen' = MappedOpen
      BY <2>2, <2>4
    <3>. QED BY <3>1, <2>1, SameMapping DEF AbstractLink!linkVars, MappedOpen, MappedReport
  <2>. QED BY <2>3, <2>4
<1>6. ASSUME NEW e \in Endings, AppEnds(e)
      PROVE  AbstractLink!End(e)
  <2>1. UNCHANGED endVars /\ answer' = answer /\ app = "running" /\ app' = e
        /\ UNCHANGED <<buf, got, told>>
    BY <1>6 DEF AppEnds, channelVars, callVars
  <2>. QED BY <2>1, SameMapping DEF AbstractLink!End, MappedOpen, MappedReport
<1>7. CASE DeliverResult
  <2>1. UNCHANGED endVars /\ answer' = answer /\ UNCHANGED <<buf, got, app, told>>
    BY <1>7 DEF DeliverResult, channelVars, callVars
  <2>. QED BY <2>1, SameMapping DEF AbstractLink!linkVars, MappedOpen, MappedReport
<1>. QED BY <1>1, <1>2, <1>3, <1>4, <1>5, <1>6, <1>7
         DEF AppStep, AbstractLink!LinkNext, Endings

(* A step of a call takes, puts, reports, or is hidden. *)
LEMMA CallRefines ==
    ASSUME CommInv, CallsAnswer, NEW c \in Channels, CallStep(c)
    PROVE  [AbstractLink!LinkNext]_AbstractLink!linkVars
<1> USE DEF AbstractLink!Channels, AbstractLink!Events, AbstractLink!Results
<1>0. DOMAIN answer = Channels /\ (AppEvents \cap (Results \cup {"ok"}) = {})
  BY CommunicationAssumption DEF CommInv, TypeOK
<1>1. CASE c = "toApp" /\ SendAccepted
  <2>1. /\ UNCHANGED endVars /\ answer' = [answer EXCEPT !["toApp"] = "ok"]
        /\ answer["toApp"] = "none" /\ arg \in ServerEvents
        /\ ~Closed("toApp") /\ Room("toApp")
        /\ buf' = [buf EXCEPT !["toApp"] = Append(@, arg)]
        /\ UNCHANGED <<got, app, told>>
    BY <1>1 DEF SendAccepted, Push, Return, appVars, CallsAnswer, CommInv, TypeOK
  <2>2. MappedReport' = MappedReport
    BY <2>1, <1>0 DEF MappedReport, Results
  <2>3. AbstractLink!Put("toApp", arg)
    BY <2>1, <2>2, SameMapping
    DEF AbstractLink!Put, MappedOpen, MappedReport, Room, Channels
  <2>. QED BY <2>1, <2>3 DEF AbstractLink!LinkNext
<1>2. CASE c = "fromApp" /\ ReceiveAccepted
  <2>1. /\ UNCHANGED endVars /\ buf["fromApp"] # <<>>
        /\ answer' = [answer EXCEPT !["fromApp"] = Head(buf["fromApp"])]
        /\ answer["fromApp"] = "none"
        /\ buf' = [buf EXCEPT !["fromApp"] = Tail(@)]
        /\ got' = [got EXCEPT !["fromApp"] = Append(@, Head(buf["fromApp"]))]
        /\ UNCHANGED <<app, told>>
    BY <1>2 DEF ReceiveAccepted, Pop, Return, appVars, CallsAnswer
  <2>2. buf["fromApp"] \in Seq(AppEvents)
    BY DEF CommInv, TypeOK, Histories
  <2>3. Head(buf["fromApp"]) \in AppEvents
    BY <2>1, <2>2, HeadTailProperties
  <2>4. MappedReport' = MappedReport
    BY <2>1, <2>3, <1>0 DEF MappedReport, Results
  <2>5. AbstractLink!Take("fromApp")
    BY <2>1, <2>4, SameMapping DEF AbstractLink!Take, MappedOpen, MappedReport
  <2>. QED BY <2>5 DEF AbstractLink!LinkNext
<1>3. CASE /\ UNCHANGED <<channelVars, endVars, appVars>>
           /\ answer' = answer
  BY <1>3, SameMapping DEF AbstractLink!linkVars, MappedOpen, MappedReport, channelVars, appVars
<1>4. ASSUME NEW r \in Results, Return(c, r), at[c] \notin {"idle", "channel"},
             r # "Unexpected" => app = r, UNCHANGED <<channelVars, endVars, appVars>>
      PROVE  AbstractLink!LinkNext
  <2>1. AbstractLink!Report(c, r)
    BY <1>4, ReportRefines
  <2>. QED BY <2>1 DEF AbstractLink!LinkNext, Results, Channels
<1>5. cached # "none" => cached \in Results /\ (cached # "Unexpected" => app = cached)
  BY DEF CommInv, TypeOK, OneshotTruth, ResultOf, Results
<1>6. CASE ChannelFailed(c) \/ TakeReceiver(c) \/ AwaitResult(c)
  BY <1>3, <1>6 DEF ChannelFailed, TakeReceiver, AwaitResult, Goto
<1>7. CASE ReadCached(c)
  <2>1. CASE cached # "none"
    BY <1>4, <1>5, <1>7, <2>1 DEF ReadCached
  <2>2. CASE cached = "none"
    BY <1>3, <1>7, <2>2 DEF ReadCached, Goto
  <2>. QED BY <2>1, <2>2
<1>8. CASE Recheck(c)
  <2>1. CASE cached # "none"
    BY <1>4, <1>5, <1>8, <2>1 DEF Recheck
  <2>2. CASE cached = "none"
    BY <1>4, <1>8, <2>2 DEF Recheck, Results
  <2>. QED BY <2>1, <2>2
<1>9. CASE StoreResult(c)
  <2>1. oneshot # "pending" /\ oneshot \in {"Completed", "Failed", "dropped"}
    BY <1>9 DEF StoreResult, CommInv, OneshotTruth, TypeOK
  <2>2. ResultOf(oneshot) \in Results /\ (ResultOf(oneshot) # "Unexpected" => app = ResultOf(oneshot))
    BY <2>1 DEF CommInv, OneshotTruth, ResultOf, Results
  <2>. QED BY <1>4, <1>9, <2>2 DEF StoreResult
<1>. QED BY <1>1, <1>2, <1>6, <1>7, <1>8, <1>9 DEF CallStep, WaitForCompletion

(* The owner of the handles forgets an answer or closes channels. *)
LEMMA OwnerRefines ==
    ASSUME CommInv,
           \/ BeginReceive
           \/ \E m \in ServerEvents : BeginSend(m)
           \/ \E C \in SUBSET Channels, D \in SUBSET serverHas : Abandon(C, D)
    PROVE  [AbstractLink!LinkNext]_AbstractLink!linkVars
<1> USE DEF AbstractLink!Channels
<1>0. DOMAIN answer = Channels
  BY DEF CommInv, TypeOK
<1>1. ASSUME NEW c \in Channels, answer' = [answer EXCEPT ![c] = "none"],
             UNCHANGED <<channelVars, endVars, appVars>>
      PROVE  AbstractLink!LinkNext
  <2>1. MappedReport' = [MappedReport EXCEPT ![c] = "none"]
    BY <1>0, <1>1 DEF MappedReport, Results
  <2>2. AbstractLink!Forget(c)
    BY <1>1, <2>1, SameMapping
    DEF AbstractLink!Forget, MappedOpen, MappedReport, channelVars, appVars
  <2>. QED BY <2>2 DEF AbstractLink!LinkNext, Channels
<1>2. CASE BeginReceive
  BY <1>1, <1>2 DEF BeginReceive, Channels
<1>3. ASSUME NEW m \in ServerEvents, BeginSend(m)
      PROVE  AbstractLink!LinkNext
  BY <1>1, <1>3 DEF BeginSend, Channels
<1>4. ASSUME NEW C \in SUBSET Channels, NEW D \in SUBSET serverHas, Abandon(C, D)
      PROVE  [AbstractLink!LinkNext]_AbstractLink!linkVars
  <2>1. serverHas' = serverHas \ D /\ appHas' = appHas /\ answer' = answer
        /\ UNCHANGED <<buf, got, app, told>>
    BY <1>4 DEF Abandon, channelVars, appVars
  <2>2. MappedOpen' = MappedOpen \ (D \cap MappedOpen)
    BY <2>1 DEF MappedOpen, Closed
  <2>3. CASE D \cap MappedOpen # {}
    <3>1. AbstractLink!Close(D \cap MappedOpen)
      BY <2>1, <2>2, <2>3, SameMapping DEF AbstractLink!Close, MappedOpen, MappedReport
    <3>2. D \cap MappedOpen \in SUBSET Channels
      BY DEF MappedOpen
    <3>. QED BY <3>1, <3>2 DEF AbstractLink!LinkNext, Channels
  <2>4. CASE D \cap MappedOpen = {}
    <3>1. MappedOpen' = MappedOpen
      BY <2>2, <2>4
    <3>. QED BY <3>1, <2>1, SameMapping DEF AbstractLink!linkVars, MappedOpen, MappedReport
  <2>. QED BY <2>3, <2>4
<1>. QED BY <1>2, <1>3, <1>4

(* Every step is one of the abstract link, or a stutter of it. *)
LEMMA RefinesStep ==
    ASSUME CommInv, CallsAnswer, [CommNext]_commVars
    PROVE  [AbstractLink!LinkNext]_AbstractLink!linkVars
<1>1. CASE AppStep
  BY <1>1, AppRefines
<1>2. CASE \E c \in Channels : CallStep(c)
  BY <1>2, CallRefines
<1>3. CASE \/ BeginReceive
           \/ \E m \in ServerEvents : BeginSend(m)
           \/ \E C \in SUBSET Channels, D \in SUBSET serverHas : Abandon(C, D)
  BY <1>3, OwnerRefines
<1>4. CASE UNCHANGED commVars
  BY <1>4 DEF commVars, AbstractLink!linkVars, Closed
<1>. QED BY <1>1, <1>2, <1>3, <1>4 DEF CommNext, User

(* Every behaviour of the link is one the abstract specification allows:    *)
(* nothing enters a closed queue, nothing is lost, an end is reported after *)
(* the queue has been drained, and a definite result is the true one        *)
(* (communication.rs:77-219).                                               *)
THEOREM LinkImplemented == CommSpec => ImplementsLink
<1>1. CommInit => CallsAnswer /\ AbstractLink!LinkInit
  BY CallsInit, RefinesInit
<1>2. CommInv /\ CallsAnswer /\ [CommNext]_commVars => CallsAnswer'
  BY CallsStep
<1>3. CommInv /\ CallsAnswer /\ [CommNext]_commVars => [AbstractLink!LinkNext]_AbstractLink!linkVars
  BY RefinesStep
<1>. QED BY <1>1, <1>2, <1>3, LinkInvariant, PTL DEF CommSpec, ImplementsLink, AbstractLink!LinkSpec
=============================================================================
