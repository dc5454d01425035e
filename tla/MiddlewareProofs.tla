--------------------------- MODULE MiddlewareProofs ---------------------------
(***************************************************************************)
(* A connection is served as if it were the only one, for every number of   *)
(* connections and all positive limits: its stack never holds more than one *)
(* request, so neither the buffer nor the permits of that stack run out.    *)
(* The server with many connections implements, for each of them, the       *)
(* server with that one (ServedAlone).                                      *)
(***************************************************************************)
EXTENDS Middleware, FiniteSetTheorems, TLAPS

(* The channel of a connection holds nothing but the request that is        *)
(* queued, or that was when the connection closed.                          *)
OneRequest ==
    \A c \in Connections :
        \/ queue[c] = <<>>
        \/ queue[c] = <<c>> /\ stage[c] \in {"queued", "closed"}

NeverShed == \A c \in Connections : status[c] # "503"

MwInv == MwTypeOK /\ OneRequest /\ NeverShed

(* No request has been made. *)
LEMMA InitInv == MwInit => MwInv
BY MiddlewareAssumption DEF MwInit, MwInv, MwTypeOK, OneRequest, NeverShed, Stages, Statuses

(* A connection with no request under way leaves room in its own buffer. *)
LEMMA ShortQueue ==
    ASSUME MwInv, NEW c \in Connections, stage[c] = "idle"
    PROVE  Len(queue[Instance(c)]) < BufferSize
<1>1. queue[c] = <<>>
  BY DEF MwInv, OneRequest
<1>. QED BY <1>1, MiddlewareAssumption DEF Instance

(* No step of Next breaks the invariant: one step per action. *)
LEMMA StepInv == MwInv /\ [MwNext]_vars => MwInv'
<1> SUFFICES ASSUME MwInv, [MwNext]_vars PROVE MwInv'
  OBVIOUS
<1> USE MiddlewareAssumption
<1> USE DEF MwInv, MwTypeOK, OneRequest, NeverShed, Stages, Statuses
<1>1. ASSUME NEW c \in Connections, NEW s \in {"413", "415"}, Refuse(c, s) PROVE MwInv'
  BY <1>1 DEF Refuse, Respond, instanceVars
<1>2. ASSUME NEW c \in Connections, Arrive(c) PROVE MwInv'
  <2>1. stage[c] = "idle" /\ queue[c] = <<>>
    BY <1>2 DEF Arrive
  <2>2. Len(queue[Instance(c)]) < BufferSize
    BY <2>1, ShortQueue
  <2>3. /\ queue' = [queue EXCEPT ![c] = <<c>>]
        /\ stage' = [stage EXCEPT ![c] = "queued"]
        /\ UNCHANGED <<status, left, passed>>
    BY <1>2, <2>1, <2>2 DEF Arrive, Instance
  <2>. QED BY <2>3
<1>3. ASSUME NEW c \in Connections, Call(c) PROVE MwInv'
  <2>1. /\ stage' = [stage EXCEPT ![c] = "running"]
        /\ stage[c] = "waiting"
        /\ UNCHANGED <<status, queue>>
    BY <1>3 DEF Call
  <2>2. left' \in [Connections -> 0 .. RateLimit] /\ passed' \in [Connections -> BOOLEAN]
    BY <1>3 DEF Call, Instance
  <2>. QED BY <2>1, <2>2
<1>4. ASSUME NEW c \in Connections, NEW s \in Statuses \ {"503"}, HandlerEnds(c, s) PROVE MwInv'
  BY <1>4 DEF HandlerEnds, Respond, instanceVars
<1>5. ASSUME NEW c \in Connections, NEW s \in HandlerOutcomes, HandlerEnds(c, s) PROVE MwInv'
  <2>1. s \in Statuses \ {"503"}
    BY <1>5 DEF HandlerOutcomes, ErrorResponse
  <2>. QED BY <1>4, <1>5, <2>1
<1>6. ASSUME NEW c \in Connections, TimesOut(c) PROVE MwInv'
  BY <1>4, <1>6 DEF TimesOut, ErrorResponse
<1>7. ASSUME NEW c \in Connections, Written(c) PROVE MwInv'
  BY <1>7 DEF Written, instanceVars
<1>8. ASSUME NEW c \in Connections, ConnectionCloses(c) PROVE MwInv'
  BY <1>8 DEF ConnectionCloses, instanceVars
<1>9. ASSUME NEW i \in Connections, WorkerTakes(i) PROVE MwInv'
  <2>1. queue[i] = <<i>> /\ stage[i] \in {"queued", "closed"}
    BY <1>9 DEF WorkerTakes
  <2>2. Head(queue[i]) = i /\ Tail(queue[i]) = <<>>
    BY <2>1
  <2>3. /\ queue' = [queue EXCEPT ![i] = <<>>]
        /\ stage' = [stage EXCEPT ![i] = IF @ = "queued" THEN "waiting" ELSE @]
        /\ UNCHANGED <<status, left, passed>>
    BY <1>9, <2>2 DEF WorkerTakes
  <2>. QED BY <2>3
<1>10. ASSUME NEW i \in Connections, WindowEnds(i) PROVE MwInv'
  BY <1>10 DEF WindowEnds
<1>11. CASE UNCHANGED vars
  BY <1>11 DEF vars, instanceVars
<1>. QED
  BY <1>1, <1>2, <1>3, <1>5, <1>6, <1>7, <1>8, <1>9, <1>10, <1>11 DEF MwNext

(* The invariant gives Isolated: the instance of a waiting request has      *)
(* nothing running.                                                         *)
LEMMA InvIsolated == MwInv => Isolated
<1> SUFFICES ASSUME MwInv, NEW c \in Connections, stage[c] = "waiting"
             PROVE  PermitFree(Instance(c))
  BY DEF MwInv, NeverShed, Isolated
<1>1. Running(Instance(c)) = {}
  BY DEF Running, Instance
<1>2. Cardinality(Running(Instance(c))) = 0
  BY <1>1, FS_EmptySet
<1>. QED BY <1>2, MiddlewareAssumption DEF PermitFree

(* The invariant holds in every state. *)
THEOREM MiddlewareInvariant == MwSpec => []MwInv
<1>. QED BY InitInv, StepInv, PTL DEF MwSpec

(* The limits of the middleware never bind across connections, whatever     *)
(* they are set to (server.rs:305-308, 325).                                *)
THEOREM LimitsDoNotBind == MwSpec => []Isolated
<1>. QED BY MiddlewareInvariant, InvIsolated, PTL

(* Type correctness of the stack, for every number of connections and all   *)
(* positive limits; RateLimit's count of calls never goes below zero.       *)
THEOREM MwTypeCorrect == MwSpec => []MwTypeOK
<1>1. MwInv => MwTypeOK
  BY DEF MwInv
<1>. QED BY <1>1, MiddlewareInvariant, PTL

-----------------------------------------------------------------------------
(* Every connection is served alone: what the other connections do is       *)
(* nothing to it.                                                           *)

(* The stack of a server that has the connection c and no other.            *)
Alone(c) == INSTANCE Middleware WITH
    Connections <- {c},
    stage  <- [d \in {c} |-> stage[d]],
    status <- [d \in {c} |-> status[d]],
    queue  <- [d \in {c} |-> queue[d]],
    left   <- [d \in {c} |-> left[d]],
    passed <- [d \in {c} |-> passed[d]]

(* A step that leaves the variables of c as they are.                       *)
Elsewhere(c) ==
    /\ stage'[c] = stage[c] /\ status'[c] = status[c] /\ queue'[c] = queue[c]
    /\ left'[c] = left[c] /\ passed'[c] = passed[c]

(* What leaves the part of a connection alone is a stutter of its own       *)
(* stack.                                                                   *)
LEMMA ElsewhereStutters ==
    ASSUME NEW c \in Connections, Elsewhere(c)
    PROVE  UNCHANGED Alone(c)!vars
BY DEF Elsewhere, Alone!vars, Alone!instanceVars

(* A step of another connection, or of another instance of the stack.       *)
LEMMA OthersStutter ==
    ASSUME MwInv, NEW c \in Connections, NEW d \in Connections, d # c,
           \/ \E s \in {"413", "415"} : Refuse(d, s)
           \/ Arrive(d) \/ Call(d)
           \/ \E s \in HandlerOutcomes : HandlerEnds(d, s)
           \/ TimesOut(d) \/ Written(d) \/ ConnectionCloses(d)
           \/ WorkerTakes(d) \/ WindowEnds(d)
    PROVE  Elsewhere(c)
<1> USE DEF Elsewhere, Respond, instanceVars, Instance
<1>0. /\ stage \in [Connections -> Stages] /\ status \in [Connections -> Statuses]
      /\ queue \in [Connections -> Seq(Connections)]
      /\ left \in [Connections -> 0 .. RateLimit] /\ passed \in [Connections -> BOOLEAN]
  BY DEF MwInv, MwTypeOK
<1>1. CASE \/ \E s \in {"413", "415"} : Refuse(d, s)
           \/ \E s \in HandlerOutcomes : HandlerEnds(d, s)
           \/ TimesOut(d) \/ Written(d) \/ ConnectionCloses(d)
  BY <1>0, <1>1 DEF Refuse, HandlerEnds, TimesOut, Written, ConnectionCloses
<1>2. CASE Arrive(d)
  BY <1>0, <1>2 DEF Arrive
<1>3. CASE Call(d) \/ WindowEnds(d)
  BY <1>0, <1>3 DEF Call, WindowEnds
<1>4. CASE WorkerTakes(d)
  <2>1. Head(queue[d]) = d
    BY <1>4 DEF WorkerTakes, MwInv, OneRequest
  <2>. QED BY <1>0, <1>4, <2>1 DEF WorkerTakes
<1>. QED BY <1>1, <1>2, <1>3, <1>4

(* A step of c, or of its instance of the stack, is the step of that name   *)
(* of the server that has no other connection.                              *)
LEMMA OwnStepAlone ==
    ASSUME MwInv, NEW c \in Connections,
           \/ \E s \in {"413", "415"} : Refuse(c, s)
           \/ Arrive(c) \/ Call(c)
           \/ \E s \in HandlerOutcomes : HandlerEnds(c, s)
           \/ TimesOut(c) \/ Written(c) \/ ConnectionCloses(c)
           \/ WorkerTakes(c) \/ WindowEnds(c)
    PROVE  Alone(c)!MwNext
<1> USE DEF Respond, instanceVars, Instance, Alone!Respond, Alone!instanceVars, Alone!Instance
<1>0. /\ stage \in [Connections -> Stages] /\ status \in [Connections -> Statuses]
      /\ queue \in [Connections -> Seq(Connections)]
      /\ left \in [Connections -> 0 .. RateLimit] /\ passed \in [Connections -> BOOLEAN]
  BY DEF MwInv, MwTypeOK
<1>1. ASSUME NEW s \in {"413", "415"}, Refuse(c, s)
      PROVE  Alone(c)!Refuse(c, s)
  BY <1>0, <1>1 DEF Refuse, Alone!Refuse
<1>2. CASE Arrive(c)
  <2>0. Alone(c)!ErrorResponse("Overloaded") = ErrorResponse("Overloaded")
    BY DEF ErrorResponse, Alone!ErrorResponse
  <2>1. Alone(c)!Arrive(c)
    BY <1>0, <1>2, <2>0 DEF Arrive, Alone!Arrive
  <2>. QED BY <2>1 DEF Alone!MwNext
<1>3. PermitFree(c) => Alone(c)!PermitFree(c)
  <2>1. Running(c) = Alone(c)!Running(c)
    BY DEF Running, Alone!Running
  <2>2. \A S : Alone(c)!Cardinality(S) = Cardinality(S)
    BY Zenon DEF Cardinality, Alone!Cardinality
  <2>. QED BY <2>1, <2>2, Zenon DEF PermitFree, Alone!PermitFree
<1>4. CASE Call(c)
  <2>1. Alone(c)!Call(c)
    BY <1>0, <1>3, <1>4 DEF Call, Alone!Call
  <2>. QED BY <2>1 DEF Alone!MwNext
<1>5. ASSUME NEW s, HandlerEnds(c, s)
      PROVE  Alone(c)!HandlerEnds(c, s)
  BY <1>0, <1>5 DEF HandlerEnds, Alone!HandlerEnds
<1>6. CASE TimesOut(c) \/ \E s \in HandlerOutcomes : HandlerEnds(c, s)
  BY <1>5, <1>6 DEF TimesOut, Alone!TimesOut, HandlerOutcomes, Alone!HandlerOutcomes,
                    Alone!MwNext, ErrorResponse, Alone!ErrorResponse
<1>7. CASE Written(c)
  <2>1. Alone(c)!Written(c)
    BY <1>0, <1>7 DEF Written, Alone!Written
  <2>. QED BY <2>1 DEF Alone!MwNext
<1>8. CASE ConnectionCloses(c)
  <2>1. Alone(c)!ConnectionCloses(c)
    BY <1>0, <1>8 DEF ConnectionCloses, Alone!ConnectionCloses
  <2>. QED BY <2>1 DEF Alone!MwNext
<1>9. CASE WorkerTakes(c)
  <2>1. Head(queue[c]) = c
    BY <1>9 DEF WorkerTakes, MwInv, OneRequest
  <2>2. Alone(c)!WorkerTakes(c)
    BY <1>0, <1>9, <2>1 DEF WorkerTakes, Alone!WorkerTakes
  <2>. QED BY <2>2 DEF Alone!MwNext
<1>10. CASE WindowEnds(c)
  <2>1. Alone(c)!WindowEnds(c)
    BY <1>0, <1>10 DEF WindowEnds, Alone!WindowEnds
  <2>. QED BY <2>1 DEF Alone!MwNext
<1>11. CASE \E s \in {"413", "415"} : Refuse(c, s)
  BY <1>1, <1>11 DEF Alone!MwNext
<1>. QED BY <1>2, <1>4, <1>6, <1>7, <1>8, <1>9, <1>10, <1>11

(* Every step of the server is, for one connection, a step of a stack that  *)
(* serves it alone, or none.                                                *)
LEMMA AloneStep ==
    ASSUME MwInv, [MwNext]_vars, NEW c \in Connections
    PROVE  [Alone(c)!MwNext]_(Alone(c)!vars)
<1>1. CASE UNCHANGED vars
  BY <1>1, ElsewhereStutters DEF vars, instanceVars, Elsewhere
<1>2. ASSUME NEW d \in Connections,
             \/ \E s \in {"413", "415"} : Refuse(d, s)
             \/ Arrive(d) \/ Call(d)
             \/ \E s \in HandlerOutcomes : HandlerEnds(d, s)
             \/ TimesOut(d) \/ Written(d) \/ ConnectionCloses(d)
             \/ WorkerTakes(d) \/ WindowEnds(d)
      PROVE  [Alone(c)!MwNext]_(Alone(c)!vars)
  <2>1. CASE d = c
    BY <1>2, <2>1, OwnStepAlone
  <2>2. CASE d # c
    BY <1>2, <2>2, OthersStutter, ElsewhereStutters
  <2>. QED BY <2>1, <2>2
<1>. QED BY <1>1, <1>2 DEF MwNext

(* Each connection of the server is served as the only connection of a      *)
(* server would be: every behaviour is, for each of them, one of the server *)
(* that has no other.  No limit, no queue and no timer is shared            *)
(* (server.rs:305-325).                                                     *)
THEOREM ServedAlone == ASSUME NEW c \in Connections PROVE MwSpec => Alone(c)!MwSpec
<1>1. MwInit => Alone(c)!MwInit
  BY DEF MwInit, Alone!MwInit
<1>2. MwInv /\ [MwNext]_vars => [Alone(c)!MwNext]_(Alone(c)!vars)
  BY AloneStep
<1>. QED BY <1>1, <1>2, MiddlewareInvariant, PTL DEF MwSpec, Alone!MwSpec
===============================================================================
