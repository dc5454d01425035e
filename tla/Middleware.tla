----------------------------- MODULE Middleware -----------------------------
(***************************************************************************)
(* The tower stack between hyper and ArasASGIService, as run_server builds  *)
(* it (aras/src/server.rs).  From the outside in, as far as a layer decides *)
(* anything: CatchPanic, ErrorHandler, RequestBodyLimit and                 *)
(* RequestDecompression (which may answer themselves), LoadShed, Buffer,    *)
(* RateLimit, ConcurrencyLimit, Timeout.                                    *)
(*                                                                          *)
(* stack.layer() is called for every connection, and hyper (HTTP/1) serves  *)
(* the requests of a connection one at a time, so a request is named by its *)
(* connection.  What an instance of the stack owns is a variable indexed by *)
(* instance.  The handlers below are in Http and WebSocket: here they just  *)
(* answer, fail, panic, upgrade or go on for ever.                          *)
(***************************************************************************)
EXTENDS Naturals, Sequences, FiniteSets, ErrorHandler

CONSTANTS
    Connections,
    BufferSize, RateLimit, ConcurrencyLimit,  \* of ArasServerBuilder
    KeepAlive                                 \* of ArasServerBuilder

(* A zero of the first panics when the stack is layered, of the second when *)
(* it is built; with a concurrency limit of zero no request is ever called. *)
ASSUME MiddlewareAssumption ==
    /\ BufferSize \in Nat \ {0}
    /\ RateLimit \in Nat \ {0}
    /\ ConcurrencyLimit \in Nat \ {0}
    /\ KeepAlive \in BOOLEAN

VARIABLES
    stage,   \* of the request in progress on each connection
    status,  \* of the response being written, or "none"
    queue,   \* per instance: the channel in front of the worker of Buffer
    left,    \* per instance: calls RateLimit still lets through
    passed   \* per instance: has the end of RateLimit's window passed?

instanceVars == <<queue, left, passed>>
vars         == <<stage, status, instanceVars>>

Stages == {"idle", "queued", "waiting", "running", "writing", "upgraded", "closed"}
Statuses == {"none", "app", "101", "413", "415", "500", "503", "504"}

\* Mutant: the stack is layered once and shared by all connections.
InstanceShared(c) == CHOOSE d \in Connections : TRUE

(* The instance of the stack that serves a connection: one of its own. *)
Instance(c) == c

MwInit ==
    /\ stage  = [c \in Connections |-> "idle"]
    /\ status = [c \in Connections |-> "none"]
    /\ queue  = [c \in Connections |-> <<>>]
    /\ left   = [c \in Connections |-> RateLimit]
    /\ passed = [c \in Connections |-> TRUE]

Respond(c, s) ==
    /\ stage'  = [stage  EXCEPT ![c] = "writing"]
    /\ status' = [status EXCEPT ![c] = s]

(* A permit is held by the future of a call until it has produced the head  *)
(* of the response or is dropped.                                           *)
Running(i) == {c \in Connections : Instance(c) = i /\ stage[c] = "running"}
PermitFree(i) == Cardinality(Running(i)) < ConcurrencyLimit

-----------------------------------------------------------------------------
(* A layer above LoadShed answers: the Content-Length is over the limit, or *)
(* the body has an encoding nobody decodes.                                 *)
Refuse(c, s) ==
    /\ stage[c] = "idle"
    /\ Respond(c, s)
    /\ UNCHANGED instanceVars

(* LoadShed and Buffer: a slot of the channel, or Overloaded. *)
Arrive(c) ==
    /\ stage[c] = "idle"
    /\ IF Len(queue[Instance(c)]) < BufferSize
       THEN /\ queue' = [queue EXCEPT ![Instance(c)] = Append(@, c)]
            /\ stage' = [stage EXCEPT ![c] = "queued"]
            /\ UNCHANGED status
       ELSE Respond(c, ErrorResponse("Overloaded")) /\ UNCHANGED queue
    /\ UNCHANGED <<left, passed>>

(* The worker of Buffer takes the next request out of the channel; one      *)
(* whose connection is gone it skips.                                       *)
WorkerTakes(i) ==
    /\ queue[i] # <<>>
    /\ ~ \E c \in Connections : Instance(c) = i /\ stage[c] = "waiting"
    /\ queue' = [queue EXCEPT ![i] = Tail(@)]
    /\ stage' = [stage EXCEPT ![Head(queue[i])] = IF @ = "queued" THEN "waiting" ELSE @]
    /\ UNCHANGED <<status, left, passed>>

\* Mutant: the worker does not ask RateLimit whether it is ready.
CallUnlimited(c) ==
    LET i == Instance(c) IN
    /\ stage[c] = "waiting"
    /\ PermitFree(i)
    /\ left' = [left EXCEPT ![i] = @ - 1]
    /\ stage' = [stage EXCEPT ![c] = "running"]
    /\ UNCHANGED <<status, queue, passed>>

(* RateLimit and ConcurrencyLimit are ready, and the worker calls the       *)
(* service.  RateLimit never refuses: out of calls, it waits for the window *)
(* to end; the first call after the end opens the next window.              *)
Call(c) ==
    LET i == Instance(c) IN
    /\ stage[c] = "waiting"
    /\ left[i] > 0 \/ passed[i]
    /\ PermitFree(i)
    /\ left'   = [left EXCEPT ![i] = (IF passed[i] THEN RateLimit ELSE @) - 1]
    /\ passed' = [passed EXCEPT ![i] = FALSE]
    /\ stage'  = [stage EXCEPT ![c] = "running"]
    /\ UNCHANGED <<status, queue>>

WindowEnds(i) ==
    /\ ~passed[i]
    /\ passed' = [passed EXCEPT ![i] = TRUE]
    /\ UNCHANGED <<stage, status, queue, left>>

-----------------------------------------------------------------------------
(* ArasASGIService::call: an upgrade request goes to WebsocketHandler,      *)
(* which may answer 101, any other to HTTPHandler; an error is ErrorHandler's *)
(* and a panic CatchPanic's to answer.                                      *)
HandlerEnds(c, s) ==
    /\ stage[c] = "running"
    /\ Respond(c, s)
    /\ UNCHANGED instanceVars

HandlerOutcomes == {"app", "101", ErrorResponse("other")}

\* Mutant: no request timeout.
TimesOutNever(c) == FALSE /\ UNCHANGED vars

(* Timeout is the innermost layer: it runs from the call on. *)
TimesOut(c) == HandlerEnds(c, ErrorResponse("Elapsed"))

(* The response is written: hyper reads the next request, closes the        *)
(* connection or, after a 101, lets go of it.                               *)
Written(c) ==
    /\ stage[c] = "writing"
    /\ stage' = [stage EXCEPT ![c] = IF status[c] = "101" THEN "upgraded"
                                     ELSE IF KeepAlive THEN "idle" ELSE "closed"]
    /\ status' = [status EXCEPT ![c] = "none"]
    /\ UNCHANGED instanceVars

(* The client leaves, the body breaks off, or an idle connection has been   *)
(* so for too long; hyper drops what it was doing for the connection.       *)
ConnectionCloses(c) ==
    /\ stage[c] # "closed"
    /\ stage'  = [stage  EXCEPT ![c] = "closed"]
    /\ status' = [status EXCEPT ![c] = "none"]
    /\ UNCHANGED instanceVars

MwNext ==
    \/ \E c \in Connections :
        \/ \E s \in {"413", "415"} : Refuse(c, s)
        \/ Arrive(c)
        \/ Call(c)
        \/ \E s \in HandlerOutcomes : HandlerEnds(c, s)
        \/ TimesOut(c)
        \/ Written(c)
        \/ ConnectionCloses(c)
    \/ \E i \in Connections : WorkerTakes(i) \/ WindowEnds(i)

MwSpec == MwInit /\ [][MwNext]_vars

(* The worker is polled when it can go on, windows end and timers fire.     *)
(* Nothing is assumed of the handlers and the clients.                      *)
FairMwSpec ==
    /\ MwSpec
    /\ \A i \in Connections : WF_vars(WorkerTakes(i)) /\ WF_vars(WindowEnds(i))
    /\ \A c \in Connections : WF_vars(Call(c)) /\ WF_vars(TimesOut(c))

-----------------------------------------------------------------------------
(* Properties. *)

MwTypeOK ==
    /\ stage \in [Connections -> Stages]
    /\ status \in [Connections -> Statuses]
    /\ queue \in [Connections -> Seq(Connections)]
    /\ left \in [Connections -> 0 .. RateLimit]
    /\ passed \in [Connections -> BOOLEAN]

(* A connection is served as if it were the only one: however many requests *)
(* are running elsewhere, however earlier ones on the connection ended and  *)
(* however small the limits are, a request is never shed and never waits    *)
(* for a permit; only the rate of its own connection holds it up            *)
(* (server.rs:305-308, 325).  The rate holds up and does not reject: the    *)
(* 429 that server.rs:48 and :168 promise an excess request is answered by  *)
(* no layer.                                                                *)
Isolated ==
    \A c \in Connections :
        /\ status[c] # "503"
        /\ stage[c] = "waiting" => PermitFree(Instance(c))

(* A request that is waiting or running is answered, or its connection is   *)
(* gone, whatever its handler does and whatever the other connections do.   *)
Answered ==
    \A c \in Connections :
        stage[c] \in {"queued", "waiting", "running"} ~> stage[c] \in {"writing", "closed"}

-----------------------------------------------------------------------------
(* What the docs say, and the code does not do. *)

(* concurrency_limit is the "Maximum number of in-flight requests"          *)
(* (server.rs:161), max_concurrency the "maximum number of concurrent       *)
(* requests to allow" (serve.py:37).                                        *)
InFlightLimited ==
    Cardinality({c \in Connections : stage[c] = "running"}) <= ConcurrencyLimit
=============================================================================
