----------------------------- MODULE ArasServer -----------------------------
(***************************************************************************)
(* ArasServer::run (aras/src/server.rs): startup of the application, the    *)
(* accept loop of run_server, the cancellation token that ends it, and the  *)
(* connections, each a spawned task nobody waits for.  The lifespan         *)
(* protocol is that of Lifespan; what a connection does is in Http and      *)
(* WebSocket.                                                               *)
(***************************************************************************)
EXTENDS Lifespan

CONSTANT MaxConnections   \* bound on the connections open at a time

ASSUME ServerAssumption == MaxConnections \in Nat

VARIABLES
    cancelled,  \* the token of ArasServerBuilder
    run,        \* "startup", "binding", "serving", "shutdown", "ok", "error", "panic"
    inflight    \* connection tasks still running

serverVars == <<cancelled, run, inflight>>
vars       == <<commVars, lifespanVars, serverVars>>

ServerInit ==
    /\ LifespanInit
    /\ cancelled = FALSE /\ run = "startup" /\ inflight = 0

(* Anyone holding the token, at any time; it is looked at in select! only. *)
Cancel ==
    /\ ~cancelled
    /\ cancelled' = TRUE
    /\ UNCHANGED <<commVars, lifespanVars, run, inflight>>

StartupStep ==
    /\ run = "startup"
    /\ Startup \/ \E c \in Channels : LifespanCall(c)
    /\ UNCHANGED serverVars

\* Mutant: a failed startup is logged and run() goes on.
StartupReturnsAnyway ==
    /\ run = "startup" /\ step \in {"started", "failed"}
    /\ run' = "binding"
    /\ UNCHANGED <<commVars, lifespanVars, cancelled, inflight>>

(* startup(...).await? *)
StartupReturns ==
    /\ run = "startup" /\ step \in {"started", "failed"}
    /\ run' = IF step = "started" THEN "binding" ELSE "error"
    /\ UNCHANGED <<commVars, lifespanVars, cancelled, inflight>>

(* TcpListener::bind(...).expect(...) *)
Bind ==
    /\ run = "binding"
    /\ run' = "serving"
    /\ UNCHANGED <<commVars, lifespanVars, cancelled, inflight>>

BindFails ==
    /\ run = "binding"
    /\ run' = "panic"
    /\ Abandon({}, serverHas)
    /\ UNCHANGED <<lifespanVars, cancelled, inflight>>

(* The task of a connection is spawned, and outlives run_server and run().  *)
Accept ==
    /\ run = "serving" /\ inflight < MaxConnections
    /\ inflight' = inflight + 1
    /\ UNCHANGED <<commVars, lifespanVars, cancelled, run>>

ConnectionEnds ==
    /\ inflight > 0
    /\ inflight' = inflight - 1
    /\ UNCHANGED <<commVars, lifespanVars, cancelled, run>>

\* Mutant: shutdown does not wait to be asked for.
SelectUncancelled ==
    /\ run \in {"binding", "serving"}
    /\ BeginShutdown
    /\ run' = "shutdown"
    /\ UNCHANGED <<cancelled, inflight>>

(* select!: the token drops run_server and with it the listener. *)
SelectCancelled ==
    /\ run \in {"binding", "serving"} /\ cancelled
    /\ BeginShutdown
    /\ run' = "shutdown"
    /\ UNCHANGED <<cancelled, inflight>>

ShutdownStep ==
    /\ run = "shutdown"
    /\ Shutdown \/ \E c \in Channels : LifespanCall(c)
    /\ UNCHANGED serverVars

(* run() returns and drops the handles of the lifespan scope. *)
ShutdownReturns ==
    /\ run = "shutdown" /\ step = "stopped"
    /\ run' = IF ending = "ok" THEN "ok" ELSE "error"
    /\ Abandon({}, serverHas)
    /\ UNCHANGED <<lifespanVars, cancelled, inflight>>

Run ==
    \/ StartupStep \/ StartupReturns
    \/ Bind
    \/ SelectCancelled
    \/ ShutdownStep \/ ShutdownReturns

ServerNext ==
    \/ AppStep /\ UNCHANGED <<lifespanVars, serverVars>>
    \/ Cancel
    \/ Run
    \/ BindFails
    \/ Accept
    \/ ConnectionEnds

ServerSpec == ServerInit /\ [][ServerNext]_vars

(* run() is polled whenever it can go on, its timers included, and the      *)
(* application task finishes once the application has.  Nothing else is     *)
(* assumed of the application, the clients or the owner of the token.       *)
FairServerSpec ==
    /\ ServerSpec
    /\ WF_vars(Run)
    /\ WF_vars(AppWindsUp /\ UNCHANGED <<lifespanVars, serverVars>>)

-----------------------------------------------------------------------------
(* Properties. *)

Runs == {"startup", "binding", "serving", "shutdown", "ok", "error", "panic"}

ServerTypeOK ==
    /\ TypeOK
    /\ step \in {"start", "sendStartup", "awaitStartup", "started", "failed",
                 "sendShutdown", "awaitShutdown", "stopped"}
    /\ enabled \in BOOLEAN
    /\ ending \in {"none", "ok", "timeout"} \cup AppEvents \cup Results
    /\ cancelled \in BOOLEAN
    /\ run \in Runs
    /\ inflight \in 0 .. MaxConnections
    /\ run \in {"binding", "serving"} => step = "started"
    /\ run = "shutdown" => step \in {"sendShutdown", "awaitShutdown", "stopped"}

(* A connection is accepted, and runs on, even past the end of run(), only  *)
(* with an application that has completed its startup, or has shown no      *)
(* interest in the lifespan protocol: its first event is startup.complete   *)
(* or it is gone (lifespan.rs:72-92, server.rs:325-344).                    *)
ServingMeansStarted ==
    run \in {"binding", "serving"} \/ inflight > 0 =>
        \/ /\ enabled /\ got["fromApp"] # <<>>
           /\ Head(got["fromApp"]) = "startup.complete"
        \/ ~enabled /\ got["fromApp"] = <<>> /\ Closed("toApp")
        \/ ~enabled /\ sent["fromApp"] = <<>> /\ app = "Completed"

(* The application is sent startup, then shutdown, each at most once;       *)
(* shutdown only after its own startup.complete, and only when the server   *)
(* has been cancelled (server.rs:261-263, lifespan.rs:50-57).               *)
LifespanOrder ==
    /\ sent["toApp"] \in {<<>>, <<"startup">>, <<"startup", "shutdown">>}
    /\ Len(sent["toApp"]) = 2 =>
          cancelled /\ got["fromApp"] # <<>> /\ Head(got["fromApp"]) = "startup.complete"

(* run() returns Ok from an application with lifespan only if the           *)
(* application has answered startup and shutdown, in that order, with       *)
(* nothing in between; in particular not if it is gone (lifespan.rs:94-108). *)
OkMeansShutDown ==
    run = "ok" /\ enabled => got["fromApp"] = <<"startup.complete", "shutdown.complete">>

(* The one thing no timeout of the handler bounds: send() on a channel      *)
(* whose receiving half the application has dropped waits for the           *)
(* application to end (communication.rs:153-157).                           *)
Deaf == app = "running" /\ "toApp" \notin appHas

(* Startup ends, whatever the application does: it answers, it is gone, or  *)
(* the handler's timeout expires (lifespan.rs:79-83).                       *)
StartupEnded == <>(run # "startup" \/ Deaf)

(* A cancelled server stops, whatever the application and the connections   *)
(* do (server.rs:261-264).  The event shutdown is sent with no timeout, so  *)
(* this needs a queue with room for the two events of the server.           *)
CancelledStops == cancelled ~> (run \in {"ok", "error", "panic"} \/ Deaf)
=============================================================================
