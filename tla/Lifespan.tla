------------------------------ MODULE Lifespan ------------------------------
(***************************************************************************)
(* The lifespan protocol: LifespanHandler::startup and                      *)
(* StartedLifespanHandler::shutdown (aras/src/protocols/lifespan.rs), over  *)
(* the link of Communication.  Both are sequential: send one event, then    *)
(* wait for the answer for at most the handler's timeout.                   *)
(***************************************************************************)
EXTENDS Communication

LifespanReceiveEvents == {"startup", "shutdown"}
LifespanSendEvents ==
    {"startup.complete", "startup.failed", "shutdown.complete", "shutdown.failed", "other"}

ASSUME LifespanAssumption ==
    /\ ServerEvents = LifespanReceiveEvents
    /\ AppEvents = LifespanSendEvents
    /\ MaxMessages >= 2

VARIABLES
    step,     \* of the handler
    enabled,  \* StartedLifespanHandler.enabled
    ending    \* how startup or shutdown ended, "none" before

lifespanVars == <<step, enabled, ending>>

LifespanInit ==
    /\ CommInit
    /\ step = "start" /\ enabled = FALSE /\ ending = "none"

-----------------------------------------------------------------------------
(* startup_loop *)

SendStartup ==
    /\ step = "start"
    /\ BeginSend("startup")
    /\ step' = "sendStartup"
    /\ UNCHANGED <<enabled, ending>>

(* A failed send turns the protocol off. *)
StartupSent ==
    /\ step = "sendStartup" /\ at["toApp"] = "idle"
    /\ IF answer["toApp"] = "ok"
       THEN BeginReceive /\ step' = "awaitStartup"
       ELSE UNCHANGED commVars /\ step' = "started"
    /\ UNCHANGED <<enabled, ending>>

(* What startup() makes of the answer; on an error it drops both handles.   *)
StartupEnds(failure) ==
    /\ step' = "failed" /\ ending' = failure
    /\ Abandon({}, Channels)
    /\ UNCHANGED enabled

\* Mutant: every answer but startup.failed starts the server.
StartupAnsweredLax ==
    /\ step = "awaitStartup" /\ at["fromApp"] = "idle"
    /\ IF answer["fromApp"] # "startup.failed"
       THEN step' = "started" /\ enabled' = TRUE /\ UNCHANGED <<commVars, ending>>
       ELSE StartupEnds("startup.failed")

StartupAnswered ==
    /\ step = "awaitStartup" /\ at["fromApp"] = "idle"
    /\ CASE answer["fromApp"] = "startup.complete" ->
              step' = "started" /\ enabled' = TRUE /\ UNCHANGED <<commVars, ending>>
         [] answer["fromApp"] = "Completed" ->
              step' = "started" /\ UNCHANGED <<commVars, enabled, ending>>
         [] OTHER -> StartupEnds(answer["fromApp"])

\* Mutant: the answer to startup is awaited for as long as it takes.
StartupTimeoutNever == FALSE /\ UNCHANGED <<commVars, lifespanVars>>

StartupTimeout ==
    /\ step = "awaitStartup" /\ at["fromApp"] # "idle"
    /\ StartupEnds("timeout")

-----------------------------------------------------------------------------
(* shutdown *)

BeginShutdown ==
    /\ step = "started"
    /\ IF enabled
       THEN BeginSend("shutdown") /\ step' = "sendShutdown" /\ UNCHANGED ending
       ELSE UNCHANGED commVars /\ step' = "stopped" /\ ending' = "ok"
    /\ UNCHANGED enabled

ShutdownSent ==
    /\ step = "sendShutdown" /\ at["toApp"] = "idle"
    /\ IF answer["toApp"] = "ok"
       THEN BeginReceive /\ step' = "awaitShutdown" /\ UNCHANGED ending
       ELSE UNCHANGED commVars /\ step' = "stopped" /\ ending' = answer["toApp"]
    /\ UNCHANGED enabled

\* Mutant: an application that is gone counts as shut down.
ShutdownAnsweredLax ==
    /\ step = "awaitShutdown" /\ at["fromApp"] = "idle"
    /\ step' = "stopped"
    /\ ending' = IF answer["fromApp"] \in {"shutdown.complete", "Completed"}
                 THEN "ok" ELSE answer["fromApp"]
    /\ UNCHANGED <<commVars, enabled>>

ShutdownAnswered ==
    /\ step = "awaitShutdown" /\ at["fromApp"] = "idle"
    /\ step' = "stopped"
    /\ ending' = IF answer["fromApp"] = "shutdown.complete" THEN "ok" ELSE answer["fromApp"]
    /\ UNCHANGED <<commVars, enabled>>

\* Mutant: the answer to shutdown is awaited for as long as it takes.
ShutdownTimeoutNever == FALSE /\ UNCHANGED <<commVars, lifespanVars>>

ShutdownTimeout ==
    /\ step = "awaitShutdown" /\ at["fromApp"] # "idle"
    /\ Abandon({"fromApp"}, {})
    /\ step' = "stopped" /\ ending' = "timeout"
    /\ UNCHANGED enabled

-----------------------------------------------------------------------------
Startup ==
    \/ SendStartup \/ StartupSent \/ StartupAnswered \/ StartupTimeout

Shutdown ==
    \/ ShutdownSent \/ ShutdownAnswered \/ ShutdownTimeout

LifespanCall(c) == CallStep(c) /\ UNCHANGED lifespanVars
=============================================================================
