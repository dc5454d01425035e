-------------------------------- MODULE Link --------------------------------
(***************************************************************************)
(* What CommunicationFactory::build (aras/src/communication.rs) promises    *)
(* the two sides of one call of the application, without the handles, the   *)
(* oneshot and the cache that keep the promise: two bounded queues, each    *)
(* closed by either side, and one ending.                                   *)
(*                                                                          *)
(*   - Nothing enters a closed queue, and nothing is lost from it.          *)
(*   - The application is told that its receive is closed, and the server   *)
(*     that the application is gone, only once the queue has been drained.  *)
(*   - A definite result is how the application ended; "Unexpected" says    *)
(*     nothing but that the channel is closed.                              *)
(*                                                                          *)
(* Communication is shown to implement it, and PyBridge is built on it.     *)
(***************************************************************************)
EXTENDS Naturals, Sequences

CONSTANTS
    ServerEvents,     \* ASGIReceiveEvent: what the server sends
    AppEvents,        \* ASGISendEvent: what the application sends
    BackpressureSize  \* capacity of each of the two queues

ASSUME LinkAssumption == BackpressureSize \in Nat \ {0}

Channels == {"toApp", "fromApp"}
Results  == {"Completed", "Unexpected", "Failed"}
Endings  == {"Completed", "Failed", "Panicked"}

VARIABLES
    queue,   \* of each channel
    taken,   \* history: what has been taken out of each queue
    open,    \* the channels neither side has closed
    ended,   \* "running", or how the call of the application ended
    report,  \* the result the server's last call on a channel returned
    told     \* the channels the application has been told are closed

linkVars == <<queue, taken, open, ended, report, told>>

LinkInit ==
    /\ queue  = [c \in Channels |-> <<>>]
    /\ taken  = [c \in Channels |-> <<>>]
    /\ open   = Channels
    /\ ended  = "running"
    /\ report = [c \in Channels |-> "none"]
    /\ told   = {}

Events(c) == IF c = "toApp" THEN ServerEvents ELSE AppEvents

Drained(c) == c \notin open /\ queue[c] = <<>>

Put(c, m) ==
    /\ c \in open /\ Len(queue[c]) < BackpressureSize
    /\ queue' = [queue EXCEPT ![c] = Append(@, m)]
    /\ UNCHANGED <<taken, open, ended, report, told>>

Take(c) ==
    /\ queue[c] # <<>>
    /\ queue' = [queue EXCEPT ![c] = Tail(@)]
    /\ taken' = [taken EXCEPT ![c] = Append(@, Head(queue[c]))]
    /\ UNCHANGED <<open, ended, report, told>>

Close(C) ==
    /\ C \subseteq open /\ C # {}
    /\ open' = open \ C
    /\ UNCHANGED <<queue, taken, ended, report, told>>

End(e) ==
    /\ ended = "running"
    /\ ended' = e
    /\ UNCHANGED <<queue, taken, open, report, told>>

(* A call of the server fails. *)
Report(c, r) ==
    /\ c \notin open
    /\ c = "fromApp" => queue[c] = <<>>
    /\ r # "Unexpected" => ended = r
    /\ report' = [report EXCEPT ![c] = r]
    /\ UNCHANGED <<queue, taken, open, ended, told>>

(* The server calls again. *)
Forget(c) ==
    /\ report' = [report EXCEPT ![c] = "none"]
    /\ UNCHANGED <<queue, taken, open, ended, told>>

(* A call of the application fails: DisconnectedClient, or http.disconnect. *)
Tell(c) ==
    /\ c \notin open
    /\ c = "toApp" => queue[c] = <<>>
    /\ told' = told \cup {c}
    /\ UNCHANGED <<queue, taken, open, ended, report>>

LinkNext ==
    \/ \E c \in Channels :
        \/ \E m \in Events(c) : Put(c, m)
        \/ Take(c)
        \/ \E r \in Results : Report(c, r)
        \/ Forget(c)
        \/ Tell(c)
    \/ \E C \in SUBSET Channels : Close(C)
    \/ \E e \in Endings : End(e)

LinkSpec == LinkInit /\ [][LinkNext]_linkVars
=============================================================================
