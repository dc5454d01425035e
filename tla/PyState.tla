------------------------------- MODULE PyState -------------------------------
(***************************************************************************)
(* The state that the calls of a Python application share (PyState,         *)
(* aras_py/src/wrappers.rs): one Python dictionary, whose reference is      *)
(* behind a mutex, and which every scope carries (Scopes).                  *)
(*                                                                          *)
(* A method of PyState runs with the GIL.  It locks the mutex only to clone *)
(* the reference, and calls the method of the dictionary without it; that   *)
(* may run Python code (the __hash__ or __eq__ of a key), which may use     *)
(* the state again and lets other threads have the GIL.  Waiting for the    *)
(* mutex does not.  Of the dictionary one key is kept.                      *)
(***************************************************************************)
EXTENDS Naturals, FiniteSets, Scopes

CONSTANTS
    Threads,   \* that run Python code of the application
    Calls,     \* of the application, "lifespan" the first of them
    Methods,   \* of PyState, the ones used
    Values,    \* of the key
    MaxDepth,  \* bound on uses of the state within a use of it
    MaxUses    \* bound on the uses of the state in all

Readers == {"__getitem__", "get", "__iter__", "__str__", "__repr__"}
Writers == {"__setitem__", "__delitem__", "pop"}

ASSUME PyStateAssumption ==
    /\ Methods \subseteq Readers \cup Writers
    /\ MaxDepth \in Nat \ {0} /\ MaxUses \in Nat

Nobody == "nobody"
Absent == "absent"
Shared == "the dictionary"   \* of serve_python; another object would be a copy
Objects == {Shared} \cup Calls

VARIABLES
    scope,    \* of each call: the dictionary it is called with, empty before
    content,  \* of each dictionary of state
    gil,      \* the thread that has the GIL
    mutex,    \* the thread that has locked the mutex
    uses,     \* of each thread: its methods of PyState in progress, innermost last
    count,    \* uses begun
    seen,     \* history: what the last method to end found in the dictionary
    latest    \* history: what the last method to write has left, in any of them

vars == <<scope, content, gil, mutex, uses, count, seen, latest>>

PyStateInit ==
    /\ scope   = [c \in Calls |-> << >>]
    /\ content = [o \in Objects |-> Absent]
    /\ gil = Nobody /\ mutex = Nobody
    /\ uses    = [t \in Threads |-> << >>]
    /\ count = 0
    /\ seen = Absent /\ latest = Absent

Called(c) == scope[c] # << >>

-----------------------------------------------------------------------------
(* The scopes. *)

(* The request and the connection a call is made for. *)
RequestOf(c) ==
    [version |-> "HTTP/1.1", method |-> <<"method", c>>, path |-> <<"path", c>>,
     query |-> <<"query", c>>,
     headers |-> <<[name |-> "host", value |-> <<"localhost">>],
                   [name |-> "sec-websocket-protocol", value |-> <<"v2", "v1">>],
                   [name |-> "sec-websocket-protocol", value |-> <<"soap">>]>>]
ConnectionOf(c) == [client |-> <<"client", c>>, server |-> "server"]

\* Mutant: a scope gets a dictionary of its own.
StateCopied(c) == c

(* state.clone(): another reference to the same dictionary. *)
StateClone(c) == Shared

ScopeOf(c, protocol) ==
    CASE protocol = "http"      -> build_http(ConnectionOf(c), RequestOf(c), StateClone(c))
      [] protocol = "websocket" -> build_websocket(ConnectionOf(c), RequestOf(c), StateClone(c))
      [] protocol = "lifespan"  -> build_lifespan(StateClone(c))

(* ArasServer::run calls the application for its lifespan before any        *)
(* request is dispatched by ArasASGIService::call.                          *)
CallApplication(c, protocol) ==
    /\ ~Called(c)
    /\ (c = "lifespan") = (protocol = "lifespan")
    /\ c # "lifespan" => Called("lifespan")
    /\ scope' = [scope EXCEPT ![c] = ScopeIntoPy(protocol, ScopeOf(c, protocol))]
    /\ content' = [content EXCEPT ![StateClone(c)] = content[Shared]]
    /\ UNCHANGED <<gil, mutex, uses, count, seen, latest>>

-----------------------------------------------------------------------------
(* The GIL. *)

Use(t) == Last(uses[t])
At(t, point) == uses[t] # << >> /\ Use(t).at = point

AcquireGil(t) ==
    /\ gil = Nobody
    /\ gil' = t
    /\ UNCHANGED <<scope, content, mutex, uses, count, seen, latest>>

\* Mutant: waiting for the mutex, and holding it, lets other threads run.
ReleaseGilAnywhere(t) ==
    /\ gil = t
    /\ gil' = Nobody
    /\ UNCHANGED <<scope, content, mutex, uses, count, seen, latest>>

(* Between two uses of the state, or in Python code that one of them runs. *)
ReleaseGil(t) ==
    /\ gil = t
    /\ uses[t] = << >> \/ At(t, "method")
    /\ gil' = Nobody
    /\ UNCHANGED <<scope, content, mutex, uses, count, seen, latest>>

-----------------------------------------------------------------------------
(* __getitem__, __delitem__, __setitem__, get, pop, __iter__, __str__ and   *)
(* __repr__ of PyState: they differ in the method of the dictionary.        *)

Begin(t, m, c, v) ==
    /\ gil = t /\ Called(c)
    /\ uses[t] = << >> \/ At(t, "method")
    /\ Len(uses[t]) < MaxDepth /\ count < MaxUses
    /\ (m = "__setitem__") = (v \in Values)
    /\ count' = count + 1
    /\ uses' = [uses EXCEPT ![t] =
                   Append(@, [method |-> m, call |-> c, value |-> v, at |-> "lock"])]
    /\ UNCHANGED <<scope, content, gil, mutex, seen, latest>>

Goto(t, point) == uses' = [uses EXCEPT ![t][Len(uses[t])].at = point]

(* self.state.lock() *)
Lock(t) ==
    /\ gil = t /\ At(t, "lock") /\ mutex = Nobody
    /\ mutex' = t
    /\ Goto(t, "clone")
    /\ UNCHANGED <<scope, content, gil, count, seen, latest>>

\* Mutant: the guard is bound to a name and outlives the statement.
CloneRefGuarded(t) ==
    /\ gil = t /\ At(t, "clone")
    /\ Goto(t, "method")
    /\ UNCHANGED <<scope, content, gil, mutex, count, seen, latest>>

(* .unwrap().clone_ref(py), and the guard is dropped with the statement. *)
CloneRef(t) ==
    /\ gil = t /\ At(t, "clone")
    /\ mutex' = Nobody
    /\ Goto(t, "method")
    /\ UNCHANGED <<scope, content, gil, count, seen, latest>>

Written(use, old) ==
    CASE use.method = "__setitem__"             -> use.value
      [] use.method \in {"__delitem__", "pop"} -> Absent
      [] OTHER                                 -> old

(* dict.call_method: what is not there is a KeyError, or the default. *)
CallMethod(t) ==
    /\ gil = t /\ At(t, "method")
    /\ LET use == Use(t)
           object == scope[use.call].state
       IN  /\ seen' = content[object]
           /\ content' = [content EXCEPT ![object] = Written(use, @)]
           /\ latest' = Written(use, latest)
    /\ uses' = [uses EXCEPT ![t] = Front(@)]
    /\ UNCHANGED <<scope, gil, mutex, count>>

Step(t) == Lock(t) \/ CloneRef(t) \/ CallMethod(t)

PyStateNext ==
    \/ \E c \in Calls : \E p \in {"http", "websocket", "lifespan"} : CallApplication(c, p)
    \/ \E t \in Threads :
        \/ AcquireGil(t)
        \/ ReleaseGil(t)
        \/ \E m \in Methods, c \in Calls, v \in Values \cup {Absent} : Begin(t, m, c, v)
        \/ Step(t)

PyStateSpec == PyStateInit /\ [][PyStateNext]_vars

(* The interpreter hands the GIL over to every thread that waits for it,    *)
(* and a thread that has it gets on before it must let go.                  *)
FairPyStateSpec ==
    /\ PyStateSpec
    /\ \A t \in Threads :
        /\ SF_vars(AcquireGil(t)) /\ WF_vars(ReleaseGil(t))
        /\ SF_vars(Step(t))

-----------------------------------------------------------------------------
(* Properties. *)

(* Types: a call has a dictionary with the fields of a scope of its         *)
(* protocol; and whoever holds the mutex has the GIL.                       *)
PyStateTypeOK ==
    /\ DOMAIN scope = Calls
    /\ \A c \in Calls :
          Called(c) => DOMAIN scope[c] = FieldsOfScope(scope[c].type) \cup {"type"}
    /\ content \in [Objects -> Values \cup {Absent}]
    /\ gil \in Threads \cup {Nobody} /\ mutex \in Threads \cup {Nobody}
    /\ \A t \in Threads : Len(uses[t]) <= MaxDepth
    /\ mutex # Nobody => gil = mutex

(* The state of the lifespan is the state of every request: a method sees   *)
(* what the last one to write has left, whichever scope and thread it was   *)
(* reached by ("test_state_is_persisted", wrappers.rs:42-107).              *)
ReadsLatest ==
    [][\A t \in Threads : Len(uses'[t]) < Len(uses[t]) => seen' = latest]_vars

(* A use of the state ends: no thread waits for the mutex with the GIL that *)
(* its holder needs, not even one that uses the state within a use of it    *)
(* (wrappers.rs:67-68).                                                     *)
UsesEnd == \A t \in Threads : (uses[t] # << >>) ~> (uses[t] = << >>)
=============================================================================
