---------------------------- MODULE PyStateProofs ----------------------------
(***************************************************************************)
(* Proofs about the state that the calls of a Python application share, for *)
(* every number of threads, calls and keys' values, every depth of uses     *)
(* within uses and every number of uses.                                    *)
(*                                                                          *)
(* Three invariants carry them: a scope is one that was built for its call  *)
(* (ScopesInv), the holder of the mutex is about to clone the reference and *)
(* has the GIL (LockInv), and every scope in use leads to the one           *)
(* dictionary, which is as the last writer left it (SharedInv).             *)
(***************************************************************************)
EXTENDS PyState, SequenceTheorems, TLAPS

Protocols == {"http", "websocket", "lifespan"}

PyUses == [method : Methods, call : Calls, value : Values \cup {Absent},
           at : {"lock", "clone", "method"}]

UsesInv ==
    /\ uses \in [Threads -> Seq(PyUses)]
    /\ \A t \in Threads : Len(uses[t]) <= MaxDepth

ScopesInv ==
    /\ DOMAIN scope = Calls
    /\ \A c \in Calls :
          Called(c) => \E p \in Protocols : scope[c] = ScopeIntoPy(p, ScopeOf(c, p))

LockInv ==
    /\ gil \in Threads \cup {Nobody} /\ mutex \in Threads \cup {Nobody}
    /\ mutex # Nobody => gil = mutex /\ At(mutex, "clone")

SharedInv ==
    /\ content \in [Objects -> Values \cup {Absent}]
    /\ content[Shared] = latest
    /\ \A t \in Threads : \A i \in 1 .. Len(uses[t]) : Called(uses[t][i].call)

StateInv == UsesInv /\ ScopesInv /\ LockInv /\ SharedInv

-----------------------------------------------------------------------------
(* The dictionaries of the scopes. *)

(* A dictionary with given keys shows the fields of the scope under them. *)
LEMMA WithKeysShows ==
    ASSUME NEW type, NEW s, NEW keys, "asgi" \in DOMAIN s, s.asgi = ASGIScopeDefault,
           "type" \in keys
    PROVE  LET d == WithKeys(type, s, keys) IN
           /\ DOMAIN d = keys /\ d.type = type
           /\ \A f \in keys \ {"type"} : d[f] = s[f]
<1>1. asgi_scope_into_py(ASGIScopeDefault) = ASGIScopeDefault
  BY DEF asgi_scope_into_py, ASGIScopeDefault
<1>. QED BY <1>1 DEF WithKeys

(* The fields a request gives a websocket's scope. *)
LEMMA FromRequestFields ==
    ASSUME NEW conn, NEW request, NEW state
    PROVE  LET s == FromRequest(conn, request, state) IN
           /\ DOMAIN s = WebsocketScopeFields \ {"subprotocols"}
           /\ s.asgi = ASGIScopeDefault /\ s.state = state
BY DEF FromRequest, WebsocketScopeFields

(* A scope of each protocol has its asgi entry and the state it is given. *)
LEMMA ScopeFields ==
    ASSUME NEW c, NEW p \in Protocols
    PROVE  /\ "asgi" \in DOMAIN ScopeOf(c, p) /\ ScopeOf(c, p).asgi = ASGIScopeDefault
           /\ ScopeOf(c, p).state = Shared
<1> DEFINE s == FromRequest(ConnectionOf(c), RequestOf(c), Shared)
<1>1. /\ DOMAIN s = WebsocketScopeFields \ {"subprotocols"}
      /\ s.asgi = ASGIScopeDefault /\ s.state = Shared
  BY FromRequestFields
<1>2. /\ "asgi" \in DOMAIN s /\ "state" \in DOMAIN s
      /\ "method" \notin DOMAIN s /\ "subprotocols" \notin DOMAIN s
  BY <1>1 DEF WebsocketScopeFields
<1> HIDE DEF s
<1>3. CASE p = "http"
  <2>1. ScopeOf(c, p) = WithField(s, "method", RequestOf(c).method)
    BY <1>3 DEF ScopeOf, build_http, StateClone, s
  <2>2. /\ DOMAIN s \subseteq DOMAIN WithField(s, "method", RequestOf(c).method)
        /\ \A g \in DOMAIN s : WithField(s, "method", RequestOf(c).method)[g] = s[g]
    BY <1>2 DEF WithField
  <2>. QED BY <2>1, <2>2, <1>1, <1>2
<1>4. CASE p = "websocket"
  <2>1. ScopeOf(c, p) = WithField(s, "subprotocols", Subprotocols(RequestOf(c).headers))
    BY <1>4 DEF ScopeOf, build_websocket, StateClone, s
  <2> DEFINE offered == Subprotocols(RequestOf(c).headers)
  <2>2. /\ DOMAIN s \subseteq DOMAIN WithField(s, "subprotocols", offered)
        /\ \A g \in DOMAIN s : WithField(s, "subprotocols", offered)[g] = s[g]
    BY <1>2 DEF WithField
  <2>. QED BY <2>1, <2>2, <1>1, <1>2
<1>5. CASE p = "lifespan"
  BY <1>5 DEF ScopeOf, build_lifespan, StateClone
<1>. QED BY <1>3, <1>4, <1>5 DEF Protocols

(* The dictionary of a scope has its type and, as they are, its fields. *)
LEMMA DictOfScope ==
    ASSUME NEW c, NEW p \in Protocols
    PROVE  LET d == ScopeIntoPy(p, ScopeOf(c, p)) IN
           /\ d.type = p
           /\ DOMAIN d = FieldsOfScope(p) \cup {"type"}
           /\ \A f \in FieldsOfScope(p) : d[f] = ScopeOf(c, p)[f]
           /\ d.state = Shared
<1> DEFINE keys == FieldsOfScope(p) \cup {"type"}
<1>1. ScopeIntoPy(p, ScopeOf(c, p)) = WithKeys(p, ScopeOf(c, p), keys)
  BY DEF Protocols, ScopeIntoPy, http_scope_into_py, websocket_scope_into_py,
         lifespan_scope_into_py, FieldsOfScope, HTTPScopeFields, WebsocketScopeFields,
         LifespanScopeFields
<1>2. "type" \notin FieldsOfScope(p) /\ "state" \in FieldsOfScope(p)
  BY DEF Protocols, FieldsOfScope, HTTPScopeFields, WebsocketScopeFields,
         LifespanScopeFields
<1>3. /\ DOMAIN WithKeys(p, ScopeOf(c, p), keys) = keys
      /\ WithKeys(p, ScopeOf(c, p), keys).type = p
      /\ \A f \in keys \ {"type"} : WithKeys(p, ScopeOf(c, p), keys)[f] = ScopeOf(c, p)[f]
  BY ScopeFields, WithKeysShows
<1>. QED BY <1>1, <1>2, <1>3, ScopeFields

-----------------------------------------------------------------------------
(* The uses of a thread. *)

(* What is left of a sequence without its last element. *)
LEMMA FrontLast ==
    ASSUME NEW S, NEW s \in Seq(S), s # << >>
    PROVE  /\ Front(s) \in Seq(S) /\ Len(Front(s)) = Len(s) - 1
           /\ \A i \in 1 .. Len(s) - 1 : Front(s)[i] = s[i]
           /\ Last(s) \in S /\ Len(s) \in Nat \ {0}
<1>1. Len(s) \in Nat \ {0}
  BY EmptySeq
<1>2. /\ SubSeq(s, 1, Len(s) - 1) \in Seq(S)
      /\ Len(SubSeq(s, 1, Len(s) - 1)) = Len(s) - 1
      /\ \A i \in 1 .. Len(s) - 1 : SubSeq(s, 1, Len(s) - 1)[i] = s[i]
  <2>1. 1 \in Int /\ Len(s) - 1 \in Int /\ \A i \in 1 .. Len(s) - 1 : s[i] \in S
    BY <1>1, ElementOfSeq
  <2> DEFINE n == Len(s) - 1
             f == SubSeq(s, 1, n)
  <2>2. /\ f \in Seq(S) /\ Len(f) = IF 1 <= n THEN n - 1 + 1 ELSE 0
        /\ \A i \in 1 .. n - 1 + 1 : f[i] = s[1 + i - 1]
    BY <2>1, SubSeqProperties
  <2>3. n \in Nat
    BY <1>1
  <2> HIDE DEF n, f
  <2>4. Len(f) = n /\ \A i \in 1 .. n : f[i] = s[i]
    BY <2>2, <2>3
  <2>. QED BY <2>2, <2>4 DEF n, f
<1>3. s[Len(s)] \in S
  BY <1>1, ElementOfSeq
<1>. QED BY <1>1, <1>2, <1>3 DEF Front, Last

(* Before the first call. *)
LEMMA InitStateInv == PyStateInit => StateInv
<1> SUFFICES ASSUME PyStateInit PROVE StateInv
  OBVIOUS
<1>1. UsesInv
  BY EmptySeq, PyStateAssumption DEF PyStateInit, UsesInv
<1>2. ScopesInv /\ LockInv
  BY DEF PyStateInit, ScopesInv, LockInv, Called
<1>3. SharedInv
  BY DEF PyStateInit, SharedInv, Objects
<1>. QED BY <1>1, <1>2, <1>3 DEF StateInv

(* What Goto changes is where the innermost use of the thread is. *)
LEMMA GotoFacts ==
    ASSUME UsesInv, NEW t \in Threads, uses[t] # << >>,
           NEW p \in {"lock", "clone", "method"}, Goto(t, p)
    PROVE  /\ UsesInv'
           /\ \A u \in Threads : Len(uses'[u]) = Len(uses[u])
           /\ \A u \in Threads : \A i \in 1 .. Len(uses[u]) :
                 uses'[u][i].call = uses[u][i].call
           /\ At(t, p)'
<1> DEFINE n == Len(uses[t])
           new == [uses[t] EXCEPT ![n] = [uses[t][n] EXCEPT !.at = p]]
<1>1. uses[t] \in Seq(PyUses) /\ n \in Nat \ {0} /\ n \in 1 .. n
  BY FrontLast DEF UsesInv
<1>2. uses[t][n] \in PyUses
  BY <1>1, ElementOfSeq
<1>3. [uses[t][n] EXCEPT !.at = p] \in PyUses
  BY <1>2 DEF PyUses
<1>4. new \in Seq(PyUses) /\ Len(new) = n
  BY <1>1, <1>3, ExceptSeq
<1>5. /\ new[n].at = p /\ new[n].call = uses[t][n].call
      /\ \A i \in 1 .. n : i # n => new[i] = uses[t][i]
  BY <1>1, <1>2 DEF PyUses
<1>6. uses' = [uses EXCEPT ![t] = new]
  BY DEF Goto
<1> HIDE DEF new
<1>7. UsesInv'
  BY <1>4, <1>6 DEF UsesInv
<1>8. uses'[t] = new /\ \A u \in Threads : u # t => uses'[u] = uses[u]
  BY <1>6 DEF UsesInv
<1>9. At(t, p)'
  BY <1>1, <1>4, <1>5, <1>8, EmptySeq DEF At, Use, Last
<1>. QED BY <1>4, <1>5, <1>7, <1>8, <1>9

-----------------------------------------------------------------------------
(* Each step keeps the invariant. *)

(* A new call is shown the dictionary every call shares. *)
LEMMA CallApplicationInv ==
    ASSUME StateInv, NEW c \in Calls, NEW p \in Protocols, CallApplication(c, p)
    PROVE  StateInv'
<1>1. /\ scope' = [scope EXCEPT ![c] = ScopeIntoPy(p, ScopeOf(c, p))] /\ ~Called(c)
      /\ content' = [content EXCEPT ![Shared] = content[Shared]]
      /\ UNCHANGED <<gil, mutex, uses, latest>>
  BY DEF CallApplication, StateClone
<1>2. UsesInv' /\ LockInv'
  BY <1>1 DEF StateInv, UsesInv, LockInv, At, Use
<1>3. \A d \in Calls : IF d = c THEN scope'[d] = ScopeIntoPy(p, ScopeOf(c, p))
                       ELSE scope'[d] = scope[d]
  BY <1>1 DEF StateInv, ScopesInv
<1>4. ScopesInv'
  BY <1>1, <1>3 DEF StateInv, ScopesInv, Called
<1>5. \A d \in Calls : Called(d) => Called(d)'
  BY <1>1, <1>3 DEF Called
<1>6. content' = content
  BY <1>1 DEF StateInv, SharedInv, Objects
<1>7. ASSUME NEW t \in Threads, NEW i \in 1 .. Len(uses[t])
      PROVE  uses[t][i].call \in Calls
  <2>1. uses[t] \in Seq(PyUses)
    BY DEF StateInv, UsesInv
  <2>2. uses[t][i] \in PyUses
    BY <2>1, ElementOfSeq
  <2>. QED BY <2>2 DEF PyUses
<1>8. SharedInv'
  BY <1>1, <1>5, <1>6, <1>7 DEF StateInv, SharedInv
<1>. QED BY <1>2, <1>4, <1>8 DEF StateInv

(* The GIL changes hands only where no mutex is held. *)
LEMMA GilInv ==
    ASSUME StateInv, NEW t \in Threads, AcquireGil(t) \/ ReleaseGil(t)
    PROVE  StateInv'
<1>1. UNCHANGED <<scope, content, mutex, uses, latest>> /\ gil' \in Threads \cup {Nobody}
  BY DEF AcquireGil, ReleaseGil
<1>2. mutex = Nobody
  BY DEF AcquireGil, ReleaseGil, StateInv, LockInv, At
<1>. QED BY <1>1, <1>2
         DEF StateInv, UsesInv, ScopesInv, LockInv, SharedInv, Called

(* A method of the state begins: the thread's uses grow by one, at its      *)
(* lock.                                                                    *)
LEMMA BeginInv ==
    ASSUME StateInv, NEW t \in Threads, NEW m \in Methods, NEW c \in Calls,
           NEW v \in Values \cup {Absent}, Begin(t, m, c, v)
    PROVE  StateInv'
<1> DEFINE use == [method |-> m, call |-> c, value |-> v, at |-> "lock"]
           new == Append(uses[t], use)
<1>1. /\ uses' = [uses EXCEPT ![t] = new] /\ Called(c) /\ gil = t
      /\ uses[t] = << >> \/ At(t, "method")
      /\ Len(uses[t]) < MaxDepth
      /\ UNCHANGED <<scope, content, gil, mutex, latest>>
  BY DEF Begin
<1>2. use \in PyUses /\ uses[t] \in Seq(PyUses)
  BY DEF PyUses, StateInv, UsesInv
<1>3. /\ new \in Seq(PyUses) /\ Len(new) = Len(uses[t]) + 1
      /\ \A i \in 1 .. Len(uses[t]) : new[i] = uses[t][i]
      /\ new[Len(uses[t]) + 1] = use /\ Len(uses[t]) \in Nat
  BY <1>2, AppendProperties
<1> HIDE DEF new
<1>4. uses'[t] = new /\ \A u \in Threads : u # t => uses'[u] = uses[u]
  BY <1>1 DEF StateInv, UsesInv
<1>5. UsesInv'
  <2>1. Len(new) <= MaxDepth
    BY <1>1, <1>3, PyStateAssumption
  <2>. QED BY <1>1, <1>3, <1>4, <2>1 DEF StateInv, UsesInv
<1>6. ScopesInv' /\ LockInv'
  <2>1. mutex # t \/ mutex = Nobody
    BY <1>1 DEF StateInv, LockInv, At
  <2>2. mutex = Nobody
    BY <1>1, <2>1 DEF StateInv, LockInv
  <2>. QED BY <1>1, <2>2 DEF StateInv, ScopesInv, LockInv, Called
<1>7. \A i \in 1 .. Len(new) : Called(new[i].call)
  BY <1>1, <1>3 DEF StateInv, SharedInv
<1>8. SharedInv'
  BY <1>1, <1>4, <1>7 DEF StateInv, SharedInv, Called
<1>. QED BY <1>5, <1>6, <1>8 DEF StateInv

(* The mutex is held from the lock to the clone of the reference, by the    *)
(* thread that has the GIL.                                                 *)
LEMMA LockStepInv ==
    ASSUME StateInv, NEW t \in Threads, Lock(t) \/ CloneRef(t)
    PROVE  StateInv'
<1> USE DEF StateInv
<1>1. /\ gil = t /\ gil' = gil /\ uses[t] # << >>
      /\ UNCHANGED <<scope, content, latest>>
  BY DEF Lock, CloneRef, At
<1>2. PICK p \in {"clone", "method"} :
         /\ Goto(t, p)
         /\ IF p = "clone" THEN mutex' = t ELSE mutex' = Nobody
  BY DEF Lock, CloneRef
<1>3. /\ UsesInv'
      /\ \A u \in Threads : Len(uses'[u]) = Len(uses[u])
      /\ \A u \in Threads : \A i \in 1 .. Len(uses[u]) :
            uses'[u][i].call = uses[u][i].call
      /\ At(t, p)'
  BY <1>1, <1>2, GotoFacts
<1>4. LockInv'
  BY <1>1, <1>2, <1>3 DEF LockInv
<1>5. ScopesInv' /\ SharedInv'
  BY <1>1, <1>3 DEF ScopesInv, SharedInv, Called
<1>. QED BY <1>3, <1>4, <1>5

(* The dictionary a method is called on is the one of the last writer. *)
LEMMA CallMethodFacts ==
    ASSUME StateInv, NEW t \in Threads, CallMethod(t)
    PROVE  /\ seen' = latest
           /\ content' = [content EXCEPT ![Shared] = Written(Use(t), latest)]
           /\ latest' = Written(Use(t), latest)
           /\ Written(Use(t), latest) \in Values \cup {Absent}
           /\ Use(t) \in PyUses
<1> USE DEF StateInv
<1>1. uses[t] # << >> /\ uses[t] \in Seq(PyUses)
  BY DEF CallMethod, At, UsesInv
<1>2. Use(t) \in PyUses /\ Len(uses[t]) \in 1 .. Len(uses[t])
  BY <1>1, FrontLast DEF Use
<1>3. Use(t) = uses[t][Len(uses[t])]
  BY DEF Use, Last
<1>4. Called(Use(t).call) /\ Use(t).call \in Calls
  BY <1>2, <1>3 DEF SharedInv, PyUses
<1>5. scope[Use(t).call].state = Shared
  <2>1. PICK p \in Protocols :
            scope[Use(t).call] = ScopeIntoPy(p, ScopeOf(Use(t).call, p))
    BY <1>4 DEF ScopesInv
  <2>2. ScopeIntoPy(p, ScopeOf(Use(t).call, p)).state = Shared
    BY DictOfScope
  <2>. QED BY <2>1, <2>2
<1>6. /\ seen' = content[Shared] /\ latest' = Written(Use(t), latest)
      /\ content' = [content EXCEPT ![Shared] = Written(Use(t), content[Shared])]
  BY <1>5 DEF CallMethod
<1>7. content[Shared] = latest /\ latest \in Values \cup {Absent}
  BY DEF SharedInv, Objects
<1>8. Written(Use(t), latest) \in Values \cup {Absent}
  BY <1>2, <1>7 DEF Written, PyUses
<1>. QED BY <1>2, <1>6, <1>7, <1>8

(* The method of the dictionary runs, and the thread's last use is over. *)
LEMMA CallMethodInv ==
    ASSUME StateInv, NEW t \in Threads, CallMethod(t)
    PROVE  StateInv'
<1> USE DEF StateInv
<1>1. /\ gil = t /\ At(t, "method") /\ uses' = [uses EXCEPT ![t] = Front(@)]
      /\ UNCHANGED <<scope, gil, mutex>> /\ uses[t] # << >>
  BY DEF CallMethod, At
<1>2. /\ Front(uses[t]) \in Seq(PyUses) /\ Len(Front(uses[t])) = Len(uses[t]) - 1
      /\ \A i \in 1 .. Len(uses[t]) - 1 : Front(uses[t])[i] = uses[t][i]
      /\ Len(uses[t]) \in Nat
  BY <1>1, FrontLast DEF UsesInv
<1>3. uses'[t] = Front(uses[t]) /\ \A u \in Threads : u # t => uses'[u] = uses[u]
  BY <1>1 DEF UsesInv
<1>4. UsesInv'
  <2>1. Len(Front(uses[t])) <= MaxDepth
    BY <1>2, PyStateAssumption DEF UsesInv
  <2>. QED BY <1>1, <1>2, <1>3, <2>1 DEF UsesInv
<1>5. ScopesInv' /\ LockInv'
  <2>1. mutex = Nobody
    BY <1>1 DEF LockInv, At
  <2>. QED BY <1>1, <2>1 DEF ScopesInv, LockInv, Called
<1>6. content' \in [Objects -> Values \cup {Absent}] /\ content'[Shared] = latest'
  BY CallMethodFacts DEF SharedInv, Objects
<1>7. \A u \in Threads : \A i \in 1 .. Len(uses'[u]) : Called(uses'[u][i].call)
  BY <1>2, <1>3 DEF SharedInv
<1>8. SharedInv'
  BY <1>1, <1>6, <1>7 DEF SharedInv, Called
<1>. QED BY <1>4, <1>5, <1>8

(* No step breaks the invariant. *)
LEMMA StepStateInv == StateInv /\ [PyStateNext]_vars => StateInv'
<1> SUFFICES ASSUME StateInv, [PyStateNext]_vars PROVE StateInv'
  OBVIOUS
<1>1. ASSUME NEW c \in Calls, NEW p \in Protocols, CallApplication(c, p) PROVE StateInv'
  BY <1>1, CallApplicationInv
<1>2. ASSUME NEW t \in Threads, AcquireGil(t) \/ ReleaseGil(t) PROVE StateInv'
  BY <1>2, GilInv
<1>3. ASSUME NEW t \in Threads, NEW m \in Methods, NEW c \in Calls,
             NEW v \in Values \cup {Absent}, Begin(t, m, c, v)
      PROVE  StateInv'
  BY <1>3, BeginInv
<1>4. ASSUME NEW t \in Threads, Step(t) PROVE StateInv'
  BY <1>4, LockStepInv, CallMethodInv DEF Step
<1>5. CASE UNCHANGED vars
  BY <1>5 DEF vars, StateInv, UsesInv, ScopesInv, LockInv, SharedInv, Called, At, Use
<1>. QED BY <1>1, <1>2, <1>3, <1>4, <1>5 DEF PyStateNext, Protocols

-----------------------------------------------------------------------------
(* The invariant holds in every state. *)
THEOREM StateInvariant == PyStateSpec => []StateInv
<1>. QED BY InitStateInv, StepStateInv, PTL DEF PyStateSpec

(* Types: each call has a dictionary with the fields of a scope of its      *)
(* protocol; and whoever holds the mutex has the GIL, wherever the          *)
(* interpreter takes it away and however uses are nested (scope.rs:21-77,   *)
(* convert.rs:63-107, 186-220, wrappers.rs:67-68).                          *)
THEOREM StateTypeCorrect == PyStateSpec => []PyStateTypeOK
<1>1. StateInv => PyStateTypeOK
  <2> SUFFICES ASSUME StateInv PROVE PyStateTypeOK
    OBVIOUS
  <2>1. ASSUME NEW c \in Calls, Called(c)
        PROVE  DOMAIN scope[c] = FieldsOfScope(scope[c].type) \cup {"type"}
    <3>1. PICK p \in Protocols : scope[c] = ScopeIntoPy(p, ScopeOf(c, p))
      BY <2>1 DEF StateInv, ScopesInv
    <3> DEFINE d == ScopeIntoPy(p, ScopeOf(c, p))
    <3>2. d.type = p /\ DOMAIN d = FieldsOfScope(p) \cup {"type"}
      BY DictOfScope
    <3> HIDE DEF d
    <3>3. scope[c] = d
      BY <3>1 DEF d
    <3>. QED BY <3>2, <3>3
  <2>. QED BY <2>1 DEF StateInv, UsesInv, ScopesInv, LockInv, SharedInv, PyStateTypeOK
<1>. QED BY <1>1, StateInvariant, PTL

(* A thread that has the GIL never finds the mutex taken: not by another    *)
(* thread, which would need the GIL to let go of it, and not by itself, in  *)
(* a use that the present one is nested in (wrappers.rs:67-68).             *)
THEOREM MutexNeverAwaited ==
    PyStateSpec => [](\A t \in Threads : gil = t /\ At(t, "lock") => mutex = Nobody)
<1>1. StateInv => \A t \in Threads : gil = t /\ At(t, "lock") => mutex = Nobody
  BY DEF StateInv, LockInv, At
<1>. QED BY <1>1, StateInvariant, PTL

(* A method of the state sees what the last writer left, through whichever  *)
(* scope either of them came and on whichever thread.                       *)
THEOREM StateIsShared == PyStateSpec => ReadsLatest
<1>1. ASSUME StateInv, [PyStateNext]_vars, NEW t \in Threads, Len(uses'[t]) < Len(uses[t])
      PROVE  seen' = latest
  <2>1. \A u \in Threads : Len(uses[u]) \in Nat
    BY <1>1, LenProperties DEF StateInv, UsesInv
  <2>2. CASE UNCHANGED uses
    BY <1>1, <2>1, <2>2
  <2>3. ASSUME NEW u \in Threads, CallMethod(u)
        PROVE  seen' = latest
    BY <1>1, <2>3, CallMethodFacts
  <2>4. ASSUME NEW u \in Threads, Lock(u) \/ CloneRef(u)
        PROVE  FALSE
    <3>1. PICK p \in {"clone", "method"} : Goto(u, p) /\ uses[u] # << >>
      BY <2>4 DEF Lock, CloneRef, At
    <3>2. Len(uses'[t]) = Len(uses[t])
      BY <1>1, <3>1, GotoFacts DEF StateInv
    <3>. QED BY <1>1, <2>1, <3>2
  <2>5. ASSUME NEW u \in Threads, NEW m \in Methods, NEW c \in Calls,
               NEW v \in Values \cup {Absent}, Begin(u, m, c, v)
        PROVE  FALSE
    <3>1. PICK use \in PyUses : uses' = [uses EXCEPT ![u] = Append(@, use)]
      BY <2>5 DEF Begin, PyUses
    <3>2. Len(Append(uses[u], use)) = Len(uses[u]) + 1
      BY <1>1, <3>1, AppendProperties DEF StateInv, UsesInv
    <3>3. Len(uses'[t]) >= Len(uses[t])
      BY <1>1, <2>1, <3>1, <3>2 DEF StateInv, UsesInv
    <3>. QED BY <1>1, <2>1, <3>3
  <2>6. CASE \E c \in Calls : \E p \in Protocols : CallApplication(c, p)
    BY <2>2, <2>6 DEF CallApplication
  <2>7. CASE \E u \in Threads : AcquireGil(u) \/ ReleaseGil(u)
    BY <2>2, <2>7 DEF AcquireGil, ReleaseGil
  <2>8. CASE UNCHANGED vars
    BY <2>2, <2>8 DEF vars
  <2>. QED BY <1>1, <2>3, <2>4, <2>5, <2>6, <2>7, <2>8 DEF PyStateNext, Step, Protocols
<1>2. StateInv /\ [PyStateNext]_vars =>
          [\A t \in Threads : Len(uses'[t]) < Len(uses[t]) => seen' = latest]_vars
  BY <1>1
<1>. QED BY <1>2, StateInvariant, PTL DEF PyStateSpec, ReadsLatest
=============================================================================
