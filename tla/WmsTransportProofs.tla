------------------------- MODULE WmsTransportProofs -------------------------
(***************************************************************************)
(* What an open WMS transport is connected to, and what it may still       *)
(* deliver once it closes: for any routes, any number of connections and   *)
(* messages, and whatever the service fails at.                            *)
(*                                                                         *)
(* The invariant follows an open() endpoint by endpoint (Connecting) and   *)
(* an event from its callback to the handler (Events).  Every part but the *)
(* last one of Connections allows for what a close that broke off left     *)
(* behind: an old output may stay, with the callbacks of its connection.   *)
(* Those connections are unrevoked; what their callbacks bring is told     *)
(* apart from what a running callback brings late.                         *)
(***************************************************************************)
EXTENDS WmsTransport, SequenceTheorems, TLAPS

Event == [number : Nat, at : {"entered", "passed"}, of : Nat, late : BOOLEAN]

Typed ==
  /\ opens \in Nat /\ messages \in Nat
  /\ callbacks \subseteq Event
  /\ queue \in Seq(Event) /\ held \in Seq(Event)
  /\ \A l \in listening : l.of \in Nat

(* A call, where it is, and the state the life cycle has meanwhile. *)
Calling ==
  \/ call = NoCall /\ lifecycle \in {"closed", "open", "failed"}
  \/ call.op = "open" /\ call.at \in {"validate", "session", "connect", "drain"} /\ lifecycle = "opening"
  \/ call.op \in {"close", "destroy"} /\ call.at \in {"stop", "drain"} /\ lifecycle = "closing"
  \/ /\ call.op = "destruct" /\ call.at \in {"stop", "drain", "exit", "gone"}
     /\ lifecycle \in {"closed", "failed"}
  \/ call.op = "send" /\ call.at = "send" /\ lifecycle = "open" /\ request.tx # NoRoute

(* A call is a record, so that its place can be moved. *)
IsCall == call = [op |-> call.op, at |-> call.at]

Output == [of |-> opens, endpoint |-> request.tx.endpoint]
Input  == [of |-> opens, route |-> request.rx]

(* All that was asked for is there; and nothing else, but for a leftover. *)
Complete ==
  /\ request.tx # NoRoute => transmit = {Output} /\ group = {request.tx.group}
  /\ ~leftover => /\ listening = IF request.rx # NoRoute THEN {Input} ELSE {}
                  /\ transmit = IF request.tx # NoRoute THEN {Output} ELSE {}

(* How far an open() has come. *)
Connecting ==
  /\ call.op = "open" /\ call.at \in {"session", "connect"} /\ request.tx # NoRoute =>
       group = {request.tx.group}
  /\ call.op = "open" /\ call.at = "connect" =>
       /\ session
       /\ \/ todo = EndpointsOf(request) /\ (~leftover => transmit = {} /\ listening = {})
          \/ /\ request.rx # NoRoute /\ request.tx # NoRoute
             /\ todo = <<request.tx.endpoint>>
             /\ request.tx.endpoint # request.rx.endpoint
             /\ ~leftover => transmit = {} /\ listening = {Input}
          \/ todo = <<>> /\ Complete

Connections ==
  /\ lifecycle \in {"closed", "failed"} => ~session
  /\ call.op = "open" /\ call.at \in {"validate", "session"} => ~session
  /\ ~session => connections = {} /\ (~leftover => transmit = {} /\ listening = {})
  /\ lifecycle = "open" => session /\ accepting /\ Complete
  /\ \A l \in listening : l.of \in unrevoked \/ (session /\ l.of = opens)
  /\ sent # {} => request.tx # NoRoute /\ sent = {Output}

(* What is on its way is of this connection, or of one whose close failed    *)
(* before it had revoked its callback, or may come late.                     *)
Current(e) == e.of = opens \/ e.of \in unrevoked

Events ==
  /\ accepting => lifecycle = "open" \/ (lifecycle = "closing" /\ call.at = "stop")
  /\ \A c \in callbacks : c.late \/ (accepting /\ Current(c))
  /\ \A i \in 1..Len(queue) :
       queue[i].late \/ (lifecycle \in {"open", "closing"} /\ Current(queue[i]))
  /\ \A i \in 1..Len(held) :
       held[i].late \/ (lifecycle \in {"open", "closing"} /\ Current(held[i]))

IInv == Typed /\ IsCall /\ Calling /\ Connecting /\ Connections /\ Events

-----------------------------------------------------------------------------
(* Init, open() and its steps. *)

LEMMA InitIInv == Init => IInv
BY DEF Init, IInv, Typed, IsCall, Calling, Connecting, Connections, Events, NoCall

LEMMA OpenIInv ==
  ASSUME IInv, Open
  PROVE  IInv'
<1> USE DEF nativeVars, gateVars, eventVars
<1>1. call = NoCall /\ lifecycle = "closed"
  BY DEF Open, Idle, BeginOpen, RequireAndSet, IInv, Calling, Refused
<1>2. lifecycle' = "opening" /\ call' = [op |-> "open", at |-> "validate"]
  BY <1>1 DEF Open, BeginOpen, RequireAndSet
<1>3. UNCHANGED <<nativeVars, gateVars, eventVars, leftover, unrevoked>> /\ opens' = opens + 1 /\ sent' = {}
  BY DEF Open
<1>4. ~session /\ ~accepting /\ (~leftover => transmit = {} /\ listening = {})
  BY <1>1 DEF IInv, Connections, Events
<1>5. Typed'
  BY <1>3 DEF IInv, Typed
<1>6. IsCall' /\ Calling' /\ Connecting'
  BY <1>2 DEF IsCall, Calling, Connecting
<1>7. Connections'
  BY <1>2, <1>3, <1>4 DEF IInv, Connections
<1>8. Events'
  BY <1>1, <1>2, <1>3, <1>4 DEF IInv, Events
<1> QED BY <1>5, <1>6, <1>7, <1>8 DEF IInv

LEMMA ValidateIInv ==
  ASSUME IInv, Validate
  PROVE  IInv'
<1> USE DEF requestVars, nativeVars, gateVars, eventVars, history
<1>1. call = [op |-> "open", at |-> "validate"] /\ lifecycle = "opening"
  BY DEF Validate, At, IInv, IsCall, Calling, NoCall
<1>2. \/ /\ call' = [op |-> "open", at |-> "session"] /\ lifecycle' = "opening"
         /\ request.tx # NoRoute => group' = {request.tx.group}
      \/ call' = NoCall /\ lifecycle' = "failed"
  BY <1>1 DEF Validate, OpenFails, Fail
<1>3. UNCHANGED <<requestVars, session, connections, transmit, listening, gateVars, eventVars, history>>
  BY DEF Validate
<1>4. ~accepting /\ ~session
  BY <1>1 DEF IInv, Events, Connections
<1>5. Typed'
  BY <1>3 DEF IInv, Typed
<1>6. IsCall' /\ Calling' /\ Connecting'
  BY <1>2, <1>3 DEF IsCall, Calling, Connecting, NoCall
<1>7. Connections'
  BY <1>2, <1>3, <1>4 DEF IInv, Connections, NoCall, Output
<1>8. Events'
  BY <1>1, <1>2, <1>3, <1>4 DEF IInv, Events, Current
<1> QED BY <1>5, <1>6, <1>7, <1>8 DEF IInv

LEMMA CreateSessionIInv ==
  ASSUME IInv, CreateSession
  PROVE  IInv'
<1> USE DEF nativeVars, gateVars, eventVars, history
<1>1. call = [op |-> "open", at |-> "session"] /\ lifecycle = "opening"
  BY DEF CreateSession, At, IInv, IsCall, Calling, NoCall
<1>2. \/ /\ call' = [op |-> "open", at |-> "connect"]
         /\ session' = TRUE /\ todo' = EndpointsOf(request) /\ accepting' = accepting
      \/ /\ call' = [op |-> "open", at |-> "drain"] /\ session' = session
         /\ todo' = todo /\ accepting' = FALSE
  BY <1>1 DEF CreateSession, Undo
<1>3. UNCHANGED <<lifecycle, request, opens, connections, transmit, group, listening, target,
                  eventVars, history>>
  BY DEF CreateSession
<1>4. ~accepting /\ ~session
  BY <1>1 DEF IInv, Events, Connections
<1>5. Typed'
  BY <1>3 DEF IInv, Typed
<1>6. IsCall' /\ Calling'
  BY <1>1, <1>2, <1>3 DEF IsCall, Calling
<1>7. Connecting'
  <2>1. EndpointsOf(request)' = EndpointsOf(request)
    BY <1>3 DEF EndpointsOf
  <2>2. ~leftover => transmit = {} /\ listening = {}
    BY <1>4 DEF IInv, Connections
  <2>3. request.tx # NoRoute => group = {request.tx.group}
    BY <1>1 DEF IInv, Connecting
  <2> QED BY <1>2, <1>3, <2>1, <2>2, <2>3 DEF Connecting
<1>8. Connections'
  BY <1>1, <1>2, <1>3, <1>4 DEF IInv, Connections, Output
<1>9. Events'
  BY <1>1, <1>2, <1>3, <1>4 DEF IInv, Events, Current
<1> QED BY <1>5, <1>6, <1>7, <1>8, <1>9 DEF IInv

(* An endpoint that is connected brings what is asked of it. *)
LEMMA Connects ==
  ASSUME IInv, call.op = "open", call.at = "connect", todo # <<>>,
         Connected(Head(todo)), todo' = Tail(todo),
         UNCHANGED <<call, request, opens, session, group, leftover>>
  PROVE  Connecting'
<1> DEFINE e == Head(todo)
<1>0. group' = group /\ (request.tx # NoRoute => group = {request.tx.group})
  BY DEF IInv, Connecting
<1>1. session /\ session'
  BY DEF IInv, Connecting
<1>2. UNCHANGED <<Output, Input, EndpointsOf(request)>>
  BY DEF Output, Input, EndpointsOf
<1>3. CASE todo = EndpointsOf(request) /\ request.rx # NoRoute /\ request.tx # NoRoute
           /\ request.tx.endpoint # request.rx.endpoint
  <2>1. todo = <<request.rx.endpoint, request.tx.endpoint>>
    BY <1>3 DEF EndpointsOf
  <2>2. e = request.rx.endpoint /\ Tail(todo) = <<request.tx.endpoint>>
    BY <2>1
  <2>3. ~Transmits(e) /\ Receives(e)
    BY <1>3, <2>2 DEF Transmits, Receives
  <2>4. ~leftover => transmit = {} /\ listening = {}
    <3>1. todo # <<>> /\ todo # <<request.tx.endpoint>>
      BY <2>1
    <3> QED BY <3>1 DEF IInv, Connecting
  <2>5. transmit' = transmit /\ listening' = listening \cup {Input}
    BY <2>3 DEF Connected, Input
  <2>6. ~leftover' => transmit' = {} /\ listening' = {Input}'
    BY <1>2, <2>4, <2>5
  <2> QED BY <1>0, <1>1, <1>3, <2>2, <2>6 DEF Connecting
<1>4. CASE todo = EndpointsOf(request) /\ ~(request.rx # NoRoute /\ request.tx # NoRoute
           /\ request.tx.endpoint # request.rx.endpoint)
  <2>1. /\ Tail(todo) = <<>>
        /\ request.tx # NoRoute => Transmits(e)
        /\ request.tx = NoRoute => ~Transmits(e)
        /\ request.rx # NoRoute => Receives(e)
        /\ request.rx = NoRoute => ~Receives(e)
    BY <1>4 DEF EndpointsOf, Transmits, Receives
  <2>2. ~leftover => transmit = {} /\ listening = {}
    BY <1>4 DEF IInv, Connecting
  <2>3. /\ request.tx # NoRoute => transmit' = {Output}
        /\ request.tx = NoRoute => transmit' = transmit
        /\ ~leftover /\ request.rx # NoRoute => listening' = {Input}
        /\ ~leftover /\ request.rx = NoRoute => listening' = {}
    <3>1. request.tx # NoRoute => e = request.tx.endpoint
      BY <2>1 DEF Transmits
    <3> QED BY <2>1, <2>2, <3>1 DEF Connected, Output, Input
  <2>4. Complete'
    BY <1>0, <1>2, <2>2, <2>3 DEF Complete
  <2> QED BY <1>0, <1>1, <2>1, <2>4 DEF Connecting
<1>5. CASE /\ request.rx # NoRoute /\ request.tx # NoRoute
           /\ todo = <<request.tx.endpoint>>
           /\ request.tx.endpoint # request.rx.endpoint
           /\ ~leftover => transmit = {} /\ listening = {Input}
  <2>1. e = request.tx.endpoint /\ Tail(todo) = <<>>
    BY <1>5
  <2>2. Transmits(e) /\ ~Receives(e)
    BY <1>5, <2>1 DEF Transmits, Receives
  <2>3. transmit' = {Output} /\ listening' = {l \in listening : l.of = opens}
    BY <2>1, <2>2 DEF Connected, Output
  <2>4. ~leftover => listening' = {Input}
    BY <1>5, <2>3 DEF Input
  <2>5. Complete'
    BY <1>0, <1>2, <1>5, <2>3, <2>4 DEF Complete
  <2> QED BY <1>0, <1>1, <2>1, <2>5 DEF Connecting
<1> QED BY <1>3, <1>4, <1>5 DEF IInv, Connecting

LEMMA ConnectIInv ==
  ASSUME IInv, Connect
  PROVE  IInv'
<1> USE DEF gateVars, eventVars, history
<1>1. call = [op |-> "open", at |-> "connect"] /\ lifecycle = "opening" /\ todo # <<>>
  BY DEF Connect, At, IInv, IsCall, Calling, NoCall
<1>2. UNCHANGED <<lifecycle, request, opens, session, group, target, eventVars, history>>
  BY DEF Connect
<1>3. ~accepting /\ session
  BY <1>1 DEF IInv, Events, Connecting
<1>4. CASE Connected(Head(todo)) /\ todo' = Tail(todo) /\ UNCHANGED <<call, accepting>>
  <2>1. Connecting'
    BY <1>1, <1>2, <1>4, Connects
  <2>2. listening' \subseteq listening \cup {Input}
    BY <1>4 DEF Connected, Input
  <2>3. Typed'
    BY <1>2, <2>2 DEF IInv, Typed, Input
  <2>4. IsCall' /\ Calling'
    BY <1>1, <1>2, <1>4 DEF IsCall, Calling
  <2>5. Connections'
    BY <1>1, <1>2, <1>3, <1>4, <2>2 DEF IInv, Connections, Input, Output
  <2>6. Events'
    BY <1>1, <1>2, <1>3, <1>4 DEF IInv, Events, Current
  <2> QED BY <2>1, <2>3, <2>4, <2>5, <2>6 DEF IInv
<1>5. CASE Undo /\ UNCHANGED <<connections, transmit, listening, todo>>
  <2>1. call' = [op |-> "open", at |-> "drain"] /\ ~accepting'
    BY <1>1, <1>5 DEF Undo
  <2>2. IsCall' /\ Calling' /\ Connecting'
    BY <1>1, <1>2, <2>1 DEF IsCall, Calling, Connecting
  <2>3. Typed'
    BY <1>2, <1>5 DEF IInv, Typed
  <2>4. Connections'
    BY <1>1, <1>2, <1>3, <1>5, <2>1 DEF IInv, Connections, Output
  <2>5. Events'
    BY <1>1, <1>2, <1>3, <2>1 DEF IInv, Events, Current
  <2> QED BY <2>2, <2>3, <2>4, <2>5 DEF IInv
<1> QED BY <1>4, <1>5 DEF Connect

LEMMA AcceptIInv ==
  ASSUME IInv, Accept
  PROVE  IInv'
<1> USE DEF requestVars, nativeVars, eventVars, history
<1>1. call = [op |-> "open", at |-> "connect"] /\ lifecycle = "opening" /\ todo = <<>>
  BY DEF Accept, At, IInv, IsCall, Calling, NoCall
<1>2. call' = NoCall /\ lifecycle' = "open" /\ accepting'
  BY <1>1 DEF Accept, CompleteOpen, RequireAndSet
<1>3. UNCHANGED <<runtime, requestVars, nativeVars, target, eventVars, history>>
  BY DEF Accept
<1>4. ~accepting
  BY <1>1 DEF IInv, Events
<1>5. session /\ Complete
  <2>1. EndpointsOf(request) # <<>> /\ <<request.tx.endpoint>> # <<>>
    BY DEF EndpointsOf
  <2> QED BY <1>1, <2>1 DEF IInv, Connecting
<1>6. Typed'
  BY <1>3 DEF IInv, Typed
<1>7. IsCall' /\ Calling' /\ Connecting'
  BY <1>2 DEF IsCall, Calling, Connecting, NoCall
<1>8. Connections'
  BY <1>1, <1>2, <1>3, <1>5 DEF IInv, Connections, Complete, Output, Input, NoCall
<1>9. Events'
  BY <1>1, <1>2, <1>3, <1>4 DEF IInv, Events, Current
<1> QED BY <1>6, <1>7, <1>8, <1>9 DEF IInv

-----------------------------------------------------------------------------
(* close(), and what ends the transport. *)

(* What begins a call on an idle transport without opening it. *)
LEMMA CallIInv ==
  ASSUME IInv, Close \/ Destroy \/ Send
  PROVE  IInv'
<1> USE DEF requestVars, nativeVars, gateVars, eventVars, history
<1>1. call = NoCall /\ lifecycle \in {"closed", "open", "failed"}
  BY DEF Close, Destroy, Send, Idle, IInv, Calling, NoCall
<1>2. UNCHANGED <<requestVars, nativeVars, gateVars, eventVars, history>>
  BY DEF Close, Destroy, Send
<1>3. \/ /\ call' \in [op : {"close", "destroy"}, at : {"stop"}]
         /\ lifecycle # "closed" /\ lifecycle' = "closing"
      \/ /\ call' = [op |-> "destruct", at |-> "stop"]
         /\ lifecycle = "closed" /\ lifecycle' = "closed"
      \/ /\ call' = [op |-> "send", at |-> "send"]
         /\ lifecycle = "open" /\ lifecycle' = "open" /\ request.tx # NoRoute
  BY <1>1 DEF Close, Destroy, Send, BeginClose
<1>4. Typed'
  BY <1>2 DEF IInv, Typed
<1>5. IsCall' /\ Calling' /\ Connecting'
  BY <1>2, <1>3 DEF IsCall, Calling, Connecting
<1>6. Connections'
  BY <1>1, <1>2, <1>3 DEF IInv, Connections, Complete, Output, Input
<1>7. Events'
  BY <1>1, <1>2, <1>3 DEF IInv, Events, Current
<1> QED BY <1>4, <1>5, <1>6, <1>7 DEF IInv

LEMMA StopIInv ==
  ASSUME IInv, Stop
  PROVE  IInv'
<1> USE DEF requestVars, nativeVars, history
<1>1. /\ call.op \in {"close", "destroy", "destruct"} /\ call.at = "stop"
      /\ lifecycle \in {"closing", "closed", "failed"}
      /\ lifecycle = "closing" <=> call.op \in {"close", "destroy"}
  BY DEF Stop, Stopping, At, IInv, Calling, NoCall
<1>2. call' = [op |-> call.op, at |-> "drain"] /\ ~accepting'
  BY DEF Stop, Stopping, IInv, IsCall
<1>3. UNCHANGED <<lifecycle, requestVars, nativeVars, target, messages, queue, held, history>>
  BY DEF Stop, Stopping
<1>4. callbacks' \subseteq Event /\ \A c \in callbacks' : c.late
  BY DEF Stop, Stopping, IInv, Typed, Event
<1>5. Typed'
  BY <1>3, <1>4 DEF IInv, Typed
<1>6. IsCall' /\ Calling' /\ Connecting'
  BY <1>1, <1>2, <1>3 DEF IInv, IsCall, Calling, Connecting
<1>7. Connections'
  BY <1>1, <1>2, <1>3 DEF IInv, Connections, Output
<1>8. Events'
  BY <1>1, <1>2, <1>3, <1>4 DEF IInv, Events, Current
<1> QED BY <1>5, <1>6, <1>7, <1>8 DEF IInv

(* What a close that ends leaves. *)
LEMMA Releases ==
  ASSUME IInv, NEW succeeds \in BOOLEAN, Release(succeeds)
  PROVE  /\ ~session' /\ connections' = {}
         /\ ~leftover' => transmit' = {} /\ listening' = {}
         /\ \A l \in listening' : l.of \in Nat /\ l.of \in unrevoked'
<1> USE DEF nativeVars
<1>1. CASE ~session
  BY <1>1 DEF Release, IInv, Connections, Typed
<1>2. CASE session
  BY <1>2 DEF Release, IInv, Connections, Typed
<1> QED BY <1>1, <1>2

LEMMA DrainEndsIInv ==
  ASSUME IInv, DrainEnds
  PROVE  IInv'
<1> USE DEF requestVars, eventVars
<1>1. call.op \in {"open", "close", "destroy", "destruct"} /\ call.at = "drain"
  BY DEF DrainEnds, At
<1>2. queue = <<>> /\ held = <<>>
  BY DEF DrainEnds, At, Free
<1>3. PICK succeeds \in BOOLEAN :
        /\ Release(succeeds)
        /\ lifecycle' = CASE call.op = "open"     -> Fail
                          [] call.op = "destruct" -> lifecycle
                          [] OTHER -> IF succeeds THEN CompleteClose(lifecycle) ELSE Fail
  BY DEF DrainEnds
<1>4. /\ ~session' /\ connections' = {}
      /\ ~leftover' => transmit' = {} /\ listening' = {}
      /\ \A l \in listening' : l.of \in Nat /\ l.of \in unrevoked'
  BY <1>3, Releases
<1>5. lifecycle' \in {"closed", "failed"}
  BY <1>1, <1>3 DEF Fail, CompleteClose, RequireAndSet, IInv, Calling, NoCall
<1>6. \/ call' = NoCall
      \/ call' \in [op : {"destruct"}, at : {"stop", "exit"}]
  BY <1>1 DEF DrainEnds
<1>7. UNCHANGED <<requestVars, accepting, eventVars, sent>>
  BY DEF DrainEnds
<1>8. ~accepting /\ \A c \in callbacks : c.late
  BY <1>1 DEF IInv, Events, Calling, NoCall
<1>9. Typed'
  BY <1>4, <1>7 DEF IInv, Typed
<1>10. IsCall' /\ Calling' /\ Connecting'
  BY <1>5, <1>6 DEF IsCall, Calling, Connecting, NoCall
<1>11. Connections'
  BY <1>4, <1>5, <1>6, <1>7 DEF IInv, Connections, NoCall, Output
<1>12. Events'
  BY <1>2, <1>7, <1>8 DEF IInv, Events
<1> QED BY <1>9, <1>10, <1>11, <1>12 DEF IInv

LEMMA ExitIInv ==
  ASSUME IInv, Exit
  PROVE  IInv'
<1> USE DEF requestVars, gateVars, eventVars, history
<1>1. call.op = "destruct" /\ call.at = "exit" /\ lifecycle \in {"closed", "failed"}
  BY DEF Exit, At, IInv, Calling, NoCall
<1>2. /\ call' = [op |-> "destruct", at |-> "gone"] /\ transmit' = {} /\ listening' = {}
      /\ UNCHANGED <<lifecycle, requestVars, session, connections, group, gateVars, eventVars, history>>
  BY DEF Exit
<1>3. Typed' /\ IsCall' /\ Calling' /\ Connecting'
  BY <1>1, <1>2 DEF IInv, Typed, IsCall, Calling, Connecting
<1>4. Connections'
  BY <1>1, <1>2 DEF IInv, Connections, Output
<1>5. Events'
  BY <1>1, <1>2 DEF IInv, Events, Current
<1> QED BY <1>3, <1>4, <1>5 DEF IInv

LEMMA SendMessageIInv ==
  ASSUME IInv, SendMessage
  PROVE  IInv'
<1> USE DEF requestVars, nativeVars, gateVars, eventVars
<1>1. call.op = "send" /\ lifecycle = "open" /\ request.tx # NoRoute
  BY DEF SendMessage, At, IInv, Calling, NoCall
<1>2. /\ call' = NoCall /\ sent' \in {sent, sent \cup transmit}
      /\ UNCHANGED <<lifecycle, requestVars, nativeVars, gateVars, eventVars, leftover, unrevoked>>
  BY DEF SendMessage
<1>3. transmit = {Output} /\ session /\ accepting
  BY <1>1 DEF IInv, Connections, Complete
<1>4. Typed' /\ IsCall' /\ Calling' /\ Connecting'
  BY <1>1, <1>2 DEF IInv, Typed, IsCall, Calling, Connecting, NoCall
<1>5. Connections'
  <2>1. UNCHANGED <<Output, Input>>
    BY <1>2 DEF Output, Input
  <2>2. sent' # {} => sent' = {Output}
    BY <1>2, <1>3 DEF IInv, Connections
  <2> QED BY <1>1, <1>2, <2>1, <2>2 DEF IInv, Connections, Complete, NoCall
<1>6. Events'
  BY <1>1, <1>2 DEF IInv, Events, Current
<1> QED BY <1>4, <1>5, <1>6 DEF IInv

-----------------------------------------------------------------------------
(* The callbacks, and the worker's deliveries. *)

(* What moves an event leaves calls and connections as they are. *)
LEMMA Moves ==
  ASSUME IInv, UNCHANGED <<callVars, requestVars, nativeVars, gateVars, history>>
  PROVE  /\ IsCall' /\ Calling' /\ Connecting' /\ Connections'
         /\ \A l \in listening' : l.of \in Nat
         /\ opens' \in Nat
<1> USE DEF callVars, requestVars, nativeVars, gateVars, history
<1>1. UNCHANGED <<Output, Input, EndpointsOf(request), Complete>>
  BY DEF Output, Input, EndpointsOf, Complete
<1>2. IsCall' /\ Calling'
  BY DEF IInv, IsCall, Calling
<1>3. Connecting'
  BY <1>1 DEF IInv, Connecting
<1>4. Connections'
  BY <1>1 DEF IInv, Connections
<1> QED BY <1>2, <1>3, <1>4 DEF IInv, Typed

LEMMA EventIInv ==
  ASSUME IInv, Enter \/ (\E c \in callbacks : PassGate(c) \/ Enqueue(c) \/ CallbackThrows(c)) \/ Take \/ Deliver
  PROVE  IInv'
<1> USE DEF callVars, requestVars, nativeVars, gateVars, history
<1>1. UNCHANGED <<callVars, requestVars, nativeVars, gateVars, history>>
  BY DEF Enter, PassGate, Enqueue, CallbackThrows, Take, Deliver
<1>2. /\ IsCall' /\ Calling' /\ Connecting' /\ Connections'
      /\ \A l \in listening' : l.of \in Nat
      /\ opens' \in Nat
  BY <1>1, Moves
<1>3. CASE Enter
  <2>1. /\ messages' = messages + 1 /\ UNCHANGED <<queue, held>>
    BY <1>3 DEF Enter
  <2>2. PICK l \in listening : callbacks' = callbacks \cup
         (IF accepting THEN {[number |-> messages', at |-> "entered", of |-> l.of, late |-> FALSE]}
          ELSE {})
    BY <1>3 DEF Enter
  <2>3. l.of \in Nat /\ (l.of = opens \/ l.of \in unrevoked)
    BY DEF IInv, Typed, Connections
  <2>4. Typed'
    <3>1. messages' \in Nat
      BY <2>1 DEF IInv, Typed
    <3>2. [number |-> messages', at |-> "entered", of |-> l.of, late |-> FALSE] \in Event
      BY <2>3, <3>1 DEF Event
    <3> QED BY <1>2, <2>1, <2>2, <3>1, <3>2 DEF IInv, Typed
  <2>5. Events'
    BY <1>1, <2>1, <2>2, <2>3 DEF IInv, Events, Current
  <2> QED BY <1>2, <2>4, <2>5 DEF IInv
<1>4. ASSUME NEW c \in callbacks, PassGate(c)
      PROVE  IInv'
  <2>1. UNCHANGED <<messages, queue, held>>
    BY <1>4 DEF PassGate
  <2>2. callbacks' \subseteq Event /\ \A d \in callbacks' : d.late \/ (accepting /\ Current(d))
    BY <1>4 DEF PassGate, IInv, Typed, Event, Events, Current
  <2> QED BY <1>1, <1>2, <2>1, <2>2 DEF IInv, Typed, Events, Current
<1>5. ASSUME NEW c \in callbacks, Enqueue(c)
      PROVE  IInv'
  <2>1. UNCHANGED <<messages, held>> /\ callbacks' \subseteq callbacks /\ queue' = Append(queue, c)
    BY <1>5 DEF Enqueue
  <2>2. c \in Event /\ queue \in Seq(Event)
    BY DEF IInv, Typed
  <2>3. c.late \/ (lifecycle \in {"open", "closing"} /\ Current(c))
    BY DEF IInv, Events
  <2>4. Typed'
    BY <1>2, <2>1, <2>2 DEF IInv, Typed
  <2>5. \A i \in 1..Len(queue') :
          queue'[i].late \/ (lifecycle \in {"open", "closing"} /\ Current(queue'[i]))
    BY <2>1, <2>2, <2>3 DEF IInv, Events
  <2>6. Events'
    BY <1>1, <2>1, <2>5 DEF IInv, Events, Current
  <2> QED BY <1>2, <2>4, <2>6 DEF IInv
<1>6. ASSUME NEW c \in callbacks, CallbackThrows(c)
      PROVE  IInv'
  <2>1. UNCHANGED <<messages, queue, held>> /\ callbacks' \subseteq callbacks
    BY <1>6 DEF CallbackThrows
  <2> QED BY <1>1, <1>2, <2>1 DEF IInv, Typed, Events, Current
<1>7. CASE Take
  <2>1. /\ queue # <<>> /\ held' = <<Head(queue)>> /\ queue' = Tail(queue)
        /\ UNCHANGED <<messages, callbacks>>
    BY <1>7 DEF Take
  <2>2. queue \in Seq(Event)
    BY DEF IInv, Typed
  <2>3. Typed'
    BY <1>2, <2>1, <2>2 DEF IInv, Typed
  <2>4. /\ \A i \in 1..Len(queue') : i + 1 \in 1..Len(queue) /\ queue'[i] = queue[i + 1]
        /\ \A i \in 1..Len(held') : held'[i] = queue[1] /\ 1 \in 1..Len(queue)
    BY <2>1, <2>2
  <2>5. Events'
    BY <1>1, <2>1, <2>4 DEF IInv, Events, Current
  <2> QED BY <1>2, <2>3, <2>5 DEF IInv
<1>8. CASE Deliver
  <2>1. held' = <<>> /\ UNCHANGED <<messages, callbacks, queue>>
    BY <1>8 DEF Deliver
  <2> QED BY <1>1, <1>2, <2>1 DEF IInv, Typed, Events, Current
<1> QED BY <1>3, <1>4, <1>5, <1>6, <1>7, <1>8

-----------------------------------------------------------------------------
(* The invariant, and what it is for. *)

LEMMA NextIInv == IInv /\ [Next]_vars => IInv'
<1> SUFFICES ASSUME IInv, [Next]_vars PROVE IInv'
  OBVIOUS
<1>1. CASE Next
  BY <1>1, OpenIInv, ValidateIInv, CreateSessionIInv, ConnectIInv, AcceptIInv, CallIInv,
     StopIInv, DrainEndsIInv, ExitIInv, SendMessageIInv, EventIInv
  DEF Next, Worker
<1>2. CASE UNCHANGED vars
  <2>1. UNCHANGED <<callVars, requestVars, nativeVars, gateVars, history, eventVars>>
    BY <1>2 DEF vars
  <2>2. /\ IsCall' /\ Calling' /\ Connecting' /\ Connections'
        /\ \A l \in listening' : l.of \in Nat
        /\ opens' \in Nat
    BY <2>1, Moves
  <2> QED BY <2>1, <2>2
          DEF IInv, Typed, Events, Current, callVars, requestVars, gateVars, eventVars, history
<1> QED BY <1>1, <1>2

(* Whatever fails, an open() connects what it has gone past, a close ends    *)
(* with no session, and an event is of this connection or may be late.       *)
THEOREM Inductive == Spec => []IInv
<1> QED BY InitIInv, NextIInv, PTL DEF Spec

(* An open transport is connected to the routes it was asked for and only to *)
(* them, a closed or failed one to nothing, and what was sent went where it  *)
(* should (open_on_worker(), close_on_worker(), send_on_worker()).           *)
THEOREM ConnectedAsAsked == Spec => []ConnectedAsRequested
<1>1. IInv => ConnectedAsRequested
  BY DEF IInv, Connections, Complete, ConnectedAsRequested, Output, Input
<1> QED BY <1>1, Inductive, PTL

(* "no callbacks after close": for any number of connections, callbacks and  *)
(* failures, what is delivered then came by a callback that ran when a close *)
(* began (the gate of open_on_worker(), Stop of close_on_worker()), or, to a *)
(* later connection, by one that a close which failed had not yet revoked.   *)
THEOREM NothingLate == Spec => NothingAfterClose
<1> DEFINE Delivers ==
      held # <<>> /\ held' = <<>> =>
        \/ Head(held).of = opens /\ lifecycle \in {"open", "closing"}
        \/ Head(held).late
        \/ Head(held).of \in unrevoked /\ lifecycle \in {"open", "closing"}
<1>1. IInv => Delivers
  <2> SUFFICES ASSUME IInv, held # <<>>
               PROVE  \/ Head(held).of = opens /\ lifecycle \in {"open", "closing"}
                      \/ Head(held).late
                      \/ Head(held).of \in unrevoked /\ lifecycle \in {"open", "closing"}
    OBVIOUS
  <2>1. Head(held) = held[1] /\ 1 \in 1..Len(held)
    BY DEF IInv, Typed
  <2> QED BY <2>1 DEF IInv, Events, Current
<1>2. IInv /\ [Next]_vars => [Delivers]_vars
  BY <1>1
<1> QED BY <1>2, Inductive, PTL DEF Spec, NothingAfterClose

=============================================================================
