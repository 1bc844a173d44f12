---------------------------- MODULE WmsTransport ----------------------------
(***************************************************************************)
(* WmsTransport (WmsTransport.cpp) from its construction to its end: its   *)
(* owner opens, closes and destroys it and a transfer sends through it,    *)
(* each call executed by the transport's worker thread, while the service  *)
(* runs the callback of every connection that listens.  Each call into the *)
(* service may fail.  WmsReceive has the queue's overflow and the captures *)
(* behind it; here an event is only the route it came from, and the        *)
(* connection.                                                             *)
(*                                                                         *)
(* A connection object lives while something refers to it: connections,    *)
(* or transmit_connection.  A callback that runs when its connection goes  *)
(* runs on; the service does not wait for it.                              *)
(*                                                                         *)
(* UndoNothing and StayOpen are plausible mistakes the properties are      *)
(* tested against.                                                         *)
(***************************************************************************)
EXTENDS TransportLifecycle, Naturals, Sequences

CONSTANTS
  NoRoute,
  Requests,      \* [rx, tx], each a route [endpoint, group] or NoRoute
  MaxOpens,      \* bound: connections
  MaxMessages    \* bound: what the endpoints send

ASSUME RequestsAssumption ==
  /\ MaxOpens \in Nat /\ MaxMessages \in Nat
  /\ \A q \in Requests : q.rx # NoRoute \/ q.tx # NoRoute

VARIABLES
  runtime,       \* the service could be reached at construction
  lifecycle,     \* lifecycle_
  call,          \* the call in progress: [op, at], or none
  request,       \* the routes of the last open()
  opens,         \* which connection that is, from 1
  todo,          \* the endpoints it has yet to connect
  session,       \* there is a session
  connections,   \* its endpoint connections: [endpoint, token]
  transmit,      \* transmit_connection, [of, endpoint], if any
  group,         \* transmit_group, if any
  listening,     \* callbacks that are registered: [of, route]
  accepting,     \* callback_gate->accepting
  target,        \* callback_gate->target is there
  messages,      \* how many messages endpoints sent
  callbacks,     \* those that run: [number, at, of, late]
  queue,         \* received_messages
  held,          \* the event the worker took and has not delivered, if any
  sent,          \* where messages of this connection went (history)
  leftover,      \* a close broke off before it let the output go (history)
  unrevoked      \* the connections whose callback a failed close left registered (history)

callVars    == <<lifecycle, call>>
requestVars == <<request, opens, todo>>
nativeVars  == <<session, connections, transmit, group, listening>>
gateVars    == <<accepting, target>>
eventVars   == <<messages, callbacks, queue, held>>
history     == <<sent, leftover, unrevoked>>
vars == <<runtime, callVars, requestVars, nativeVars, gateVars, eventVars, history>>

NoCall  == [op |-> "none", at |-> "none"]

Init ==
  /\ runtime \in BOOLEAN
  /\ lifecycle = "closed" /\ call = NoCall
  /\ request = [rx |-> NoRoute, tx |-> NoRoute] /\ opens = 0 /\ todo = <<>>
  /\ session = FALSE /\ connections = {} /\ transmit = {} /\ group = {}
  /\ listening = {} /\ accepting = FALSE /\ target = TRUE
  /\ messages = 0 /\ callbacks = {} /\ queue = <<>> /\ held = <<>>
  /\ sent = {} /\ leftover = FALSE /\ unrevoked = {}

Idle == call = NoCall
Free == held = <<>>

(* The worker executes this step of this call, between two events.           *)
At(ops, at) == call.op \in ops /\ call.at = at /\ Free

-----------------------------------------------------------------------------
(* open() *)

Open ==
  /\ Idle
  /\ opens < MaxOpens
  /\ BeginOpen(lifecycle) # Refused
  /\ lifecycle' = BeginOpen(lifecycle)
  /\ request' \in Requests
  /\ opens' = opens + 1 /\ todo' = <<>>
  /\ call' = [op |-> "open", at |-> "validate"]
  /\ sent' = {}
  /\ UNCHANGED <<runtime, nativeVars, gateVars, eventVars, leftover, unrevoked>>

OpenFails == call' = NoCall /\ lifecycle' = Fail

EndpointsOf(q) ==
  IF q.rx = NoRoute THEN <<q.tx.endpoint>>
  ELSE IF q.tx = NoRoute \/ q.tx.endpoint = q.rx.endpoint THEN <<q.rx.endpoint>>
  ELSE <<q.rx.endpoint, q.tx.endpoint>>

(* Every route must be one of those enumerated; or the service, or a route,  *)
(* is not there.                                                             *)
Validate ==
  /\ At({"open"}, "validate")
  /\ \/ /\ runtime
        /\ group' = IF request.tx # NoRoute THEN {request.tx.group} ELSE group
        /\ call' = [call EXCEPT !.at = "session"]
        /\ UNCHANGED lifecycle
     \/ /\ OpenFails
        /\ UNCHANGED group
  /\ UNCHANGED <<runtime, requestVars, session, connections, transmit, listening,
                 gateVars, eventVars, history>>

(* A step of open_on_worker() that fails has all undone by close_on_worker(). *)
Undo ==
  /\ accepting' = FALSE
  /\ call' = [call EXCEPT !.at = "drain"]

CreateSession ==
  /\ At({"open"}, "session")
  /\ \/ /\ session' = TRUE
        /\ todo' = EndpointsOf(request)
        /\ call' = [call EXCEPT !.at = "connect"]
        /\ UNCHANGED accepting
     \/ Undo /\ UNCHANGED <<session, todo>>
  /\ UNCHANGED <<runtime, lifecycle, request, opens, connections, transmit, group, listening,
                 target, eventVars, history>>

Receives(endpoint)  == request.rx # NoRoute /\ request.rx.endpoint = endpoint
Transmits(endpoint) == request.tx # NoRoute /\ request.tx.endpoint = endpoint

Connected(endpoint) ==
  /\ connections' = connections \cup {[endpoint |-> endpoint, token |-> Receives(endpoint)]}
  /\ IF Transmits(endpoint)
     THEN transmit' = {[of |-> opens, endpoint |-> endpoint]} ELSE UNCHANGED transmit
  /\ listening' =
       {l \in listening : l.of = opens \/ ~Transmits(endpoint)} \cup
       (IF Receives(endpoint) THEN {[of |-> opens, route |-> request.rx]} ELSE {})

UndoNothing ==
  /\ At({"open"}, "connect")
  /\ todo # <<>>
  /\ \/ Connected(Head(todo)) /\ todo' = Tail(todo) /\ UNCHANGED <<callVars, accepting>>
     \/ OpenFails /\ UNCHANGED <<connections, transmit, listening, todo, accepting>>
  /\ UNCHANGED <<runtime, request, opens, session, group, target, eventVars, history>>

(* The next endpoint; one that does not open is let go with its callback.    *)
Connect ==
  /\ At({"open"}, "connect")
  /\ todo # <<>>
  /\ \/ Connected(Head(todo)) /\ todo' = Tail(todo) /\ UNCHANGED <<call, accepting>>
     \/ Undo /\ UNCHANGED <<connections, transmit, listening, todo>>
  /\ UNCHANGED <<runtime, lifecycle, request, opens, session, group, target, eventVars, history>>

Accept ==
  /\ At({"open"}, "connect")
  /\ todo = <<>>
  /\ accepting' = TRUE
  /\ lifecycle' = CompleteOpen(lifecycle)
  /\ call' = NoCall
  /\ UNCHANGED <<runtime, requestVars, nativeVars, target, eventVars, history>>

-----------------------------------------------------------------------------
(* close(), and what ends the transport. *)

(* close_on_worker() stops acceptance before it looks at the queue.  What    *)
(* is of a callback that runs then may come late.                            *)
Close ==
  /\ Idle
  /\ lifecycle # "closed"
  /\ lifecycle' = BeginClose(lifecycle)
  /\ call' = [op |-> "close", at |-> "stop"]
  /\ UNCHANGED <<runtime, requestVars, nativeVars, gateVars, eventVars, history>>

Stopping(accepts) ==
  /\ At({"close", "destroy", "destruct"}, "stop")
  /\ accepting' = accepts
  /\ callbacks' = {[c EXCEPT !.late = TRUE] : c \in callbacks}
  /\ call' = [call EXCEPT !.at = "drain"]
  /\ UNCHANGED <<runtime, lifecycle, requestVars, nativeVars, target, messages, queue, held, history>>

StayOpen == Stopping(accepting)
Stop     == Stopping(FALSE)

(* The session is revoked, disconnected and closed, or the service fails at  *)
(* one of these; what is let go then is destroyed.                           *)
Release(succeeds) ==
  IF ~session THEN succeeds /\ UNCHANGED <<nativeVars, leftover, unrevoked>>
  ELSE /\ session' = FALSE /\ connections' = {}
       /\ \/ /\ transmit' = {} /\ group' = {} /\ listening' = {}
             /\ leftover' = FALSE /\ unrevoked' = {}
          \/ /\ ~succeeds
             /\ \E c \in connections : c.token
             /\ listening' = {l \in listening :
                  [of |-> l.of, endpoint |-> l.route.endpoint] \in transmit}
             /\ leftover' = (transmit # {})
             /\ unrevoked' = {l.of : l \in listening'}
             /\ UNCHANGED <<transmit, group>>

(* The queue was seen empty: the rest of close_on_worker(), and whoever      *)
(* called it goes on.                                                        *)
DrainEnds ==
  /\ At({"open", "close", "destroy", "destruct"}, "drain")
  /\ queue = <<>>
  /\ \E succeeds \in BOOLEAN :
       /\ Release(succeeds)
       /\ lifecycle' = CASE call.op = "open"     -> Fail
                         [] call.op = "destruct" -> lifecycle
                         [] OTHER -> IF succeeds THEN CompleteClose(lifecycle) ELSE Fail
  /\ call' = CASE call.op = "destroy"  -> [op |-> "destruct", at |-> "stop"]
               [] call.op = "destruct" -> [op |-> "destruct", at |-> "exit"]
               [] OTHER                -> NoCall
  /\ target' = (target /\ call.op # "destruct")
  /\ UNCHANGED <<runtime, requestVars, accepting, eventVars, sent>>

(* ~WmsTransport() closes, ~Impl() closes once more and ends the worker,     *)
(* which first delivers what is queued.                                      *)
Destroy ==
  /\ Idle
  /\ lifecycle' = BeginClose(lifecycle)
  /\ call' = [op |-> IF lifecycle = "closed" THEN "destruct" ELSE "destroy", at |-> "stop"]
  /\ UNCHANGED <<runtime, requestVars, nativeVars, gateVars, eventVars, history>>

Exit ==
  /\ At({"destruct"}, "exit")
  /\ queue = <<>>
  /\ call' = [op |-> "destruct", at |-> "gone"]
  /\ transmit' = {} /\ listening' = {}
  /\ UNCHANGED <<runtime, lifecycle, requestVars, session, connections, group, gateVars,
                 eventVars, history>>

-----------------------------------------------------------------------------
(* send(), of a transfer, which is started only on an open connection with a *)
(* TX route and joined before that is closed.                                *)

Send ==
  /\ Idle
  /\ lifecycle = "open"
  /\ request.tx # NoRoute
  /\ call' = [op |-> "send", at |-> "send"]
  /\ UNCHANGED <<runtime, lifecycle, requestVars, nativeVars, gateVars, eventVars, history>>

(* The message is of the request's group; the service may refuse it.         *)
SendMessage ==
  /\ At({"send"}, "send")
  /\ call' = NoCall
  /\ \/ /\ transmit # {} /\ group = {request.tx.group}
        /\ sent' = sent \cup transmit
     \/ UNCHANGED sent
  /\ UNCHANGED <<runtime, lifecycle, requestVars, nativeVars, gateVars, eventVars, leftover,
                 unrevoked>>

-----------------------------------------------------------------------------
(* The callbacks, as in WmsReceive, and the worker's deliveries. *)

Enter ==
  /\ messages < MaxMessages
  /\ messages' = messages + 1
  /\ \E l \in listening :
       callbacks' = callbacks \cup
         (IF accepting THEN {[number |-> messages', at |-> "entered", of |-> l.of, late |-> FALSE]}
          ELSE {})
  /\ UNCHANGED <<runtime, callVars, requestVars, nativeVars, gateVars, queue, held, history>>

PassGate(c) ==
  /\ c.at = "entered"
  /\ callbacks' = (callbacks \ {c}) \cup
       (IF accepting /\ target THEN {[c EXCEPT !.at = "passed"]} ELSE {})
  /\ UNCHANGED <<runtime, callVars, requestVars, nativeVars, gateVars, messages, queue, held,
                 history>>

Enqueue(c) ==
  /\ c.at = "passed"
  /\ callbacks' = callbacks \ {c}
  /\ queue' = Append(queue, c)
  /\ UNCHANGED <<runtime, callVars, requestVars, nativeVars, gateVars, messages, held, history>>

(* What it does may throw at any point; it ends without its message.         *)
CallbackThrows(c) ==
  /\ callbacks' = callbacks \ {c}
  /\ UNCHANGED <<runtime, callVars, requestVars, nativeVars, gateVars, messages, queue, held,
                 history>>

(* Between two calls, in a drain, or before the worker ends.                 *)
Take ==
  /\ Free
  /\ Idle \/ call.at \in {"drain", "exit"}
  /\ queue # <<>>
  /\ held' = <<Head(queue)>>
  /\ queue' = Tail(queue)
  /\ UNCHANGED <<runtime, callVars, requestVars, nativeVars, gateVars, messages, callbacks, history>>

Deliver ==
  /\ ~Free
  /\ held' = <<>>
  /\ UNCHANGED <<runtime, callVars, requestVars, nativeVars, gateVars, messages, callbacks, queue,
                 history>>

Worker ==
  \/ Validate \/ CreateSession \/ Connect \/ Accept
  \/ Stop \/ DrainEnds \/ Exit
  \/ SendMessage
  \/ Take \/ Deliver

Next ==
  \/ Open \/ Close \/ Destroy \/ Send
  \/ Worker
  \/ Enter
  \/ \E c \in callbacks : PassGate(c) \/ Enqueue(c) \/ CallbackThrows(c)

Spec == Init /\ [][Next]_vars

-----------------------------------------------------------------------------
(* Properties. *)

(* An open transport is connected to the routes it was asked for, and only   *)
(* to them, a closed or failed one to nothing, whatever failed on the way;   *)
(* and a message that went out went to the route asked for                   *)
(* (open_on_worker(), close_on_worker()).  A close that breaks off at a      *)
(* callback's revocation leaves transmit_connection behind: then only the    *)
(* last part holds.                                                          *)
ConnectedAsRequested ==
  LET sends    == request.tx # NoRoute
      receives == request.rx # NoRoute
      output   == {[of |-> opens, endpoint |-> request.tx.endpoint]} IN
  /\ ~leftover /\ lifecycle = "open" =>
       /\ session /\ accepting
       /\ listening = IF receives THEN {[of |-> opens, route |-> request.rx]} ELSE {}
       /\ transmit = IF sends THEN output ELSE {}
       /\ sends => group = {request.tx.group}
  /\ ~leftover /\ lifecycle \in {"closed", "failed"} =>
       ~session /\ connections = {} /\ transmit = {} /\ listening = {}
  /\ sent # {} => sends /\ sent = output

(* "no callbacks after close" (STAGE_3_BRIEF): the handler is given nothing  *)
(* of a connection that was closed, nor of one before it; but for what came  *)
(* by a callback that ran when a close began (MessageReceived(), :447), and  *)
(* what a connection sends whose close broke off before it had revoked its   *)
(* callback (:496) and failed: the next connection is given that, too.       *)
NothingAfterClose ==
  [][held # <<>> /\ held' = <<>> =>
       \/ Head(held).of = opens /\ lifecycle \in {"open", "closing"}
       \/ Head(held).late
       \/ Head(held).of \in unrevoked /\ lifecycle \in {"open", "closing"}]_vars

=============================================================================
