----------------------------- MODULE WmsReceive -----------------------------
(***************************************************************************)
(* The receive path of an open WmsTransport                                *)
(* (src/src/transports/wms/WmsTransport.cpp), from the native callback to  *)
(* the capture, and its close().  The service's thread runs the callback;  *)
(* the transport's worker thread delivers events and executes close().     *)
(*                                                                         *)
(* A callback reads `accepting` on entry and again under the gate's mutex, *)
(* and only then takes queue_mutex, so it is three steps; close() stores   *)
(* `accepting` without either mutex and may fall between them.  The stream *)
(* handler is the capture itself: the application queue in between is the  *)
(* subject of StreamQueue.  Opening, sending and the native session are    *)
(* not modelled here.                                                      *)
(*                                                                         *)
(* Whatever a callback throws (fetching the message, an allocation) ends   *)
(* in its catch (...), which counts the message and no more.  That counter *)
(* (dropped_messages) is left out: no step depends on it.                  *)
(***************************************************************************)
EXTENDS SysExCapture, FiniteSets

CONSTANTS
  ReceiveCapacity,   \* receive_capacity, 1024 in the code
  Selected,          \* the group of the receive route
  EndpointScripts    \* what the endpoint may send

(* The native callback is given one UMP message at a time.                   *)
Messages == {e \in Events : e.type = "ump" /\ e.backend = "wms" /\ Len(e.data) = 1}

ASSUME ReceiveCapacityAssumption == ReceiveCapacity \in Nat \ {0}
ASSUME SelectedAssumption        == Selected \in Groups
ASSUME EndpointScriptsAssumption == EndpointScripts \subseteq Seq(Messages)

VARIABLES
  arriving,      \* what this endpoint sends
  arrived,       \* how many of its messages reached the callback
  callback,      \* the callback that runs: [at, event], or none
  accepting,     \* callback_gate->accepting
  received,      \* received_messages
  marked,        \* queued_group_overflow_markers
  number,        \* next_stream_sequence, from 1
  state,         \* where close() is: "open", "closing", "closed"
  cut,           \* `number` when close() stopped accepting (history)
  inHand,        \* the event the worker took and has not delivered, if any
  delivered,     \* what the stream handler was given, in order (history)
  capture,       \* the capture behind the stream handler
  torn,          \* the numbers drawn for what was then not queued (history)
  unmarked       \* the messages lost with no marker to stand for them (history)

callbackVars == <<arriving, arrived, callback>>
queueVars    == <<received, marked, number, torn, unmarked>>
closeVars    == <<accepting, state, cut>>
deliveryVars == <<inHand, delivered, capture>>
wmsVars == <<callbackVars, queueVars, closeVars, deliveryVars>>

NoCallback == [at |-> "out"]

WmsInit ==
  /\ arriving \in EndpointScripts
  /\ arrived = 0
  /\ callback = NoCallback
  /\ accepting = TRUE
  /\ received = <<>>
  /\ marked = {}
  /\ number = 1
  /\ state = "open"
  /\ cut = 0
  /\ inHand = <<>>
  /\ delivered = <<>>
  /\ capture = BeginReceive(NewSession)
  /\ torn = {}
  /\ unmarked = {}

-----------------------------------------------------------------------------
(* The native callback. *)

LaneOf(event) == Head(event.data).lane

(* Message types 1 to 5 carry a group and must match the route; the others   *)
(* pass, and bits 24 to 27 of their first word are read as a group below.    *)
OnRoute(event) == Head(event.data).kind = "other" \/ LaneOf(event) = Selected

(* The callback is entered; turned away once close() has begun.  It is       *)
(* revoked at the end of close().                                            *)
Enter ==
  /\ callback = NoCallback
  /\ arrived < Len(arriving)
  /\ state # "closed"
  /\ arrived' = arrived + 1
  /\ callback' = IF accepting /\ OnRoute(arriving[arrived + 1])
                 THEN [at |-> "entered", event |-> Numbered(arriving[arrived + 1], arrived + 1)]
                 ELSE NoCallback
  /\ UNCHANGED <<arriving, queueVars, closeVars, deliveryVars>>

(* The second look at `accepting`, under the gate's mutex. *)
PassGate ==
  /\ callback.at = "entered"
  /\ callback' = IF accepting THEN [callback EXCEPT !.at = "passed"] ELSE NoCallback
  /\ UNCHANGED <<arriving, arrived, queueVars, closeVars, deliveryVars>>

(* The message cannot be fetched or copied: catch (...) swallows it.         *)
CallbackThrows ==
  /\ callback.at = "entered"
  /\ callback' = NoCallback
  /\ unmarked' = unmarked \cup {callback.event.seq}
  /\ UNCHANGED <<arriving, arrived, received, marked, number, torn, closeVars, deliveryVars>>

(* Stream sequence numbers are the order of the queue; a native message also *)
(* keeps its place in what is sent, so that captures can be compared with it. *)
Entry(event) == [number |-> number, event |-> event]

OverflowMarker(lane) == Entry(Loss("wms", lane, TRUE))

Full == Len(received) >= ReceiveCapacity

IsDataOf(lane, item) == item.event.type = "ump" /\ LaneOf(item.event) = lane

(* A marker of this lane is queued, and no message of the lane behind it.    *)
MarkedStill(lane) ==
  \E i \in DOMAIN received :
    /\ received[i].event.type = "loss" /\ received[i].event.group = lane
    /\ \A j \in DOMAIN received : j > i => ~IsDataOf(lane, received[j])

DropSilently(lane) == UNCHANGED <<received, marked, number, unmarked>>

(* A drop is marked unless queued_group_overflow_markers has its group; that *)
(* marker may be queued before later data by now, or never have been queued. *)
Drop(lane) ==
  IF lane \in marked
  THEN /\ unmarked' = IF MarkedStill(lane) THEN unmarked
                      ELSE unmarked \cup {callback.event.seq}
       /\ UNCHANGED <<received, marked, number>>
  ELSE /\ received' = Append(received, OverflowMarker(lane))
       /\ marked' = marked \cup {lane}
       /\ number' = number + 1
       /\ UNCHANGED unmarked

(* enqueue_received() *)
EnqueueReceived ==
  /\ callback.at = "passed"
  /\ callback' = NoCallback
  /\ IF Full
     THEN Drop(LaneOf(callback.event))
     ELSE /\ received' = Append(received, Entry(callback.event))
          /\ number' = number + 1
          /\ UNCHANGED <<marked, unmarked>>
  /\ UNCHANGED <<arriving, arrived, torn, closeVars, deliveryVars>>

(* What is to be queued cannot be allocated.  Its number is drawn by then,   *)
(* and for a marker its group's bit is set: no marker of that group will be  *)
(* queued any more, as none will leave the queue and reset it.               *)
EnqueueThrows ==
  LET lane == LaneOf(callback.event) IN
  /\ callback.at = "passed"
  /\ Full => lane \notin marked
  /\ callback' = NoCallback
  /\ marked' = IF Full THEN marked \cup {lane} ELSE marked
  /\ number' = number + 1
  /\ torn' = torn \cup {number}
  /\ unmarked' = unmarked \cup {callback.event.seq}
  /\ UNCHANGED <<arriving, arrived, received, closeVars, deliveryVars>>

-----------------------------------------------------------------------------
(* The worker thread. *)

NothingInHand == inHand = <<>>

TakeWhileAccepting ==
  /\ NothingInHand /\ accepting
  /\ received # <<>>
  /\ inHand' = <<Head(received)>>
  /\ received' = Tail(received)
  /\ marked' = IF Head(received).event.type = "loss"
               THEN marked \ {Head(received).event.group} ELSE marked
  /\ UNCHANGED <<callbackVars, number, torn, unmarked, closeVars, delivered, capture>>

(* The front event, in worker_main or in the drain of close_on_worker; a     *)
(* marker that leaves the queue makes room for another of its group.         *)
Take ==
  /\ NothingInHand
  /\ received # <<>>
  /\ inHand' = <<Head(received)>>
  /\ received' = Tail(received)
  /\ marked' = IF Head(received).event.type = "loss"
               THEN marked \ {Head(received).event.group} ELSE marked
  /\ UNCHANGED <<callbackVars, number, torn, unmarked, closeVars, delivered, capture>>

(* process_received(): the stream handler, without the mutex. *)
Deliver ==
  /\ ~NothingInHand
  /\ delivered' = Append(delivered, Head(inHand))
  /\ capture' = ConsumeEvent(capture, Head(inHand).event)
  /\ inHand' = <<>>
  /\ UNCHANGED <<callbackVars, queueVars, closeVars>>

(* close_on_worker(), executed between two events: acceptance ends, ... *)
CloseBegin ==
  /\ NothingInHand
  /\ state = "open"
  /\ accepting' = FALSE
  /\ state' = "closing"
  /\ cut' = number
  /\ UNCHANGED <<callbackVars, queueVars, deliveryVars>>

CloseUndrained ==
  /\ NothingInHand
  /\ state = "closing"
  /\ state' = "closed"
  /\ UNCHANGED <<callbackVars, queueVars, accepting, cut, deliveryVars>>

(* ... the queue is drained, and once it was seen empty the callback is      *)
(* revoked and the session closed.                                           *)
CloseEnd ==
  /\ NothingInHand
  /\ state = "closing"
  /\ received = <<>>
  /\ state' = "closed"
  /\ UNCHANGED <<callbackVars, queueVars, accepting, cut, deliveryVars>>

WmsWorker == Take \/ Deliver \/ CloseEnd

WmsNext ==
  \/ Enter
  \/ PassGate
  \/ CallbackThrows
  \/ EnqueueReceived
  \/ EnqueueThrows
  \/ CloseBegin
  \/ WmsWorker

WmsSpec == WmsInit /\ [][WmsNext]_wmsVars

(* The worker thread is scheduled. *)
WmsFairSpec == WmsSpec /\ WF_wmsVars(WmsWorker)

-----------------------------------------------------------------------------
(* Properties. *)

Arriving == [i \in DOMAIN arriving |-> Numbered(arriving[i], i)]

(* What the worker has not delivered yet, in order. *)
Waiting == inHand \o received

(* The shape of the state; beyond its capacity the queue holds at most one    *)
(* marker of each group, and `marked` has the groups of those in it.         *)
WmsTypeOK ==
  /\ arriving \in EndpointScripts /\ arrived \in 0..Len(arriving)
  /\ callback.at \in {"out", "entered", "passed"}
  /\ accepting = (state = "open")
  /\ state \in {"open", "closing", "closed"}
  /\ number \in Nat /\ cut \in 0..number
  /\ Len(inHand) <= 1
  /\ torn \subseteq 1..(number - 1) /\ unmarked \subseteq 1..arrived
  /\ LET markers == {i \in DOMAIN received : received[i].event.type = "loss"} IN
       /\ {received[i].event.group : i \in markers} \subseteq marked
       /\ Cardinality(markers) = Cardinality({received[i].event.group : i \in markers})
       /\ Len(received) <= ReceiveCapacity + Cardinality(markers)

(* "Implementations must publish events in stream sequence order"             *)
(* (IMidiTransport.hpp): the handler is given every event once, in the order *)
(* of the numbers and with none left out but those that an allocation failed *)
(* for; what is queued continues the numbers.                                *)
InSequence ==
  LET all == delivered \o Waiting
  IN /\ \A i, j \in DOMAIN all : i < j => all[i].number < all[j].number
     /\ {all[i].number : i \in DOMAIN all} = (1..(number - 1)) \ torn

(* "A capture affected by known overflow must never be presented as a        *)
(* verified complete SysEx capture" (STAGE_3_BRIEF): a complete frame is one *)
(* the endpoint sent whole.                                                  *)
DeliveredWhole ==
  \A i \in DOMAIN capture.frames :
    LET f == capture.frames[i] IN
      f.status = "complete" => ~f.affected /\ SentWhole(Arriving, f.lane, f.pieces)

(* What the callback is done with, the messages that were lost unmarked left *)
(* blank: they are all that a capture may miss without knowing.              *)
Settled == IF callback.at = "out" THEN arrived ELSE arrived - 1

Heard ==
  [i \in 1..Settled |->
     IF i \in unmarked THEN Numbered(Packet("wms", LaneOf(arriving[i]), "other"), i)
     ELSE Arriving[i]]

(* The same but for such messages: a complete frame is one the endpoint sent *)
(* whole, or one that misses messages lost unmarked and nothing else.        *)
WholeButUnmarked ==
  \A i \in DOMAIN capture.frames :
    LET f == capture.frames[i] IN
      f.status = "complete" => ~f.affected /\ SentWhole(Heard, f.lane, f.pieces)

(* Close drains what was accepted: when it has ended, the only events still  *)
(* queued are of a callback that passed the gate before acceptance ended and *)
(* came to the queue after.                                                  *)
CloseDelivers ==
  state = "closed" => \A i \in DOMAIN Waiting : Waiting[i].number >= cut

(* close() returns, although the endpoint may go on sending. *)
CloseReturns == state = "closing" ~> state = "closed"

=============================================================================
