----------------------------- MODULE StreamQueue -----------------------------
(***************************************************************************)
(* How stream events reach the receive capture inside a ConnectionWorker   *)
(* (src/src/app/ConnectionWorker.cpp): the transport's thread offers       *)
(* events through enqueue_stream_event(), which keeps at most Capacity of  *)
(* them and turns every event it has to drop into a loss marker; the       *)
(* interface's thread enqueues commands; the worker thread executes        *)
(* commands first and events otherwise, and the receive commands and       *)
(* disconnect() drain the events before they act.                          *)
(*                                                                         *)
(* Every critical section under mutex_ is one action, so the worker takes  *)
(* an event in one step and consumes it, without the mutex, in another.    *)
(* The wake-ups of changed_ are implied: a worker with work to do may go   *)
(* on, one without waits.  Opening and closing the transport belong to the *)
(* commands and are not modelled here: `ready` stands for a connected      *)
(* receive route with no Raw Send in progress, which begin_sysex_receive   *)
(* asks for.                                                               *)
(***************************************************************************)
EXTENDS SysExCapture

CONSTANTS
  Capacity,      \* stream_capacity, 8192 in the code
  Scripts,       \* the event sequences a transport may publish
  MaxCommands    \* how many commands the interface enqueues

(* A WinMM callback carries bytes, a WMS callback one UMP message; so would   *)
(* an external transport, which the repository has none of.                  *)
Published ==
  {e \in Events : /\ e.type = "midi1" => e.backend # "wms"
                  /\ e.type = "ump" => e.backend # "winmm" /\ Len(e.data) = 1}

ASSUME CapacityAssumption == Capacity \in Nat \ {0}
ASSUME ScriptsAssumption  == Scripts \subseteq Seq(Published)

VARIABLES
  script,        \* what this connection's transport publishes
  sent,          \* how many of its events were offered to enqueue_stream_event
  queue,         \* stream_events_
  owed,          \* pending_stream_loss_*: how many markers, and the last drop
  dropped,       \* dropped_stream_events_
  commands,      \* commands_
  issued,        \* how many commands were enqueued
  stopping,      \* stopping_
  job,           \* the command the worker executes; "run" in between; "exited"
  held,          \* the event the worker took and has not consumed yet, if any
  session,       \* the SysExTransferSession the worker owns
  ready,         \* the connection can receive
  taken,         \* everything the worker took, in order (history)
  began,         \* how much of it when the capture began (history)
  blurred        \* an owed marker's address was overwritten (history)

transportVars == <<script, sent, queue, owed, dropped, blurred>>
clientVars    == <<commands, issued, stopping>>
workerVars    == <<job, held, session, taken, began>>
vars == <<transportVars, clientVars, workerVars, ready>>

Ending   == {"finish", "disconnect"}
Draining == {"begin"} \cup Ending
Commands == Draining \cup {"clear"}

Job(name, published) == [name |-> name, published |-> published]

Init ==
  /\ script \in Scripts
  /\ sent = 0
  /\ queue = <<>>
  /\ owed = [count |-> 0, seq |-> 0, backend |-> "winmm", group |-> Midi1]
  /\ dropped = 0
  /\ commands = <<>>
  /\ issued = 0
  /\ stopping = FALSE
  /\ job = Job("run", 0)
  /\ held = <<>>
  /\ session = NewSession
  /\ ready \in BOOLEAN
  /\ taken = <<>>
  /\ began = 0
  /\ blurred = FALSE

-----------------------------------------------------------------------------
(* The transport's thread. *)

(* The marker that stands for a dropped event: it carries the address of the *)
(* event dropped last, and always claims to affect SysEx.                    *)
Marker == [type |-> "loss", backend |-> owed.backend, group |-> owed.group,
           affects |-> TRUE, seq |-> owed.seq]

(* The group of a dropped event: a loss event's own, else bits 24 to 27 of   *)
(* its first word, whether or not that message type has a group.             *)
AddressOf(event) ==
  [backend |-> event.backend,
   group   |-> CASE event.type = "loss"  -> event.group
                 [] event.type = "midi1" -> Midi1
                 [] event.type = "ump"   -> Head(event.data).lane]

(* What a call finds once it has paid back the owed markers there is room    *)
(* for: pushed of them, all of them unless the queue filled up first.        *)
Room == IF Len(queue) < Capacity THEN Capacity - Len(queue) ELSE 0

Pushed == IF owed.count <= Room THEN owed.count ELSE Room

PaidQueue == queue \o [i \in 1..Pushed |-> Marker]

(* One marker per dropped event, but only the last address is kept. *)
RecordDropOnce(event, count) ==
  LET address == AddressOf(event) IN
  /\ owed' = [count |-> 1, seq |-> event.seq, backend |-> address.backend,
              group |-> address.group]
  /\ dropped' = dropped + 1
  /\ UNCHANGED blurred

RecordDrop(event, count) ==
  LET address == AddressOf(event) IN
  /\ owed' = [count |-> count + 1, seq |-> event.seq, backend |-> address.backend,
              group |-> address.group]
  /\ dropped' = dropped + 1
  /\ blurred' = (blurred \/ (count > 0 /\ address # [backend |-> owed.backend,
                                                      group |-> owed.group]))

OfferForgettingLoss(event) ==
  /\ queue' = IF Len(queue) < Capacity THEN Append(queue, event) ELSE queue
  /\ UNCHANGED <<owed, dropped, blurred>>

Offer(event) ==
  IF Len(PaidQueue) = Capacity
  THEN queue' = PaidQueue /\ RecordDrop(event, owed.count - Pushed)
  ELSE /\ queue' = Append(PaidQueue, event)
       /\ owed' = [owed EXCEPT !.count = @ - Pushed]
       /\ UNCHANGED <<dropped, blurred>>

(* What the transport publishes, each event with its sequence number. *)
Stream == [i \in DOMAIN script |-> Numbered(script[i], i)]

(* enqueue_stream_event(); once the worker is stopping it changes nothing. *)
Publish ==
  /\ ~stopping
  /\ sent < Len(script)
  /\ sent' = sent + 1
  /\ Offer(Stream[sent + 1])
  /\ UNCHANGED <<script, clientVars, workerVars, ready>>

-----------------------------------------------------------------------------
(* The interface's thread. *)

(* enqueue(); a command that ends a capture is stamped with how much had     *)
(* been published by then (history).                                         *)
Enqueue(name) ==
  /\ ~stopping
  /\ issued < MaxCommands
  /\ issued' = issued + 1
  /\ commands' = Append(commands, Job(name, IF name \in Ending THEN sent ELSE 0))
  /\ UNCHANGED <<transportVars, stopping, workerVars, ready>>

(* The destructor sets stopping_ and joins the worker. *)
Stop ==
  /\ ~stopping
  /\ stopping' = TRUE
  /\ UNCHANGED <<transportVars, commands, issued, workerVars, ready>>

(* The connection comes and goes between commands. *)
Reconnect ==
  /\ job.name = "run"
  /\ ~session.receiving
  /\ ready' = ~ready
  /\ UNCHANGED <<transportVars, clientVars, workerVars>>

-----------------------------------------------------------------------------
(* The worker thread. *)

Free == held = <<>>

(* Commands go first. *)
TakeCommand ==
  /\ job.name = "run" /\ Free
  /\ commands # <<>>
  /\ job' = Head(commands)
  /\ commands' = Tail(commands)
  /\ UNCHANGED <<transportVars, issued, stopping, held, session, taken, began, ready>>

MayTakeEvent ==
  Free /\ (job.name \in Draining \/ (job.name = "run" /\ commands = <<>>))

TakeEvent ==
  /\ MayTakeEvent
  /\ queue # <<>>
  /\ held' = <<Head(queue)>>
  /\ taken' = Append(taken, Head(queue))
  /\ queue' = Tail(queue)
  /\ UNCHANGED <<script, sent, owed, dropped, blurred, clientVars, job, session,
                 began, ready>>

TakeMarkerWhenDraining ==
  /\ Free /\ job.name \in Draining
  /\ queue = <<>>
  /\ owed.count > 0
  /\ held' = <<Marker>>
  /\ taken' = Append(taken, Marker)
  /\ owed' = [owed EXCEPT !.count = @ - 1]
  /\ UNCHANGED <<script, sent, queue, dropped, blurred, clientVars, job, session,
                 began, ready>>

(* An owed marker is delivered without ever having been queued. *)
TakeMarker ==
  /\ MayTakeEvent
  /\ queue = <<>>
  /\ owed.count > 0
  /\ held' = <<Marker>>
  /\ taken' = Append(taken, Marker)
  /\ owed' = [owed EXCEPT !.count = @ - 1]
  /\ UNCHANGED <<script, sent, queue, dropped, blurred, clientVars, job, session,
                 began, ready>>

Consume ==
  /\ ~Free
  /\ session' = ConsumeEvent(session, Head(held))
  /\ held' = <<>>
  /\ UNCHANGED <<transportVars, clientVars, job, taken, began, ready>>

Drained == Free /\ queue = <<>> /\ owed.count = 0

(* A command is answered and the worker looks for more work. *)
Answer ==
  /\ job' = Job("run", 0)
  /\ UNCHANGED <<transportVars, clientVars, held, taken>>

(* begin_sysex_receive() after its drain: refused unless connected to a      *)
(* receive route, and while a capture runs.                                  *)
BeginReceiving ==
  /\ job.name = "begin" /\ Drained
  /\ session' = IF ready THEN BeginReceive(session) ELSE session
  /\ began' = IF ready /\ ~session.receiving THEN Len(taken) ELSE began
  /\ Answer
  /\ UNCHANGED ready

FinishUndrained(name) ==
  /\ job.name = name /\ Free
  /\ session' = FinishReceive(session)
  /\ ready' = (ready /\ name # "disconnect")
  /\ Answer
  /\ UNCHANGED began

(* finish_sysex_receive(), and stop_activity() under disconnect(), which     *)
(* also closes the connection.                                               *)
FinishReceiving(name) ==
  /\ job.name = name /\ Drained
  /\ session' = FinishReceive(session)
  /\ ready' = (ready /\ name # "disconnect")
  /\ Answer
  /\ UNCHANGED began

ClearWorkspace ==
  /\ job.name = "clear"
  /\ session' = ClearDocument(session)
  /\ Answer
  /\ UNCHANGED <<began, ready>>

ExitAtOnce ==
  /\ job.name = "run" /\ Free
  /\ stopping
  /\ session' = FinishReceive(session)
  /\ job' = Job("exited", 0)
  /\ UNCHANGED <<transportVars, clientVars, held, taken, began, ready>>

(* run() leaves its loop only when nothing is left to do, and then finishes  *)
(* a capture that is still active.                                           *)
Exit ==
  /\ job.name = "run" /\ Drained
  /\ commands = <<>>
  /\ stopping
  /\ session' = FinishReceive(session)
  /\ job' = Job("exited", 0)
  /\ UNCHANGED <<transportVars, clientVars, held, taken, began, ready>>

Worker ==
  \/ TakeCommand
  \/ TakeEvent
  \/ TakeMarker
  \/ Consume
  \/ BeginReceiving
  \/ \E name \in Ending : FinishReceiving(name)
  \/ ClearWorkspace
  \/ Exit

Next ==
  \/ Publish
  \/ \E name \in Commands : Enqueue(name)
  \/ Stop
  \/ Reconnect
  \/ Worker

Spec == Init /\ [][Next]_vars

(* The worker thread is scheduled; nothing is assumed of the transport or    *)
(* of the interface.                                                         *)
FairSpec == Spec /\ WF_vars(Worker)

-----------------------------------------------------------------------------
(* Properties. *)

(* Everything between the transport and the capture, in order: what the      *)
(* worker took, what is queued, and the markers still owed.                  *)
Pipeline == taken \o queue \o [i \in 1..owed.count |-> Marker]

(* The shape of the state; stream_events_ never outgrows stream_capacity,    *)
(* also not by the markers put into it.                                      *)
TypeOK ==
  /\ script \in Scripts
  /\ sent \in 0..Len(script)
  /\ Len(queue) <= Capacity
  /\ owed.count \in Nat /\ owed.seq \in 0..sent /\ owed.group \in Lanes
  /\ dropped \in owed.count..sent
  /\ commands \in Seq([name : Commands, published : 0..sent])
  /\ issued \in 0..MaxCommands
  /\ stopping \in BOOLEAN
  /\ job.name \in Commands \cup {"run", "exited"}
  /\ Len(held) <= 1
  /\ ready \in BOOLEAN /\ blurred \in BOOLEAN
  /\ began \in 0..Len(taken)

(* "Every rejected event is represented by a loss marker" (STAGE_5_REPORT):   *)
(* the i-th event a transport published is the i-th thing the worker gets,   *)
(* either itself or, if there was no room for it, a loss marker, which names *)
(* that event or a later one.  No reordering, no duplicates, no silent gap.  *)
EachEventOrItsMarker ==
  /\ Len(Pipeline) = sent
  /\ \A i \in 1..sent :
       \/ Pipeline[i] = Stream[i]
       \/ Pipeline[i].type = "loss" /\ Pipeline[i].affects /\ Pipeline[i].seq \in i..sent

(* A complete frame in the document is one the device sent whole, even when  *)
(* the queue overflowed in the middle of it.                                 *)
OnlyWholeFrames ==
  \A i \in DOMAIN session.frames :
    LET f == session.frames[i] IN
      f.status = "complete" => ~f.affected /\ SentWhole(Stream, f.lane, f.pieces)

(* The same, unless markers of two different addresses were owed at once.    *)
WholeUnlessBlurred == blurred \/ OnlyWholeFrames

(* Of the pieces from a to b the queue dropped none.                         *)
NothingDropped(l, a, b) ==
  \A e \in a[1]..b[1] :
    Stream[e].type # "loss" /\ OffsetsOf(Stream[e], l) # {} =>
      e \notin DOMAIN taken \/ taken[e] = Stream[e]

(* Pressing Stop keeps what was sent before: when finish or disconnect ends  *)
(* a capture, each frame the device sent whole between the begin and the     *)
(* request, and of which the queue dropped nothing, is in the document.      *)
EndsCapture == session.receiving /\ ~session'.receiving

StopKeepsEarlierFrames ==
  [][EndsCapture /\ job.name # "run" =>
      \A l \in Lanes : \A d, e \in (began + 1)..job.published :
        \A j \in OffsetsOf(Stream[d], l), k \in OffsetsOf(Stream[e], l) :
          LET a == <<d, j>>
              b == <<e, k>>
          IN FrameSent(Stream, l, a, b) /\ NothingDropped(l, a, b) =>
               InDocument(Stream, session'.frames, l, a, b)]_vars

(* The worker leaves nothing behind: when it has exited, it has executed     *)
(* every command, seen every event the queue accepted and the loss of every  *)
(* other one, and ended the capture.                                         *)
ExitLeavesNothing ==
  job.name = "exited" =>
    Len(taken) = sent /\ held = <<>> /\ commands = <<>> /\ ~session.receiving

(* The destructor's join returns. *)
StopReturns == stopping ~> job.name = "exited"

=============================================================================
