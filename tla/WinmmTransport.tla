--------------------------- MODULE WinmmTransport ---------------------------
(***************************************************************************)
(* A WinmmTransport (src/src/transports/winmm/WinmmTransport.cpp): open(), *)
(* close(), send() and the destructor, called one at a time by its owner   *)
(* and executed on the worker thread; the native input callback; and the   *)
(* driver, which holds the long-message buffers submitted to it and may    *)
(* return them late or never.                                              *)
(*                                                                         *)
(* The driver runs one input callback at a time.  A callback draws its     *)
(* stream sequence number before it takes queue_mutex, so it is two steps. *)
(* What the worker does between two points where it could meet a callback  *)
(* is one action.  A native call may fail, and what a callback queues not  *)
(* be allocated, while fewer than MaxFaults have.                          *)
(* Both routes are requested; a request for one of them, the resolution of *)
(* routes, the bytes and the diagnostics counters are not modelled.        *)
(*                                                                         *)
(* Operators that no action uses (OverflowOncePending,                     *)
(* InputTimeoutFreeing, InputTimeoutIgnored, DisableIfClosed) are          *)
(* plausible mistakes that the properties are tested against.              *)
(***************************************************************************)
EXTENDS Integers, Sequences, FiniteSets, SequencesExt, TransportLifecycle, WinmmMidiHeader

CONSTANTS
  Inputs,        \* the input buffers open() allocates, two in the code
  Capacity,      \* callback_capacity, 1024 in the code
  Scenarios,     \* bound: what the device may send, what the owner may call
  MaxFaults      \* bound: native calls and callbacks' allocations that fail

Kinds == {"short", "invalid", "shortError", "long", "longError"}

ASSUME WinmmAssumption ==
  /\ IsFiniteSet(Inputs) /\ Inputs # {}
  /\ Capacity \in Nat \ {0}
  /\ Scenarios \subseteq [script : Seq(Kinds), plan : Seq({"open", "send", "close"})]
  /\ MaxFaults \in Nat

VARIABLES
  script, sent,  \* what the device sends, and how much of it
  plan, calls,   \* what the owner calls before the destructor, and how much of it
  input,         \* the input device: "closed", "started", "stopped", "resetting"
  output,        \* the output device is open
  inHeld,        \* the input buffers the driver holds
  outHeld,       \* the long messages the driver holds
  callback,      \* the input callback that runs: [at, event]
  accepting,     \* accepting_callbacks
  enabled,       \* application_callbacks_enabled
  context,       \* callback_context: "none", "attached", "detached"
  number,        \* next_stream_sequence
  callbacks,     \* the queue of events
  completions,   \* output_completions
  inputs,        \* input_buffers: a header for each buffer allocated
  outputs,       \* output_buffers: [id, header]
  worker,        \* the worker thread: [at, ...]
  call,          \* what the owner waits for: a command, or "none"
  owner,         \* "alive", or how far the destructor is
  lifecycle,     \* lifecycle_
  faults,        \* how many native calls and allocations failed
  delivered,     \* what the stream handler was given since open() (history)
  silent,        \* the places of what was lost with nothing to tell it (history)
  sending        \* the last long send: [id, cut, result] (history)

deviceVars == <<script, sent, input, output>>
heldVars   == <<inHeld, outHeld, callback>>
queueVars  == <<number, callbacks, completions>>
bufferVars == <<inputs, outputs>>
gateVars   == <<accepting, enabled, context>>
ownerVars  == <<call, owner, lifecycle, plan, calls>>
historyVars == <<delivered, silent, sending>>
vars == <<deviceVars, heldVars, queueVars, bufferVars, gateVars, ownerVars, worker,
          faults, historyVars>>

NoCallback == [at |-> "out"]
At(place)  == [at |-> place]
NoBuffer   == "none"
NoBuffers  == [b \in {} |-> NewHeader]
NotSent    == [id |-> 0, cut |-> FALSE, result |-> "none"]

Init ==
  /\ \E scenario \in Scenarios : script = scenario.script /\ plan = scenario.plan
  /\ sent = 0
  /\ input = "closed" /\ output = FALSE
  /\ inHeld = {} /\ outHeld = {} /\ callback = NoCallback
  /\ accepting = FALSE /\ enabled = FALSE /\ context = "none"
  /\ number = 0 /\ callbacks = <<>> /\ completions = <<>>
  /\ inputs = NoBuffers /\ outputs = <<>>
  /\ worker = At("idle")
  /\ call = "none" /\ owner = "alive" /\ lifecycle = "closed" /\ calls = 0
  /\ faults = 0 /\ silent = {}
  /\ delivered = <<>> /\ sending = NotSent

(* A native call fails, or not. *)
Native(ok) ==
  /\ ok \/ faults < MaxFaults
  /\ faults' = IF ok THEN faults ELSE faults + 1

Outcomes == {TRUE, FALSE}

-----------------------------------------------------------------------------
(* The queue of events. *)

Event(kind, place, buffer, accepted) ==
  [number |-> number, kind |-> kind, place |-> place, buffer |-> buffer,
   accepted |-> accepted]

Marker(kind) == Event(kind, 0, NoBuffer, TRUE)

(* insert_callback_locked(): in the order of the numbers. *)
Insert(event, queue) ==
  LET before == Cardinality({i \in DOMAIN queue : queue[i].number < event.number})
  IN InsertAt(queue, before + 1, event)

Droppable(event) == event.kind \in {"short", "invalid"}
Header(event)    == event.buffer # NoBuffer

OverflowOncePending(event) ==
  callbacks' = IF \E i \in DOMAIN callbacks : callbacks[i].kind = "overflow"
               THEN callbacks
               ELSE Insert([event EXCEPT !.kind = "overflow", !.place = 0], callbacks)

(* A drop is marked unless the last event queued is already such a marker. *)
Overflow(event) ==
  callbacks' = IF callbacks # <<>> /\ Last(callbacks).kind = "overflow"
               THEN callbacks
               ELSE Insert([event EXCEPT !.kind = "overflow", !.place = 0], callbacks)

Push(event) ==
  IF Droppable(event) /\ Len(callbacks) >= Capacity
  THEN Overflow(event)
  ELSE callbacks' = Insert(event, callbacks)

-----------------------------------------------------------------------------
(* The driver and its input callback. *)

(* The callback takes its lease, looks whether events are accepted, and draws *)
(* its number; one that finds no owner, or a short one too late, is over.     *)
Enter(kind, place, buffer) ==
  /\ callback = NoCallback
  /\ IF context = "attached" /\ (accepting \/ buffer # NoBuffer)
     THEN /\ callback' = [at |-> "leased", event |-> Event(kind, place, buffer, accepting)]
          /\ number' = number + 1
     ELSE UNCHANGED <<callback, number>>

DriverRest == <<script, input, output, outHeld, callbacks, completions, bufferVars,
                gateVars, ownerVars, worker, faults, historyVars>>

(* A short message, or the report of a bad one. *)
ReceiveShort ==
  /\ input = "started" /\ sent < Len(script)
  /\ script[sent + 1] \in {"short", "invalid", "shortError"}
  /\ sent' = sent + 1
  /\ Enter(script[sent + 1], sent + 1, NoBuffer)
  /\ UNCHANGED <<inHeld, DriverRest>>

(* A buffer comes back with data, or with data the driver knows to be bad. *)
ReceiveLong ==
  /\ input \in {"started", "resetting"} /\ sent < Len(script)
  /\ script[sent + 1] \in {"long", "longError"}
  /\ sent' = sent + 1
  /\ \E b \in inHeld :
       /\ inHeld' = inHeld \ {b}
       /\ Enter(script[sent + 1], sent + 1, b)
  /\ UNCHANGED DriverRest

(* One that finds no buffer is dropped by the driver, which tells nobody.    *)
DropLong ==
  /\ input = "started" /\ sent < Len(script)
  /\ script[sent + 1] \in {"long", "longError"}
  /\ inHeld = {}
  /\ sent' = sent + 1
  /\ silent' = silent \cup {sent'}
  /\ UNCHANGED <<script, input, output, heldVars, queueVars, bufferVars, gateVars, ownerVars,
                 worker, faults, delivered, sending>>

(* midiInReset() gives buffers back empty. *)
ReturnEmpty ==
  /\ input = "resetting"
  /\ \E b \in inHeld :
       /\ inHeld' = inHeld \ {b}
       /\ Enter("empty", 0, b)
  /\ UNCHANGED <<sent, DriverRest>>

(* The rest of the callback, under queue_mutex; then the lease ends. *)
Queue ==
  /\ callback.at = "leased"
  /\ callback' = NoCallback
  /\ Push(callback.event)
  /\ UNCHANGED <<deviceVars, inHeld, outHeld, number, completions, bufferVars, gateVars,
                 ownerVars, worker, faults, historyVars>>

(* What is to be queued cannot be allocated: catch (...) swallows the event.  *)
(* A buffer that it returned stays marked submitted, and is never used again. *)
QueueThrows ==
  /\ callback.at = "leased"
  /\ Native(FALSE)
  /\ callback' = NoCallback
  /\ silent' = silent \cup {callback.event.place}
  /\ UNCHANGED <<deviceVars, inHeld, outHeld, queueVars, bufferVars, gateVars, ownerVars,
                 worker, delivered, sending>>

(* MOM_DONE: the output callback, which only queues the header. *)
Complete ==
  \E id \in outHeld :
    /\ outHeld' = outHeld \ {id}
    /\ completions' = IF context = "attached" THEN Append(completions, id) ELSE completions
    /\ UNCHANGED <<deviceVars, inHeld, callback, number, callbacks, bufferVars, gateVars,
                   ownerVars, worker, faults, historyVars>>

(* It, too, swallows what it cannot allocate. *)
CompleteThrows ==
  /\ Native(FALSE)
  /\ \E id \in outHeld : outHeld' = outHeld \ {id}
  /\ UNCHANGED <<deviceVars, inHeld, callback, queueVars, bufferVars, gateVars, ownerVars,
                 worker, historyVars>>

Driver ==
  ReceiveShort \/ ReceiveLong \/ DropLong \/ ReturnEmpty \/ Complete \/ CompleteThrows

-----------------------------------------------------------------------------
(* The worker thread: commands, then completions, then events. *)

Idle == worker.at = "idle" /\ call = "none"

AllInputsReturned  == \A b \in DOMAIN inputs : ~inputs[b].submitted
AllOutputsReturned == \A i \in DOMAIN outputs : ~outputs[i].header.submitted

(* Where the worker takes events, and where it takes completions. *)
TakesEvents ==
  \/ Idle /\ completions = <<>>
  \/ worker.at \in {"draining", "drainingAgain", "drainingLast"}
  \/ worker.at = "waitingInput" /\ ~AllInputsReturned

TakesCompletions ==
  \/ Idle
  \/ worker.at \in {"sending", "sendReset", "waitingOutput"} /\ ~AllOutputsReturned

Take ==
  /\ TakesEvents
  /\ callbacks # <<>>
  /\ worker' = [at |-> "processing", event |-> Head(callbacks), back |-> worker]
  /\ callbacks' = Tail(callbacks)
  /\ UNCHANGED <<deviceVars, heldVars, number, completions, bufferVars, gateVars,
                 ownerVars, faults, historyVars>>

IsData(event) == event.kind \in {"short", "long"} /\ event.accepted

IsLoss(event) ==
  \/ event.kind \in {"overflow", "requeueFailed", "shortError", "invalid", "longError"}
  \/ event.kind = "long" /\ ~event.accepted

(* deliver() and dispatch_loss(), both gated. *)
Deliver(event) ==
  delivered' = IF enabled /\ (IsData(event) \/ IsLoss(event))
               THEN Append(delivered, [type  |-> IF IsData(event) THEN "data" ELSE "loss",
                                       place |-> event.place])
               ELSE delivered

(* A returned buffer is submitted again while events are accepted; one that   *)
(* cannot be is reported as a loss of its own.                                *)
Return(b) ==
  LET returned == MarkReturned(inputs[b]) IN
    \E ok \in Outcomes :
      IF accepting /\ ok /\ MaySubmit(returned)
      THEN /\ inputs' = [inputs EXCEPT ![b] = Submit(returned)]
           /\ inHeld' = inHeld \cup {b}
           /\ UNCHANGED <<number, callbacks, faults>>
      ELSE /\ inputs' = [inputs EXCEPT ![b] = returned]
           /\ UNCHANGED inHeld
           /\ IF accepting
              THEN /\ Native(ok)
                   /\ callbacks' = Insert(Marker("requeueFailed"), callbacks)
                   /\ number' = number + 1
              ELSE UNCHANGED <<number, callbacks, faults>>

(* process_callback() *)
Process ==
  /\ worker.at = "processing"
  /\ Deliver(worker.event)
  /\ IF Header(worker.event)
     THEN Return(worker.event.buffer)
     ELSE UNCHANGED <<inputs, inHeld, number, callbacks, faults>>
  /\ worker' = worker.back
  /\ UNCHANGED <<deviceVars, outHeld, callback, completions, outputs, gateVars, ownerVars,
                 silent, sending>>

(* process_output_completion() *)
ProcessCompletion ==
  /\ TakesCompletions
  /\ completions # <<>>
  /\ completions' = Tail(completions)
  /\ outputs' = [i \in DOMAIN outputs |->
                   IF outputs[i].id = Head(completions)
                   THEN [outputs[i] EXCEPT !.header = MarkReturned(@)]
                   ELSE outputs[i]]
  /\ UNCHANGED <<deviceVars, heldVars, number, callbacks, inputs, gateVars, ownerVars,
                 worker, faults, historyVars>>

(* The future is fulfilled, and open() or close() ends its life cycle step. *)
Answer(ok) ==
  /\ worker' = At("idle")
  /\ call' = "none"
  /\ lifecycle' = CASE call = "open"  -> IF ok THEN CompleteOpen(lifecycle) ELSE Fail
                    [] call = "close" -> IF ok THEN CompleteClose(lifecycle) ELSE Fail
                    [] OTHER          -> lifecycle
  /\ UNCHANGED <<owner, plan, calls>>

-----------------------------------------------------------------------------
(* close_on_worker(), also run by an open() that fails halfway, whose owner  *)
(* gets that failure whatever comes of the close.                            *)

Closing(place, error) == [at |-> place, error |-> error]

StartClosing(error) == worker' = Closing("draining", error)

GoOn(place, error) ==
  /\ worker' = Closing(place, worker.error \/ error)
  /\ UNCHANGED ownerVars

CloseBegin ==
  /\ worker.at = "idle"
  /\ call \in {"close", "finalClose"}
  /\ accepting' = FALSE
  /\ StartClosing(FALSE)
  /\ UNCHANGED <<deviceVars, heldVars, queueVars, bufferVars, enabled, context, ownerVars,
                 faults, historyVars>>

CloseRest == <<script, sent, inHeld, callback, queueVars, accepting, historyVars>>

(* The queue was seen empty: an input that is open is stopped, ... *)
StopInput ==
  /\ worker.at = "draining" /\ callbacks = <<>>
  /\ IF input = "closed"
     THEN GoOn("closingOutput", FALSE) /\ UNCHANGED <<input, faults>>
     ELSE \E ok \in Outcomes :
            /\ Native(ok)
            /\ input' = IF ok /\ input = "started" THEN "stopped" ELSE input
            /\ GoOn("resettingInput", ~ok)
  /\ UNCHANGED <<output, outHeld, bufferVars, enabled, context, CloseRest>>

(* ... reset, failing or not, ... *)
ResetInput ==
  /\ worker.at = "resettingInput"
  /\ \E ok \in Outcomes :
       /\ Native(ok)
       /\ input' = IF ok THEN "resetting" ELSE input
       /\ GoOn("waitingInput", ~ok)
  /\ UNCHANGED <<output, outHeld, bufferVars, enabled, context, CloseRest>>

(* ... and its buffers are awaited, for five seconds. *)
InputsReturned ==
  /\ worker.at = "waitingInput" /\ AllInputsReturned
  /\ GoOn("drainingAgain", FALSE)
  /\ UNCHANGED <<input, output, outHeld, bufferVars, enabled, context, faults, CloseRest>>

InputTimeoutFreeing ==
  /\ worker.at = "waitingInput" /\ ~AllInputsReturned /\ callbacks = <<>>
  /\ inputs' = NoBuffers
  /\ GoOn("closingOutput", TRUE)
  /\ UNCHANGED <<input, output, outHeld, outputs, enabled, context, faults, CloseRest>>

InputTimeoutIgnored ==
  /\ worker.at = "waitingInput" /\ ~AllInputsReturned /\ callbacks = <<>>
  /\ UNCHANGED vars

InputTimeout ==
  /\ worker.at = "waitingInput" /\ ~AllInputsReturned /\ callbacks = <<>>
  /\ GoOn("closingOutput", TRUE)
  /\ UNCHANGED <<input, output, outHeld, bufferVars, enabled, context, faults, CloseRest>>

Prepared(headers) == {b \in DOMAIN headers : headers[b].prepared}

UnprepareInputs ==
  /\ worker.at = "drainingAgain" /\ callbacks = <<>>
  /\ \E stuck \in SUBSET Prepared(inputs) :
       /\ faults + Cardinality(stuck) <= MaxFaults
       /\ faults' = faults + Cardinality(stuck)
       /\ inputs' = [b \in DOMAIN inputs |->
                       IF b \in stuck THEN inputs[b] ELSE Unprepare(inputs[b])]
       /\ GoOn("closingInput", stuck # {})
  /\ UNCHANGED <<input, output, outHeld, outputs, enabled, context, CloseRest>>

(* midiInClose() succeeds only when no input callback runs. *)
CloseInputHandle ==
  \E ok \in Outcomes :
    /\ Native(ok)
    /\ ok => callback = NoCallback
    /\ input' = IF ok THEN "closed" ELSE input
    /\ GoOn("closingOutput", ~ok)

CloseInput ==
  /\ worker.at = "closingInput"
  /\ IF worker.error
     THEN GoOn("closingOutput", FALSE) /\ UNCHANGED <<input, inputs, faults>>
     ELSE CloseInputHandle /\ inputs' = NoBuffers
  /\ UNCHANGED <<output, outHeld, outputs, enabled, context, CloseRest>>

ResetOutput ==
  /\ worker.at = "closingOutput"
  /\ IF ~output
     THEN GoOn("disabling", FALSE) /\ UNCHANGED faults
     ELSE \E ok \in Outcomes :
            /\ Native(ok)
            /\ GoOn(IF ok THEN "waitingOutput" ELSE "disabling", ~ok)
  /\ UNCHANGED <<input, output, outHeld, bufferVars, enabled, context, CloseRest>>

OutputTimeout ==
  /\ worker.at = "waitingOutput" /\ ~AllOutputsReturned /\ completions = <<>>
  /\ GoOn("disabling", TRUE)
  /\ UNCHANGED <<input, output, outHeld, bufferVars, enabled, context, faults, CloseRest>>

(* All returned: they are unprepared, and if that worked, freed and the      *)
(* device closed, whatever came of the input.                                *)
CloseOutput ==
  /\ worker.at = "waitingOutput" /\ AllOutputsReturned
  /\ \E stuck \in SUBSET {i \in DOMAIN outputs : outputs[i].header.prepared}, ok \in Outcomes :
       /\ stuck # {} => ok
       /\ LET failures == Cardinality(stuck) + (IF ok THEN 0 ELSE 1)
          IN /\ faults + failures <= MaxFaults
             /\ faults' = faults + failures
       /\ outputs' = IF stuck = {} THEN <<>>
                     ELSE [i \in DOMAIN outputs |->
                             IF i \in stuck THEN outputs[i]
                             ELSE [outputs[i] EXCEPT !.header = Unprepare(@)]]
       /\ output' = (stuck # {} \/ ~ok)
       /\ GoOn("disabling", stuck # {} \/ ~ok)
  /\ UNCHANGED <<input, outHeld, inputs, enabled, context, CloseRest>>

Closed == input = "closed" /\ ~output

EndClosing == Answer(~worker.error /\ call # "open")

DisableIfClosed ==
  /\ worker.at = "disabling"
  /\ IF Closed
     THEN /\ enabled' = FALSE
          /\ context' = IF context = "none" THEN context ELSE "detached"
          /\ GoOn("detaching", FALSE)
     ELSE EndClosing /\ UNCHANGED <<enabled, context>>
  /\ UNCHANGED <<input, output, outHeld, bufferVars, faults, CloseRest>>

(* Delivery ends, even if a device could not be closed; else the callbacks    *)
(* are detached.                                                              *)
Disable ==
  /\ worker.at = "disabling"
  /\ enabled' = FALSE
  /\ IF Closed
     THEN /\ context' = IF context = "none" THEN context ELSE "detached"
          /\ GoOn("detaching", FALSE)
     ELSE EndClosing /\ UNCHANGED context
  /\ UNCHANGED <<input, output, outHeld, bufferVars, faults, CloseRest>>

(* No lease is left; the queue is drained once more. *)
Detached ==
  /\ worker.at = "detaching" /\ callback = NoCallback
  /\ GoOn("drainingLast", FALSE)
  /\ UNCHANGED <<input, output, outHeld, bufferVars, enabled, context, faults, CloseRest>>

Release ==
  /\ worker.at = "drainingLast" /\ callbacks = <<>>
  /\ completions' = <<>>
  /\ context' = "none"
  /\ EndClosing
  /\ UNCHANGED <<deviceVars, heldVars, number, callbacks, bufferVars, accepting, enabled,
                 faults, historyVars>>

Close ==
  \/ CloseBegin \/ StopInput \/ ResetInput \/ InputsReturned \/ InputTimeout
  \/ UnprepareInputs \/ CloseInput \/ ResetOutput \/ OutputTimeout \/ CloseOutput
  \/ Disable \/ Detached \/ Release

-----------------------------------------------------------------------------
(* open_on_worker(): the input first, buffer by buffer; what is half open is *)
(* closed again, but nothing is when the input did not open at all.          *)

Ready == Submit(Prepare(NewHeader))

Opening(ok) ==
  /\ worker.at = "idle" /\ call = "open"
  /\ Native(ok)
  /\ context' = IF context = "none" THEN "attached" ELSE context
  /\ UNCHANGED <<script, sent, output, outHeld, callback, queueVars, outputs, historyVars>>

EnumerationFails ==
  /\ Opening(FALSE)
  /\ enabled' = FALSE
  /\ Answer(FALSE)
  /\ UNCHANGED <<input, inHeld, inputs, accepting>>

InputFails ==
  /\ Opening(FALSE)
  /\ enabled' = TRUE
  /\ Answer(FALSE)
  /\ UNCHANGED <<input, inHeld, inputs, accepting>>

(* A buffer is not prepared, or not taken by the driver, or midiInStart()    *)
(* fails when all are.                                                       *)
InputHalfOpens ==
  /\ Opening(FALSE)
  /\ enabled' = TRUE
  /\ input' = "stopped"
  /\ accepting' = FALSE
  /\ \E ready \in SUBSET Inputs, refused \in SUBSET Inputs :
       /\ refused \cap ready = {} /\ Cardinality(refused) <= 1
       /\ inputs' = [b \in ready \cup refused |-> IF b \in ready THEN Ready
                                                 ELSE Prepare(NewHeader)]
       /\ inHeld' = ready
  /\ StartClosing(FALSE)
  /\ UNCHANGED ownerVars

InputOpens ==
  /\ Opening(TRUE)
  /\ enabled' = TRUE
  /\ input' = "started"
  /\ accepting' = TRUE
  /\ inputs' = [b \in Inputs |-> Ready]
  /\ inHeld' = Inputs
  /\ worker' = At("openingOutput")
  /\ UNCHANGED ownerVars

OutputOpens ==
  /\ worker.at = "openingOutput"
  /\ output' = TRUE
  /\ Answer(TRUE)
  /\ UNCHANGED <<script, sent, input, heldVars, queueVars, bufferVars, gateVars, faults,
                 historyVars>>

OutputFails ==
  /\ worker.at = "openingOutput"
  /\ Native(FALSE)
  /\ accepting' = FALSE
  /\ StartClosing(FALSE)
  /\ UNCHANGED <<deviceVars, heldVars, queueVars, bufferVars, enabled, context, ownerVars,
                 historyVars>>

OpenOnWorker ==
  \/ EnumerationFails \/ InputFails \/ InputHalfOpens \/ InputOpens
  \/ OutputOpens \/ OutputFails

-----------------------------------------------------------------------------
(* send_on_worker() *)

SendRest == <<deviceVars, inHeld, callback, queueVars, inputs, gateVars, delivered, silent>>

Sent(result) ==
  /\ sending' = [sending EXCEPT !.result = result]
  /\ Answer(result = "success")

(* A short message is handed over at once. *)
SendShort ==
  /\ worker.at = "idle" /\ call = "send"
  /\ \E ok \in Outcomes : Native(ok) /\ Answer(ok)
  /\ UNCHANGED <<SendRest, outHeld, outputs, sending>>

NewMessage == [id |-> sending.id + 1, cut |-> FALSE, result |-> "none"]

(* A long one is put in a header, prepared and submitted. *)
SendLong ==
  /\ worker.at = "idle" /\ call = "send"
  /\ sending' = NewMessage
  /\ outHeld' = outHeld \cup {NewMessage.id}
  /\ outputs' = Append(outputs, [id |-> NewMessage.id, header |-> Ready])
  /\ worker' = At("sending")
  /\ UNCHANGED <<SendRest, ownerVars, faults>>

(* One that cannot be is freed again, unless it cannot be unprepared either. *)
SendRefused ==
  /\ worker.at = "idle" /\ call = "send"
  /\ sending' = [NewMessage EXCEPT !.result = "failure"]
  /\ \E failures \in 1..2 :
       /\ faults + failures <= MaxFaults
       /\ faults' = faults + failures
       /\ outputs' = IF failures = 1 THEN outputs
                     ELSE Append(outputs, [id |-> NewMessage.id, header |-> Prepare(NewHeader)])
  /\ Answer(FALSE)
  /\ UNCHANGED <<SendRest, outHeld>>

(* Five seconds without an answer: the device is reset, which ends whatever  *)
(* it was sending, and the buffers are awaited again.                        *)
SendTimeout ==
  /\ worker.at = "sending" /\ ~AllOutputsReturned /\ completions = <<>>
  /\ \E ok \in Outcomes :
       /\ Native(ok)
       /\ IF ok
          THEN /\ sending' = [sending EXCEPT !.cut = (sending.id \in outHeld)]
               /\ worker' = At("sendReset")
               /\ UNCHANGED ownerVars
          ELSE Sent("failure")
  /\ UNCHANGED <<SendRest, outHeld, outputs>>

SendGivesUp ==
  /\ worker.at = "sendReset" /\ ~AllOutputsReturned /\ completions = <<>>
  /\ Sent("failure")
  /\ UNCHANGED <<SendRest, outHeld, outputs, faults>>

SendReturned ==
  /\ worker.at \in {"sending", "sendReset"} /\ AllOutputsReturned
  /\ \E ok \in Outcomes :
       /\ Native(ok)
       /\ outputs' = IF ok THEN Front(outputs) ELSE outputs
       /\ Sent(IF ok THEN "success" ELSE "failure")
  /\ UNCHANGED <<SendRest, outHeld>>

SendOnWorker ==
  SendShort \/ SendLong \/ SendRefused \/ SendTimeout \/ SendGivesUp \/ SendReturned

-----------------------------------------------------------------------------
(* The owner, who makes one call at a time. *)

MayCall == owner = "alive" /\ call = "none"

Calls(name) ==
  /\ MayCall
  /\ calls < Len(plan) /\ plan[calls + 1] = name
  /\ call' = name
  /\ calls' = calls + 1
  /\ UNCHANGED <<plan, owner>>

OwnerRest == <<deviceVars, heldVars, queueVars, bufferVars, accepting, worker, faults,
               silent, sending>>

CallOpen ==
  /\ Calls("open")
  /\ BeginOpen(lifecycle) # Refused
  /\ lifecycle' = BeginOpen(lifecycle)
  /\ delivered' = <<>>
  /\ UNCHANGED <<enabled, context, OwnerRest>>

CallClose ==
  /\ Calls("close")
  /\ BeginClose(lifecycle) = "closing"
  /\ lifecycle' = "closing"
  /\ UNCHANGED <<enabled, context, delivered, OwnerRest>>

CallSend ==
  /\ Calls("send")
  /\ lifecycle = "open"
  /\ UNCHANGED <<lifecycle, enabled, context, delivered, OwnerRest>>

(* ~WinmmTransport(): close(), and then ~Impl(), which closes again, ... *)
Destroy ==
  /\ MayCall
  /\ owner' = "closing"
  /\ IF BeginClose(lifecycle) = "closing"
     THEN lifecycle' = "closing" /\ call' = "close"
     ELSE UNCHANGED <<lifecycle, call>>
  /\ UNCHANGED <<plan, calls, enabled, context, delivered, OwnerRest>>

DestroyClose ==
  /\ owner = "closing" /\ call = "none"
  /\ owner' = "closingAgain"
  /\ call' = "finalClose"
  /\ UNCHANGED <<lifecycle, plan, calls, enabled, context, delivered, OwnerRest>>

(* ... detaches the callbacks, waits for their leases, ... *)
DestroyDetach ==
  /\ owner = "closingAgain" /\ call = "none"
  /\ owner' = "detaching"
  /\ enabled' = FALSE
  /\ context' = IF context = "none" THEN context ELSE "detached"
  /\ UNCHANGED <<call, lifecycle, plan, calls, delivered, OwnerRest>>

DestroyStop ==
  /\ owner = "detaching" /\ callback = NoCallback
  /\ owner' = "stopping"
  /\ UNCHANGED <<call, lifecycle, plan, calls, enabled, context, delivered, OwnerRest>>

(* ... and joins the worker, which ends when its queues are empty.  What a   *)
(* device that could not be closed may still use is kept for good, the rest  *)
(* freed.                                                                    *)
DestroyEnd ==
  /\ owner = "stopping" /\ Idle
  /\ callbacks = <<>> /\ completions = <<>>
  /\ owner' = "destroyed"
  /\ IF Closed
     THEN inputs' = NoBuffers /\ outputs' = <<>> /\ context' = "none"
     ELSE UNCHANGED <<bufferVars, context>>
  /\ UNCHANGED <<call, lifecycle, plan, calls, deviceVars, heldVars, queueVars, accepting, enabled,
                 worker, faults, historyVars>>

Owner == CallOpen \/ CallClose \/ CallSend \/ Destroy

Destructor == DestroyClose \/ DestroyDetach \/ DestroyStop \/ DestroyEnd

Worker ==
  Take \/ Process \/ ProcessCompletion \/ Close \/ OpenOnWorker \/ SendOnWorker

Callback == Queue \/ QueueThrows

Next == Driver \/ Callback \/ Worker \/ Owner \/ Destructor

Spec == Init /\ [][Next]_vars

(* The worker and the threads inside a callback or the destructor are        *)
(* scheduled.  The driver need not return anything.                          *)
FairSpec == Spec /\ WF_vars(Worker) /\ WF_vars(Callback) /\ WF_vars(Destructor)

-----------------------------------------------------------------------------
(* Properties. *)

(* The shape of the state: what is droppable fills at most the capacity, and *)
(* the events are in the order of their numbers.                             *)
TypeOK ==
  /\ [script |-> script, plan |-> plan] \in Scenarios
  /\ sent \in 0..Len(script) /\ calls \in 0..Len(plan)
  /\ input \in {"closed", "started", "stopped", "resetting"} /\ output \in BOOLEAN
  /\ inHeld \subseteq Inputs
  /\ callback.at \in {"out", "leased"}
  /\ context \in {"none", "attached", "detached"}
  /\ lifecycle \in LifecycleStates
  /\ inputs \in UNION {[S -> Headers] : S \in SUBSET Inputs}
  /\ \A i \in DOMAIN outputs : outputs[i].header \in Headers
  /\ Len(SelectSeq(callbacks, Droppable)) <= Capacity
  /\ \A i, j \in DOMAIN callbacks : i < j => callbacks[i].number < callbacks[j].number

(* "Adjacent-only overflow coalescing preserves ordered loss across later     *)
(* frame boundaries" (RISK_REGISTER R-003), and every other loss: the        *)
(* handler is given data in the order the device sent it, and where something *)
(* is missing between two pieces, a loss between them; unless all that is    *)
(* missing there was swallowed by a callback that threw, or found the driver *)
(* without a buffer.                                                         *)
LossSeparates ==
  \A i, j \in DOMAIN delivered :
    /\ i < j
    /\ delivered[i].type = "data" /\ delivered[j].type = "data"
    /\ \A k \in (i + 1)..(j - 1) : delivered[k].type = "loss"
    => /\ delivered[i].place < delivered[j].place
       /\ (\E p \in (delivered[i].place + 1)..(delivered[j].place - 1) : p \notin silent)
            => i + 1 < j

(* "A submitted header cannot be destroyed" (ARCHITECTURE.md): a buffer the   *)
(* driver holds, or has returned to a callback not yet processed, is alive   *)
(* and marked submitted, through failed closes and the destructor; and a     *)
(* closed transport has let go of everything.                                *)
OwnedUntilReturned ==
  /\ \A b \in inHeld : b \in DOMAIN inputs /\ inputs[b].submitted
  /\ \A i \in DOMAIN callbacks : Header(callbacks[i]) =>
       callbacks[i].buffer \in DOMAIN inputs /\ inputs[callbacks[i].buffer].submitted
  /\ \A id \in outHeld :
       \E i \in DOMAIN outputs : outputs[i].id = id /\ outputs[i].header.submitted
  /\ lifecycle = "closed" =>
       Closed /\ DOMAIN inputs = {} /\ outputs = <<>> /\ callback = NoCallback

(* "After any close() return (success or failure) no application handler is   *)
(* invoked" (ADR-0002): the handler is only called while the transport       *)
(* opens, is open or closes.                                                 *)
QuietAfterClose ==
  [][Len(delivered') > Len(delivered) => lifecycle \in {"opening", "open", "closing"}]_vars

(* Every call returns, and the destructor ends, whatever the driver keeps.   *)
CallsReturn ==
  /\ call # "none" ~> call = "none"
  /\ owner = "closing" ~> owner = "destroyed"

(* "Timeout/send failure/disconnect are observable explicit outcomes"         *)
(* (STAGE_3_BRIEF): a send that timed out while the device was still sending *)
(* its message, and so cut it off, is not reported a success.                *)
TimeoutReported == sending.cut => sending.result # "success"

=============================================================================
