------------------------ MODULE WinmmTransportProofs ------------------------
(***************************************************************************)
(* Handlers are quiet once close() has returned, failed or not; no buffer  *)
(* is freed or unmarked while the driver holds it; and a loss is marked at *)
(* the place of what is missing - for every capacity, set of buffers and   *)
(* scenario, and whatever native calls fail.                               *)
(*                                                                         *)
(* Delivery is switched off at the end of close(), but an open() that      *)
(* fails early leaves it on, and open() switches it on again before it     *)
(* knows that it will succeed.  The first invariant therefore says when    *)
(* nothing can be on its way to a handler (Still), and that a close that   *)
(* reports success has really closed both devices (Errors).                *)
(***************************************************************************)
EXTENDS WinmmTransport, SequenceTheorems, FiniteSetTheorems, TLAPS

(* No event is in a callback, in the queue or with the worker, and the       *)
(* driver makes no callback.                                                 *)
Still ==
  /\ input = "closed" /\ callback = NoCallback /\ callbacks = <<>>
  /\ worker.at # "processing"

(* Where the worker is, an event in its hands aside. *)
Place == IF worker.at = "processing" THEN worker.back.at ELSE worker.at

DrainPlaces == {"draining", "waitingInput", "drainingAgain", "drainingLast"}

ClosePlaces ==
  DrainPlaces \cup {"resettingInput", "closingInput", "closingOutput", "waitingOutput",
                    "disabling", "detaching"}

(* The owner's call, its life cycle and the worker agree. *)
Calling ==
  /\ worker.at = "processing" => worker.back.at \in DrainPlaces \cup {"idle"}
  /\ Place \in ClosePlaces => call \in {"open", "close", "finalClose"}
  /\ Place \in {"sending", "sendReset"} => call = "send"
  /\ Place = "openingOutput" => call = "open"
  /\ call = "open" => lifecycle = "opening"
  /\ call = "close" => lifecycle = "closing"
  /\ call = "send" => lifecycle = "open"
  /\ call \in {"none", "finalClose"} => lifecycle \in {"closed", "open", "failed"}
  /\ call \in {"none", "open", "close", "send", "finalClose"}
  /\ owner # "alive" => lifecycle \in {"closing", "closed", "failed"}
  /\ call = "finalClose" => owner # "alive"
  /\ owner \in {"detaching", "stopping", "destroyed"} => call = "none"

(* What the later steps of a close may rely on. *)
Errors ==
  /\ worker.at = "resettingInput" => input # "closed"
  /\ worker.at \in {"closingOutput", "waitingOutput", "disabling"} /\ input # "closed"
       => worker.error
  /\ worker.at = "disabling" /\ output => worker.error
  /\ Place \in {"detaching", "drainingLast"} => input = "closed" /\ ~enabled
  /\ Place = "drainingLast" => callback = NoCallback

Quiet ==
  /\ lifecycle = "closed" => Still
  /\ lifecycle = "failed" /\ enabled => Still
  /\ lifecycle = "opening" /\ Place = "idle" => Still

IsHistory(d) == \E S : d \in Seq(S)

IInv == Calling /\ Errors /\ Quiet /\ IsHistory(delivered)

LEMMA HistoryAppend ==
  ASSUME NEW d, IsHistory(d), NEW e
  PROVE  IsHistory(Append(d, e))
<1>1. PICK S : d \in Seq(S)
  BY DEF IsHistory
<1> DEFINE T == S \cup {e}
<1>2. d \in Seq(T) /\ e \in T
  BY <1>1
<1> HIDE DEF T
<1>3. Append(d, e) \in Seq(T)
  BY <1>2
<1> QED BY <1>3 DEF IsHistory

LEMMA HistoryLength ==
  ASSUME NEW d, IsHistory(d)
  PROVE  Len(d) \in Nat
BY DEF IsHistory

(* Nothing is on its way to begin with. *)
LEMMA InitIInv == Init => IInv
<1> SUFFICES ASSUME Init PROVE IInv
  OBVIOUS
<1> USE DEF Init, At, NoCallback
<1>1. Calling
  BY DEF Calling, Place, ClosePlaces, DrainPlaces
<1>2. Errors
  BY DEF Errors, Place
<1>3. Quiet
  BY DEF Quiet, Still
<1>4. delivered \in Seq({})
  OBVIOUS
<1> QED BY <1>1, <1>2, <1>3, <1>4 DEF IInv, IsHistory

-----------------------------------------------------------------------------
(* The driver and its callbacks, which a closed device does not make. *)

LEMMA DriverIInv ==
  ASSUME IInv, Driver \/ Callback
  PROVE  IInv'
<1> USE DEF IInv, deviceVars, heldVars, queueVars, bufferVars, gateVars, ownerVars,
            historyVars, DriverRest
<1>1. CASE ReceiveShort
  <2>1. worker' = worker /\ input' = input /\ input = "started" /\ output' = output
    BY <1>1 DEF ReceiveShort
  <2>2. UNCHANGED <<enabled, call, owner, lifecycle, callbacks, delivered>>
    BY <1>1 DEF ReceiveShort
  <2>3. Place' = Place
    BY <2>1 DEF Place
  <2>4. Calling'
    BY <2>1, <2>2, <2>3 DEF Calling
  <2> QED BY <2>1, <2>2, <2>3, <2>4 DEF Errors, Quiet, Still
<1>2. CASE ReceiveLong
  <2>1. worker' = worker /\ input' = input /\ input # "closed" /\ output' = output
    BY <1>2 DEF ReceiveLong
  <2>2. UNCHANGED <<enabled, call, owner, lifecycle, callbacks, delivered>>
    BY <1>2 DEF ReceiveLong
  <2>3. Place' = Place
    BY <2>1 DEF Place
  <2>4. Calling'
    BY <2>1, <2>2, <2>3 DEF Calling
  <2> QED BY <2>1, <2>2, <2>3, <2>4 DEF Errors, Quiet, Still
<1>3. CASE ReturnEmpty
  <2>1. worker' = worker /\ input' = input /\ input # "closed" /\ output' = output
    BY <1>3 DEF ReturnEmpty
  <2>2. UNCHANGED <<enabled, call, owner, lifecycle, callbacks, delivered>>
    BY <1>3 DEF ReturnEmpty
  <2>3. Place' = Place
    BY <2>1 DEF Place
  <2>4. Calling'
    BY <2>1, <2>2, <2>3 DEF Calling
  <2> QED BY <2>1, <2>2, <2>3, <2>4 DEF Errors, Quiet, Still
<1>4. CASE Complete
  <2>1. UNCHANGED <<worker, input, output, callback, callbacks>>
    BY <1>4 DEF Complete
  <2>2. UNCHANGED <<enabled, call, owner, lifecycle, delivered>>
    BY <1>4 DEF Complete
  <2>3. Place' = Place
    BY <2>1 DEF Place
  <2>4. Calling'
    BY <2>1, <2>2, <2>3 DEF Calling
  <2> QED BY <2>1, <2>2, <2>3, <2>4 DEF Errors, Quiet, Still
<1>5. CASE Queue
  <2>1. worker' = worker /\ UNCHANGED <<input, output>>
    BY <1>5 DEF Queue
  <2>2. UNCHANGED <<enabled, call, owner, lifecycle, delivered>>
    BY <1>5 DEF Queue
  <2>3. callback # NoCallback /\ callback' = NoCallback
    BY <1>5 DEF Queue, NoCallback
  <2>4. Place' = Place
    BY <2>1 DEF Place
  <2>5. Calling'
    BY <2>1, <2>2, <2>4 DEF Calling
  <2> QED BY <2>1, <2>2, <2>3, <2>4, <2>5 DEF Errors, Quiet, Still
<1>6. CASE DropLong \/ CompleteThrows
  <2>1. UNCHANGED <<worker, input, output, callback, callbacks>>
    BY <1>6 DEF DropLong, CompleteThrows
  <2>2. UNCHANGED <<enabled, call, owner, lifecycle, delivered>>
    BY <1>6 DEF DropLong, CompleteThrows
  <2>3. Place' = Place
    BY <2>1 DEF Place
  <2>4. Calling'
    BY <2>1, <2>2, <2>3 DEF Calling
  <2> QED BY <2>1, <2>2, <2>3, <2>4 DEF Errors, Quiet, Still
<1>7. CASE QueueThrows
  <2>1. worker' = worker /\ UNCHANGED <<input, output, callbacks>>
    BY <1>7 DEF QueueThrows
  <2>2. UNCHANGED <<enabled, call, owner, lifecycle, delivered>>
    BY <1>7 DEF QueueThrows
  <2>3. callback # NoCallback /\ callback' = NoCallback
    BY <1>7 DEF QueueThrows, NoCallback
  <2>4. Place' = Place
    BY <2>1 DEF Place
  <2>5. Calling'
    BY <2>1, <2>2, <2>4 DEF Calling
  <2> QED BY <2>1, <2>2, <2>3, <2>4, <2>5 DEF Errors, Quiet, Still
<1> QED BY <1>1, <1>2, <1>3, <1>4, <1>5, <1>6, <1>7 DEF Driver, Callback

-----------------------------------------------------------------------------
(* What the worker does with events and completions wherever it is. *)

LEMMA EventIInv ==
  ASSUME IInv, Take \/ Process \/ ProcessCompletion
  PROVE  IInv'
<1> USE DEF IInv, deviceVars, heldVars, queueVars, bufferVars, gateVars, ownerVars,
            historyVars
<1>1. CASE Take
  <2>1. worker'.at = "processing" /\ worker'.back = worker /\ callbacks # <<>>
    BY <1>1 DEF Take
  <2>2. UNCHANGED <<enabled, call, owner, lifecycle, delivered, input, output, callback>>
    BY <1>1 DEF Take
  <2>3. worker.at \in DrainPlaces \cup {"idle"}
    BY <1>1 DEF Take, TakesEvents, Idle, DrainPlaces
  <2>4. Place' = Place
    BY <2>1, <2>3 DEF Place, DrainPlaces
  <2>5. ~Still
    BY <2>1 DEF Still
  <2>6. Calling'
    BY <2>1, <2>2, <2>3, <2>4 DEF Calling
  <2>7. Errors'
    BY <2>1, <2>2, <2>4 DEF Errors
  <2>8. Quiet'
    BY <2>2, <2>4, <2>5 DEF Quiet
  <2> QED BY <2>2, <2>6, <2>7, <2>8
<1>2. CASE Process
  <2>1. worker.at = "processing" /\ worker' = worker.back
    BY <1>2 DEF Process
  <2>2. UNCHANGED <<enabled, call, owner, lifecycle, input, output, callback>>
    BY <1>2 DEF Process
  <2>3. worker.back.at \in DrainPlaces \cup {"idle"}
    BY <2>1 DEF Calling
  <2>4. Place' = Place
    BY <2>1, <2>3 DEF Place, DrainPlaces
  <2>5. ~Still
    BY <2>1 DEF Still
  <2>6. Calling'
    BY <2>1, <2>2, <2>3, <2>4 DEF Calling, DrainPlaces
  <2>7. Errors'
    BY <2>1, <2>2, <2>3, <2>4 DEF Errors, DrainPlaces
  <2>8. Quiet'
    BY <2>2, <2>4, <2>5 DEF Quiet
  <2>9. IsHistory(delivered)'
    BY <1>2, HistoryAppend DEF Process, Deliver
  <2> QED BY <2>6, <2>7, <2>8, <2>9
<1>3. CASE ProcessCompletion
  <2>1. UNCHANGED <<worker, input, output, callback, callbacks>>
    BY <1>3 DEF ProcessCompletion
  <2>2. UNCHANGED <<enabled, call, owner, lifecycle, delivered>>
    BY <1>3 DEF ProcessCompletion
  <2>3. Place' = Place
    BY <2>1 DEF Place
  <2>4. Calling'
    BY <2>1, <2>2, <2>3 DEF Calling
  <2> QED BY <2>1, <2>2, <2>3, <2>4 DEF Errors, Quiet, Still
<1> QED BY <1>1, <1>2, <1>3

-----------------------------------------------------------------------------
(* The steps of a close. *)

LEMMA GoesOn ==
  ASSUME NEW place, NEW error, GoOn(place, error)
  PROVE  /\ worker'.at = place
         /\ worker.error \/ error => worker'.error
         /\ UNCHANGED <<call, owner, lifecycle>>
<1> DEFINE e == worker.error \/ error
<1>1. worker' = [at |-> place, error |-> e] /\ UNCHANGED <<call, owner, lifecycle>>
  BY DEF GoOn, Closing, ownerVars
<1>2. worker.error \/ error => e
  OBVIOUS
<1> HIDE DEF e
<1>3. worker'.at = place /\ worker'.error = e
  BY <1>1
<1>4. e => worker'.error
  BY <1>3, Zenon
<1> QED BY <1>1, <1>2, <1>3, <1>4, Zenon

LEMMA CloseIInv ==
  ASSUME IInv, Close
  PROVE  IInv'
<1> USE DEF IInv, deviceVars, heldVars, queueVars, bufferVars, gateVars, ownerVars,
            historyVars, CloseRest, Closing, GoOn, Calling, Errors, Quiet, Still, Place,
            ClosePlaces, DrainPlaces
<1>1. CASE CloseBegin
  BY <1>1 DEF CloseBegin, StartClosing
<1>2. CASE StopInput
  BY <1>2 DEF StopInput
<1>3. CASE ResetInput
  BY <1>3 DEF ResetInput
<1>4. CASE InputsReturned
  BY <1>4 DEF InputsReturned
<1>5. CASE InputTimeout
  BY <1>5 DEF InputTimeout
<1>6. CASE UnprepareInputs
  <2>1. worker.at = "drainingAgain" /\ worker'.at = "closingInput"
    BY <1>6 DEF UnprepareInputs
  <2>2. UNCHANGED <<input, output, callback, callbacks, enabled, call, owner, lifecycle,
                    delivered>>
    BY <1>6 DEF UnprepareInputs
  <2> QED BY <2>1, <2>2
<1>7. CASE CloseInput
  <2>1. UNCHANGED <<output, callback, callbacks, enabled, delivered>>
    BY <1>7 DEF CloseInput
  <2>2. worker.at = "closingInput"
    BY <1>7 DEF CloseInput
  <2>3. CASE worker.error
    <3>1. GoOn("closingOutput", FALSE) /\ input' = input
      BY <1>7, <2>3 DEF CloseInput
    <3>2. worker'.at = "closingOutput" /\ worker'.error
      BY <2>3, <3>1, GoesOn, Zenon
    <3> QED BY <2>1, <2>2, <3>1, <3>2
  <2>4. CASE ~worker.error
    <3>1. PICK ok \in Outcomes :
            input' = (IF ok THEN "closed" ELSE input) /\ GoOn("closingOutput", ~ok)
      BY <1>7, <2>4 DEF CloseInput, CloseInputHandle
    <3>2. worker'.at = "closingOutput" /\ (~ok => worker'.error)
      BY <3>1, GoesOn, Zenon
    <3>3. UNCHANGED <<call, owner, lifecycle>>
      BY <3>1
    <3> HIDE DEF GoOn
    <3> QED BY <2>1, <2>2, <3>1, <3>2, <3>3
  <2> QED BY <2>3, <2>4
<1>8. CASE ResetOutput
  <2>1. UNCHANGED <<input, output, callback, callbacks, enabled, delivered>>
    BY <1>8 DEF ResetOutput
  <2>2. PICK place, error :
          /\ worker.at = "closingOutput" /\ GoOn(place, error)
          /\ place \in {"disabling", "waitingOutput"}
          /\ output /\ place = "disabling" => error
    <3> HIDE DEF GoOn
    <3>1. CASE ~output
      BY <1>8, <3>1 DEF ResetOutput
    <3>2. CASE output
      <4>1. worker.at = "closingOutput"
        BY <1>8 DEF ResetOutput
      <4>2. GoOn("waitingOutput", ~TRUE) \/ GoOn("disabling", ~FALSE)
        BY <1>8, <3>2, Zenon DEF ResetOutput, Outcomes
      <4>3. "waitingOutput" # "disabling"
        OBVIOUS
      <4> QED BY <4>1, <4>2, <4>3, Zenon
    <3> QED BY <3>1, <3>2
  <2>3. worker'.at = place /\ (worker.error \/ error => worker'.error)
    BY <2>2, GoesOn, Zenon
  <2>4. UNCHANGED <<call, owner, lifecycle>>
    BY <2>2
  <2> HIDE DEF GoOn
  <2> QED BY <2>1, <2>2, <2>3, <2>4
<1>9. CASE OutputTimeout
  BY <1>9 DEF OutputTimeout
<1>10. CASE CloseOutput
  <2>1. UNCHANGED <<input, callback, callbacks, enabled, delivered>>
    BY <1>10 DEF CloseOutput
  <2>2. PICK error :
          /\ worker.at = "waitingOutput" /\ GoOn("disabling", error)
          /\ output' => error
    <3> HIDE DEF GoOn
    <3> QED BY <1>10, Zenon DEF CloseOutput
  <2>3. worker'.at = "disabling" /\ (worker.error \/ error => worker'.error)
    BY <2>2, GoesOn, Zenon
  <2>4. UNCHANGED <<call, owner, lifecycle>>
    BY <2>2
  <2> HIDE DEF GoOn
  <2> QED BY <2>1, <2>2, <2>3, <2>4
<1>11. CASE Disable
  <2>1. CASE Closed
    BY <1>11, <2>1 DEF Disable, Closed
  <2>2. CASE ~Closed
    <3>1. worker.error \/ (input = "closed" /\ ~output)
      BY <1>11 DEF Disable
    <3>2. worker' = At("idle") /\ call' = "none" /\ ~enabled' /\ worker.error
      BY <1>11, <2>2, <3>1 DEF Disable, EndClosing, Answer, Closed
    <3>3. lifecycle' = IF call \in {"open", "close"} THEN "failed" ELSE lifecycle
      BY <1>11, <2>2, <3>2 DEF Disable, EndClosing, Answer, Fail
    <3>4. UNCHANGED <<owner, input, output, callback, callbacks, delivered>>
      BY <1>11, <2>2 DEF Disable, EndClosing, Answer
    <3> QED BY <1>11, <3>2, <3>3, <3>4 DEF Disable, At
  <2> QED BY <2>1, <2>2
<1>12. CASE Detached
  BY <1>12 DEF Detached
<1>13. CASE Release
  <2>1. worker' = At("idle") /\ call' = "none" /\ callbacks = <<>>
    BY <1>13 DEF Release, EndClosing, Answer
  <2>2. lifecycle' = CASE call = "open"  -> "failed"
                       [] call = "close" -> IF worker.error THEN "failed" ELSE "closed"
                       [] OTHER          -> lifecycle
    BY <1>13 DEF Release, EndClosing, Answer, Fail, CompleteClose, RequireAndSet
  <2>3. UNCHANGED <<owner, input, output, callback, callbacks, enabled, delivered>>
    BY <1>13 DEF Release, EndClosing, Answer
  <2> QED BY <1>13, <2>1, <2>2, <2>3 DEF Release, At
<1> QED
  BY <1>1, <1>2, <1>3, <1>4, <1>5, <1>6, <1>7, <1>8, <1>9, <1>10, <1>11, <1>12, <1>13
  DEF Close

-----------------------------------------------------------------------------
(* Opening and sending. *)

LEMMA OpenIInv ==
  ASSUME IInv, OpenOnWorker
  PROVE  IInv'
<1> USE DEF IInv, deviceVars, heldVars, queueVars, bufferVars, gateVars, ownerVars,
            historyVars, Calling, Errors, Quiet, Still, Place, ClosePlaces, DrainPlaces, At
<1>1. CASE EnumerationFails
  BY <1>1 DEF EnumerationFails, Opening, Answer, Fail
<1>2. CASE InputFails
  BY <1>2 DEF InputFails, Opening, Answer, Fail
<1>3. CASE InputHalfOpens
  <2>1. UNCHANGED <<output, callback, callbacks, call, owner, lifecycle, delivered>>
    BY <1>3 DEF InputHalfOpens, Opening
  <2>2. call = "open" /\ worker'.at = "draining"
    BY <1>3 DEF InputHalfOpens, Opening, StartClosing, Closing
  <2> QED BY <2>1, <2>2
<1>4. CASE InputOpens
  BY <1>4 DEF InputOpens, Opening
<1>5. CASE OutputOpens
  BY <1>5 DEF OutputOpens, Answer, CompleteOpen, RequireAndSet
<1>6. CASE OutputFails
  BY <1>6 DEF OutputFails, StartClosing, Closing
<1> QED BY <1>1, <1>2, <1>3, <1>4, <1>5, <1>6 DEF OpenOnWorker

LEMMA SendIInv ==
  ASSUME IInv, SendOnWorker
  PROVE  IInv'
<1> USE DEF IInv, deviceVars, heldVars, queueVars, bufferVars, gateVars, ownerVars,
            historyVars, SendRest, At
<1>1. UNCHANGED <<input, output, callback, callbacks, enabled, owner, delivered>>
  BY DEF SendOnWorker, SendShort, SendLong, SendRefused, SendTimeout, SendGivesUp,
         SendReturned, Sent, Answer
<1>2. worker.at \in {"idle", "sending", "sendReset"} /\ call = "send"
  BY DEF SendOnWorker, SendShort, SendLong, SendRefused, SendTimeout, SendGivesUp,
         SendReturned, Calling, Place
<1>3. \/ worker'.at \in {"sending", "sendReset"} /\ call' = call
      \/ worker'.at = "idle" /\ call' = "none"
  BY DEF SendOnWorker, SendShort, SendLong, SendRefused, SendTimeout, SendGivesUp,
         SendReturned, Sent, Answer
<1>4. lifecycle = "open" /\ lifecycle' = lifecycle
  BY <1>2
  DEF SendOnWorker, SendShort, SendLong, SendRefused, SendTimeout, SendGivesUp,
      SendReturned, Sent, Answer, Calling
<1> QED
  BY <1>1, <1>2, <1>3, <1>4
  DEF Calling, Errors, Quiet, Still, Place, ClosePlaces, DrainPlaces

-----------------------------------------------------------------------------
(* The owner and the destructor. *)

LEMMA OwnerIInv ==
  ASSUME IInv, Owner \/ Destructor
  PROVE  IInv'
<1> USE DEF IInv, deviceVars, heldVars, queueVars, bufferVars, gateVars, ownerVars,
            historyVars, OwnerRest, Calls, MayCall
<1>1. UNCHANGED <<input, output, callback, callbacks, worker>>
  BY DEF Owner, Destructor, CallOpen, CallClose, CallSend, Destroy, DestroyClose,
         DestroyDetach, DestroyStop, DestroyEnd
<1>2. Place' = Place /\ Still' = Still
  BY <1>1 DEF Place, Still
<1>3. call = "none" /\ lifecycle \in {"closed", "open", "failed"}
  <2>1. CASE Owner
    BY <2>1 DEF Owner, CallOpen, CallClose, CallSend, Destroy, Calling
  <2>2. CASE DestroyClose \/ DestroyDetach
    BY <2>2 DEF DestroyClose, DestroyDetach, Calling
  <2>3. CASE DestroyStop
    BY <2>3 DEF DestroyStop, Calling
  <2>4. CASE DestroyEnd
    BY <2>4 DEF DestroyEnd, Idle, Calling
  <2> QED BY <2>1, <2>2, <2>3, <2>4 DEF Destructor
<1>4. IsHistory(delivered)'
  <2>1. delivered' = delivered \/ delivered' = <<>>
    BY DEF Owner, Destructor, CallOpen, CallClose, CallSend, Destroy, DestroyClose,
           DestroyDetach, DestroyStop, DestroyEnd
  <2>2. <<>> \in Seq({})
    OBVIOUS
  <2> QED BY <2>1, <2>2 DEF IsHistory
<1>5. enabled' => enabled
  BY DEF Owner, Destructor, CallOpen, CallClose, CallSend, Destroy, DestroyClose,
         DestroyDetach, DestroyStop, DestroyEnd
<1>6. \/ /\ call' = "open" /\ owner' = "alive"
         /\ lifecycle = "closed" /\ lifecycle' = "opening"
      \/ call' = "close" /\ lifecycle' = "closing"
      \/ call' = "send" /\ owner' = "alive" /\ lifecycle' = "open" /\ lifecycle = "open"
      \/ /\ call' \in {"none", "finalClose"} /\ lifecycle' = lifecycle
         /\ owner # "alive" \/ lifecycle = "closed"
  BY <1>3
  DEF Owner, Destructor, CallOpen, CallClose, CallSend, Destroy, DestroyClose,
      DestroyDetach, DestroyStop, DestroyEnd, BeginOpen, BeginClose, RequireAndSet, Refused
<1>7. owner' \in {"detaching", "stopping", "destroyed"} => call' = "none"
  BY <1>3
  DEF Owner, Destructor, CallOpen, CallClose, CallSend, Destroy, DestroyClose,
      DestroyDetach, DestroyStop, DestroyEnd
<1>8. Calling'
  <2>1. call' = "finalClose" => owner' # "alive"
    BY <1>3
    DEF Owner, Destructor, CallOpen, CallClose, CallSend, Destroy, DestroyClose,
        DestroyDetach, DestroyStop, DestroyEnd
  <2> QED BY <1>1, <1>2, <1>3, <1>6, <1>7, <2>1 DEF Calling, ClosePlaces
<1>9. Errors'
  BY <1>1, <1>2, <1>5 DEF Errors
<1>10. Quiet'
  BY <1>2, <1>5, <1>6 DEF Quiet
<1> QED BY <1>4, <1>8, <1>9, <1>10

-----------------------------------------------------------------------------
(* The invariant, and what it is for. *)

LEMMA NextIInv == IInv /\ [Next]_vars => IInv'
<1> SUFFICES ASSUME IInv, [Next]_vars PROVE IInv'
  OBVIOUS
<1>1. CASE Next
  BY <1>1, DriverIInv, EventIInv, CloseIInv, OpenIInv, SendIInv, OwnerIInv
  DEF Next, Worker
<1>2. CASE UNCHANGED vars
  BY <1>2
  DEF vars, deviceVars, heldVars, queueVars, bufferVars, gateVars, ownerVars, historyVars,
      IInv, Calling, Errors, Quiet, Still, Place
<1> QED BY <1>1, <1>2

(* Whatever fails, a transport that is closed, or whose delivery an open()   *)
(* that failed left on, has nothing on its way to a handler.                 *)
THEOREM Inductive == Spec => []IInv
<1> QED BY InitIInv, NextIInv, PTL DEF Spec

(* Only Process gives the handler anything.                                  *)
LEMMA OnlyProcess ==
  ASSUME IInv, [Next]_vars, Len(delivered') > Len(delivered)
  PROVE  Process /\ enabled
<1>1. Len(delivered) \in Nat /\ Len(<<>>) = 0
  BY HistoryLength DEF IInv
<1>2. delivered' # delivered /\ delivered' # <<>>
  BY <1>1
<1> USE DEF deviceVars, heldVars, queueVars, bufferVars, gateVars, ownerVars, historyVars
<1>3. CASE Process
  BY <1>2, <1>3 DEF Process, Deliver
<1>4. CASE Driver \/ Callback
  BY <1>2, <1>4
  DEF Driver, Callback, Queue, QueueThrows, ReceiveShort, ReceiveLong, DropLong, ReturnEmpty,
      Complete, CompleteThrows, DriverRest
<1>5. CASE Take \/ ProcessCompletion
  BY <1>2, <1>5 DEF Take, ProcessCompletion
<1>6. CASE Close
  BY <1>2, <1>6
  DEF Close, CloseBegin, StopInput, ResetInput, InputsReturned, InputTimeout,
      UnprepareInputs, CloseInput, ResetOutput, OutputTimeout, CloseOutput, Disable,
      Detached, Release, CloseRest
<1>7. CASE OpenOnWorker
  BY <1>2, <1>7
  DEF OpenOnWorker, EnumerationFails, InputFails, InputHalfOpens, InputOpens, OutputOpens,
      OutputFails, Opening
<1>8. CASE SendOnWorker
  BY <1>2, <1>8
  DEF SendOnWorker, SendShort, SendLong, SendRefused, SendTimeout, SendGivesUp,
      SendReturned, SendRest
<1>9. CASE Owner \/ Destructor
  BY <1>2, <1>9
  DEF Owner, Destructor, CallOpen, CallClose, CallSend, Destroy, DestroyClose,
      DestroyDetach, DestroyStop, DestroyEnd
<1>10. CASE UNCHANGED vars
  BY <1>2, <1>10 DEF vars
<1> QED
  BY <1>3, <1>4, <1>5, <1>6, <1>7, <1>8, <1>9, <1>10 DEF Next, Worker

(* "After any close() return (success or failure) no application handler is   *)
(* invoked" (ADR-0002), for every queue, set of buffers and scenario.         *)
THEOREM QuietOnceClosed == Spec => QuietAfterClose
<1> DEFINE Call == Len(delivered') > Len(delivered) => lifecycle \in {"opening", "open", "closing"}
<1>1. IInv /\ [Next]_vars => Call
  <2> SUFFICES ASSUME IInv, [Next]_vars, Len(delivered') > Len(delivered)
               PROVE  lifecycle \in {"opening", "open", "closing"}
    OBVIOUS
  <2>1. enabled /\ worker.at = "processing"
    BY OnlyProcess DEF Process
  <2>2. lifecycle \in {"closed", "opening", "open", "closing", "failed"}
    BY DEF IInv, Calling
  <2> QED BY <2>1, <2>2 DEF IInv, Quiet, Still
<1> QED BY <1>1, Inductive, PTL DEF Spec, QuietAfterClose

-----------------------------------------------------------------------------
(* Who has which buffer.  A buffer that was submitted has one holder: the    *)
(* driver, a callback, an event in the queue or the one the worker has in    *)
(* hand; or it was returned when nobody listened, and stays submitted.       *)

Leased == callback.at = "leased"
InHand == worker.at = "processing"

AnyKind  == {"short", "invalid", "shortError", "long", "longError", "empty", "overflow",
             "requeueFailed"}
AnyEvent == [number : Nat, kind : AnyKind, place : Nat, buffer : Inputs \cup {NoBuffer},
             accepted : BOOLEAN]

Typed ==
  /\ script \in Seq(Kinds) /\ sent \in Nat
  /\ number \in Nat
  /\ accepting \in BOOLEAN
  /\ inHeld \subseteq Inputs
  /\ callbacks \in Seq(AnyEvent)
  /\ Leased => callback.event \in AnyEvent
  /\ InHand => worker.event \in AnyEvent
  /\ DOMAIN inputs \subseteq Inputs /\ inputs \in [DOMAIN inputs -> Headers]

OutItem == [id : Nat, header : Headers]

TypedOut ==
  /\ outHeld \subseteq Nat
  /\ outputs \in Seq(OutItem)
  /\ completions \in Seq(Nat)
  /\ sending = [id |-> sending.id, cut |-> sending.cut, result |-> sending.result]
  /\ sending.id \in Nat

Lent(b)     == b \in DOMAIN inputs /\ inputs[b].submitted
Held(event) == Header(event) => Lent(event.buffer) /\ event.buffer \notin inHeld
Apart(e, f) == Header(e) => e.buffer # f.buffer

Owned ==
  /\ \A b \in inHeld : Lent(b)
  /\ Leased => Held(callback.event)
  /\ InHand => Held(worker.event)
  /\ InHand /\ Leased => Apart(callback.event, worker.event)
  /\ \A i \in 1..Len(callbacks) :
       /\ Held(callbacks[i])
       /\ Leased => Apart(callbacks[i], callback.event)
       /\ InHand => Apart(callbacks[i], worker.event)
       /\ \A j \in 1..Len(callbacks) : i # j => Apart(callbacks[i], callbacks[j])

(* A long message has one of its own: an id that no other ever had. *)
OutputsOwned ==
  /\ \A id \in outHeld :
       /\ id <= sending.id
       /\ \E i \in 1..Len(outputs) : outputs[i].id = id /\ outputs[i].header.submitted
  /\ \A i \in 1..Len(completions) : completions[i] <= sending.id /\ completions[i] \notin outHeld

(* What a close has let go of, step by step. *)
LetGo ==
  /\ Place \in ClosePlaces => ~accepting
  /\ Place \in {"drainingAgain", "closingInput"} => AllInputsReturned
  /\ input = "closed" => DOMAIN inputs = {}
  /\ ~output => outputs = <<>>
  /\ lifecycle = "open" \/ Place = "waitingOutput" => output
  /\ Place \in {"detaching", "drainingLast"} \/ lifecycle = "closed" => ~output

OParts == Typed /\ TypedOut /\ Owned /\ OutputsOwned /\ LetGo

OInv == IInv /\ OParts

(* Where an event is inserted, and what moves. *)
LEMMA InsertPlaces ==
  ASSUME NEW S, NEW q \in Seq(S), NEW e \in S
  PROVE  LET p == Cardinality({i \in DOMAIN q : q[i].number < e.number}) + 1
             r == Insert(e, q) IN
         /\ p \in 1..(Len(q) + 1)
         /\ r \in Seq(S) /\ Len(r) = Len(q) + 1
         /\ \A i \in 1..Len(r) : r[i] = IF i < p THEN q[i] ELSE IF i = p THEN e ELSE q[i - 1]
<1> DEFINE A == {i \in DOMAIN q : q[i].number < e.number}
           k == Cardinality(A)
           n == Len(q)
           u == SubSeq(q, 1, k)
           v == SubSeq(q, k + 1, n)
<1>1. k \in 0..n
  <2>1. IsFiniteSet(1..n) /\ Cardinality(1..n) = n
    <3>1. n \in Nat
      OBVIOUS
    <3> QED BY <3>1, FS_Interval
  <2>2. A \subseteq 1..n
    OBVIOUS
  <2> QED BY <2>1, <2>2, FS_Subset, FS_CardinalityType
<1> HIDE DEF A
<1>2. Insert(e, q) = InsertAt(q, k + 1, e)
  BY DEF Insert, A
<1> HIDE DEF k
<1>3. InsertAt(q, k + 1, e) = u \o <<e>> \o v
  <2>1. (k + 1) - 1 = k
    BY <1>1
  <2> QED BY <2>1 DEF InsertAt
<1>4. u \in Seq(S) /\ Len(u) = k /\ \A i \in 1..k : u[i] = q[i]
  BY <1>1, SubSeqProperties
<1>5. v \in Seq(S) /\ Len(v) = n - k /\ \A i \in 1..(n - k) : v[i] = q[k + i]
  <2>1. k + 1 \in 1..(n + 1) /\ n \in k..n
    BY <1>1
  <2> QED BY <1>1, <2>1, SubSeqProperties
<1> HIDE DEF u, v
<1> DEFINE w == u \o <<e>>
<1>6. /\ w \in Seq(S) /\ Len(w) = k + 1
      /\ \A i \in 1..(k + 1) : w[i] = IF i <= k THEN u[i] ELSE e
  BY <1>1, <1>4, ConcatProperties
<1> DEFINE r == w \o v
<1> HIDE DEF w
<1>7. /\ r \in Seq(S) /\ Len(r) = n + 1
      /\ \A i \in 1..(n + 1) : r[i] = IF i <= k + 1 THEN w[i] ELSE v[i - (k + 1)]
  <2>1. Len(w) + Len(v) = n + 1
    BY <1>1, <1>5, <1>6
  <2>2. /\ w \o v \in Seq(S) /\ Len(w \o v) = Len(w) + Len(v)
        /\ \A i \in 1..(Len(w) + Len(v)) :
             (w \o v)[i] = IF i <= Len(w) THEN w[i] ELSE v[i - Len(w)]
    BY <1>5, <1>6, ConcatProperties
  <2> QED BY <1>6, <2>1, <2>2
<1> HIDE DEF r
<1>8. \A i \in 1..(n + 1) : r[i] = IF i < k + 1 THEN q[i] ELSE IF i = k + 1 THEN e ELSE q[i - 1]
  <2> TAKE i \in 1..(n + 1)
  <2>1. CASE i <= k
    BY <1>1, <1>4, <1>6, <1>7, <2>1
  <2>2. CASE i = k + 1
    BY <1>1, <1>6, <1>7, <2>2
  <2>3. CASE i > k + 1
    <3>1. i - (k + 1) \in 1..(n - k) /\ k + (i - (k + 1)) = i - 1
      BY <1>1, <2>3
    <3>2. r[i] = v[i - (k + 1)]
      BY <1>1, <1>7, <2>3
    <3>3. v[i - (k + 1)] = q[k + (i - (k + 1))]
      BY <1>5, <3>1
    <3>4. ~(i < k + 1) /\ i # k + 1
      BY <1>1, <2>3
    <3> QED BY <3>1, <3>2, <3>3, <3>4
  <2>4. i <= k \/ i = k + 1 \/ i > k + 1
    BY <1>1
  <2> QED BY <2>1, <2>2, <2>3, <2>4
<1>9. Insert(e, q) = r /\ k + 1 \in 1..(n + 1)
  BY <1>1, <1>2, <1>3 DEF r, w
<1>10. Cardinality({i \in DOMAIN q : q[i].number < e.number}) = k
  BY DEF k, A
<1> QED BY <1>7, <1>8, <1>9, <1>10

(* An insertion brings the event, and shares no buffer if that does not.     *)
LEMMA InsertApart ==
  ASSUME NEW S, NEW q \in Seq(S), NEW e \in S,
         \A i, j \in 1..Len(q) : i # j => Apart(q[i], q[j]),
         \A i \in 1..Len(q) : Apart(q[i], e)
  PROVE  LET r == Insert(e, q) IN
         /\ r \in Seq(S)
         /\ \A i \in 1..Len(r) : r[i] = e \/ \E j \in 1..Len(q) : r[i] = q[j]
         /\ \A i, j \in 1..Len(r) : i # j => Apart(r[i], r[j])
<1> DEFINE r == Insert(e, q)
<1>1. PICK p \in 1..(Len(q) + 1) :
        /\ r \in Seq(S) /\ Len(r) = Len(q) + 1
        /\ \A i \in 1..Len(r) : r[i] = IF i < p THEN q[i] ELSE IF i = p THEN e ELSE q[i - 1]
  BY InsertPlaces
<1> HIDE DEF r
<1> DEFINE from(i) == IF i < p THEN i ELSE i - 1
<1>2. \A i \in 1..Len(r) : i = p \/ (from(i) \in 1..Len(q) /\ r[i] = q[from(i)])
  BY <1>1
<1>3. r[p] = e
  BY <1>1
<1>4. \A i \in 1..Len(q) : Apart(e, q[i])
  BY DEF Apart, Header
<1>5. ASSUME NEW i \in 1..Len(r), NEW j \in 1..Len(r), i # j
      PROVE  Apart(r[i], r[j])
  <2>1. CASE i = p
    BY <1>2, <1>3, <1>4, <1>5, <2>1
  <2>2. CASE j = p
    BY <1>2, <1>3, <1>5, <2>2
  <2>3. CASE i # p /\ j # p
    <3>1. from(i) # from(j)
      BY <1>1, <1>5, <2>3
    <3> HIDE DEF from
    <3> QED BY <1>2, <2>3, <3>1
  <2> QED BY <2>1, <2>2, <2>3
<1>6. ASSUME NEW i \in 1..Len(r)
      PROVE  r[i] = e \/ \E j \in 1..Len(q) : r[i] = q[j]
  BY <1>2, <1>3
<1> QED BY <1>1, <1>5, <1>6 DEF r

(* What a step leaves alone. *)
LEMMA OwnedKept ==
  ASSUME Owned, UNCHANGED <<inHeld, callback, callbacks>>,
         \A b : Lent(b) => Lent(b)',
         InHand' => InHand /\ worker'.event = worker.event
  PROVE  Owned'
BY DEF Owned, Held, Apart, Leased, Header

LEMMA OwnedFewer ==
  ASSUME Owned, inHeld' \subseteq inHeld, UNCHANGED <<callback, callbacks, worker, inputs>>
  PROVE  Owned'
BY DEF Owned, Held, Apart, Leased, InHand, Header, Lent

LEMMA OutputsKept ==
  ASSUME OutputsOwned, UNCHANGED <<outHeld, outputs, completions>>, sending'.id = sending.id
  PROVE  OutputsOwned'
BY DEF OutputsOwned

LEMMA LetGoKept ==
  ASSUME LetGo, UNCHANGED <<Place, accepting, inputs, input, output, outputs, lifecycle>>
  PROVE  LetGo'
BY DEF LetGo, AllInputsReturned

LEMMA NoHeaders == NoBuffers \in [{} -> Headers] /\ DOMAIN NoBuffers = {}
BY DEF NoBuffers

LEMMA InitOInv == Init => OInv
<1> SUFFICES ASSUME Init PROVE OInv
  OBVIOUS
<1> USE DEF Init, At, NoCallback, NoBuffers, NotSent
<1>1. IInv
  BY InitIInv
<1>2. Typed
  <2>1. PICK scenario \in Scenarios : script = scenario.script
    OBVIOUS
  <2>2. script \in Seq(Kinds)
    BY <2>1, WinmmAssumption
  <2>3. DOMAIN inputs = {} /\ inputs \in [DOMAIN inputs -> Headers]
    BY NoHeaders
  <2>4. ~Leased /\ ~InHand
    BY DEF Leased, InHand
  <2> HIDE DEF Init, At, NoCallback, NoBuffers, NotSent
  <2>5. sent = 0 /\ number = 0 /\ accepting = FALSE /\ inHeld = {} /\ callbacks = <<>>
    BY DEF Init
  <2>6. accepting \in BOOLEAN
    BY <2>5
  <2>7. callbacks \in Seq(AnyEvent)
    BY <2>5
  <2>8. DOMAIN inputs \subseteq Inputs
    BY <2>3
  <2> QED BY <2>2, <2>3, <2>4, <2>5, <2>6, <2>7, <2>8 DEF Typed
<1>3. TypedOut
  BY DEF TypedOut
<1>4. Owned /\ OutputsOwned
  BY DEF Owned, OutputsOwned, Leased, InHand
<1>5. LetGo
  BY DEF LetGo, Place, ClosePlaces, DrainPlaces
<1> QED BY <1>1, <1>2, <1>3, <1>4, <1>5 DEF OInv, OParts

-----------------------------------------------------------------------------
(* The driver hands a buffer to its callback, and the callback to the queue. *)

LEMMA Enters ==
  ASSUME Typed, NEW kind \in AnyKind, NEW place \in Nat,
         NEW buffer \in Inputs \cup {NoBuffer}, Enter(kind, place, buffer)
  PROVE  /\ ~Leased
         /\ \/ UNCHANGED <<callback, number>>
            \/ /\ callback'.at = "leased" /\ number' = number + 1
               /\ callback'.event = Event(kind, place, buffer, accepting)
               /\ callback'.event \in AnyEvent
BY DEF Enter, Leased, NoCallback, Event, AnyEvent, Typed

LEMMA DriverOParts ==
  ASSUME OInv, Driver
  PROVE  OParts'
<1> USE DEF OInv, OParts, deviceVars, bufferVars, gateVars, ownerVars, historyVars, DriverRest
<1>0. CASE Complete \/ CompleteThrows
  <2>1. PICK id \in outHeld :
          /\ outHeld' = outHeld \ {id}
          /\ completions' \in {Append(completions, id), completions}
    BY <1>0 DEF Complete, CompleteThrows, queueVars
  <2>2. UNCHANGED <<deviceVars, inHeld, callback, number, callbacks, bufferVars, gateVars,
                    ownerVars, worker, historyVars>>
    BY <1>0 DEF Complete, CompleteThrows, queueVars
  <2>3. TypedOut'
    <3>1. id \in Nat /\ completions \in Seq(Nat) /\ outHeld \subseteq Nat
      BY DEF TypedOut
    <3>2. completions' \in Seq(Nat) /\ outHeld' \subseteq Nat
      BY <2>1, <3>1
    <3> QED BY <2>2, <3>2 DEF TypedOut
  <2>4. OutputsOwned'
    <3>1. id <= sending.id /\ completions \in Seq(Nat) /\ id \in Nat
      BY DEF OutputsOwned, TypedOut
    <3>2. \A i \in 1..Len(completions') : completions'[i] <= sending.id /\ completions'[i] \notin outHeld'
      BY <2>1, <3>1 DEF OutputsOwned
    <3> QED BY <2>1, <2>2, <3>2 DEF OutputsOwned
  <2>5. Typed' /\ LetGo'
    BY <2>2, LetGoKept DEF Typed, Place, Leased, InHand
  <2>6. Owned'
    BY <2>2, OwnedKept DEF Lent, InHand
  <2> QED BY <2>3, <2>4, <2>5, <2>6
<1>2. CASE DropLong
  <2>1. /\ sent + 1 \in Nat /\ sent' = sent + 1
        /\ UNCHANGED <<script, input, output, heldVars, queueVars, bufferVars, gateVars, ownerVars,
                       worker, delivered, sending>>
    BY <1>2 DEF DropLong, Typed
  <2> USE DEF heldVars, queueVars
  <2>2. Typed'
    BY <2>1 DEF Typed, Leased, InHand
  <2>3. TypedOut' /\ OutputsOwned' /\ LetGo' /\ Owned'
    BY <2>1, OutputsKept, LetGoKept, OwnedKept DEF TypedOut, Place, Lent, InHand
  <2> QED BY <2>2, <2>3
<1>1. CASE ReceiveShort \/ ReceiveLong \/ ReturnEmpty
  <2>1. PICK buffer \in Inputs \cup {NoBuffer}, kind \in AnyKind, place \in Nat :
          /\ Enter(kind, place, buffer)
          /\ \/ buffer = NoBuffer /\ inHeld' = inHeld
             \/ buffer \in inHeld /\ inHeld' = inHeld \ {buffer}
          /\ sent' \in Nat
    <3>1. \A i \in 1..Len(script) : script[i] \in Kinds
      BY DEF Typed
    <3>2. CASE ReceiveShort
      <4>1. sent + 1 \in 1..Len(script) /\ sent + 1 \in Nat
        BY <3>2 DEF ReceiveShort, Typed
      <4>2. script[sent + 1] \in AnyKind
        BY <3>1, <4>1 DEF Kinds, AnyKind
      <4> QED BY <3>2, <4>1, <4>2 DEF ReceiveShort
    <3>3. CASE ReceiveLong
      <4>1. sent + 1 \in 1..Len(script) /\ sent + 1 \in Nat
        BY <3>3 DEF ReceiveLong, Typed
      <4>2. script[sent + 1] \in AnyKind
        BY <3>1, <4>1 DEF Kinds, AnyKind
      <4>3. PICK b \in inHeld : inHeld' = inHeld \ {b} /\ Enter(script[sent + 1], sent + 1, b)
        BY <3>3 DEF ReceiveLong
      <4>4. sent' = sent + 1
        BY <3>3 DEF ReceiveLong
      <4> QED BY <4>1, <4>2, <4>3, <4>4 DEF Typed
    <3>4. CASE ReturnEmpty
      <4>1. PICK b \in inHeld : inHeld' = inHeld \ {b} /\ Enter("empty", 0, b)
        BY <3>4 DEF ReturnEmpty
      <4>2. "empty" \in AnyKind /\ sent' = sent
        BY <3>4 DEF ReturnEmpty, AnyKind
      <4> QED BY <4>1, <4>2 DEF Typed
    <3> QED BY <1>1, <3>2, <3>3, <3>4
  <2>2. UNCHANGED DriverRest
    BY <1>1 DEF ReceiveShort, ReceiveLong, ReturnEmpty
  <2>3. /\ ~Leased
        /\ \/ UNCHANGED <<callback, number>>
           \/ /\ callback'.at = "leased" /\ number' = number + 1
              /\ callback'.event = Event(kind, place, buffer, accepting)
              /\ callback'.event \in AnyEvent
    BY <2>1, Enters
  <2>4. Typed'
    BY <2>1, <2>2, <2>3 DEF Typed, Leased, InHand
  <2>5. TypedOut' /\ OutputsOwned' /\ LetGo'
    BY <2>2, OutputsKept, LetGoKept DEF TypedOut, Place
  <2>6. inHeld' \subseteq inHeld /\ UNCHANGED <<callbacks, worker, inputs>>
    BY <2>1, <2>2
  <2>7. ASSUME UNCHANGED callback
        PROVE  Owned'
    <3>1. Owned /\ inHeld' \subseteq inHeld /\ UNCHANGED <<callback, callbacks, worker, inputs>>
      BY <2>6, <2>7
    <3> QED BY <3>1, OwnedFewer
  <2>8. ASSUME callback'.at = "leased", callback'.event = Event(kind, place, buffer, accepting)
        PROVE  Owned'
    <3>1. callback'.event.buffer = buffer
      BY <2>8 DEF Event
    <3>2. Header(callback'.event) => buffer \in inHeld /\ buffer \notin inHeld'
      BY <2>1, <3>1 DEF Header
    <3>3. \A e : Held(e) => Held(e)' /\ (Header(callback'.event) /\ Header(e) => buffer # e.buffer)
      BY <2>6, <3>2 DEF Held, Lent
    <3>4. \A e : Held(e) => Apart(e, callback'.event) /\ Apart(callback'.event, e)
      BY <3>1, <3>3 DEF Apart, Header
    <3>5. Held(callback.event)'
      BY <2>6, <3>1, <3>2 DEF Held, Owned, Lent
    <3>6. \A b \in inHeld' : Lent(b)'
      BY <2>6 DEF Owned, Lent
    <3>7. InHand' => Held(worker.event)' /\ Apart(callback.event, worker.event)'
      BY <2>6, <3>3, <3>4 DEF Owned, InHand
    <3>8. \A i \in 1..Len(callbacks') :
            /\ Held(callbacks[i])'
            /\ Apart(callbacks[i], callback.event)'
            /\ InHand' => Apart(callbacks[i], worker.event)'
            /\ \A j \in 1..Len(callbacks') : i # j => Apart(callbacks[i], callbacks[j])'
      <4> HIDE DEF Held, Apart
      <4> QED BY <2>6, <3>3, <3>4 DEF Owned, InHand
    <3> QED BY <3>5, <3>6, <3>7, <3>8, Zenon DEF Owned
  <2> QED BY <2>3, <2>4, <2>5, <2>7, <2>8
<1> QED BY <1>0, <1>1, <1>2 DEF Driver

(* A callback that throws has its buffer no more, nor has anyone. *)
LEMMA ThrowOParts ==
  ASSUME OInv, QueueThrows
  PROVE  OParts'
<1> USE DEF OInv, OParts, deviceVars, queueVars, bufferVars, gateVars, ownerVars, historyVars
<1>1. /\ Leased /\ ~Leased'
      /\ UNCHANGED <<deviceVars, inHeld, outHeld, queueVars, bufferVars, gateVars,
                     ownerVars, worker, delivered, sending>>
  BY DEF QueueThrows, Leased, NoCallback
<1>2. TypedOut' /\ OutputsOwned' /\ LetGo'
  BY <1>1, OutputsKept, LetGoKept DEF TypedOut, Place
<1>3. Typed'
  BY <1>1 DEF Typed, Leased, InHand
<1>4. Owned'
  <2>1. \A f : Held(f)' <=> Held(f)
    BY <1>1 DEF Held, Lent
  <2>2. \A e, f : Apart(e, f)' <=> Apart(e, f)
    BY DEF Apart
  <2> HIDE DEF Held, Apart
  <2> QED BY <1>1, <2>1, <2>2 DEF Owned, Lent, InHand
<1> QED BY <1>2, <1>3, <1>4

LEMMA QueueOParts ==
  ASSUME OInv, Queue
  PROVE  OParts'
<1> USE DEF OInv, OParts, deviceVars, bufferVars, gateVars, ownerVars, historyVars
<1>1. /\ Leased /\ ~Leased' /\ Push(callback.event)
      /\ UNCHANGED <<deviceVars, inHeld, outHeld, number, completions, bufferVars, gateVars,
                     ownerVars, worker, faults, historyVars>>
  BY DEF Queue, Leased, NoCallback
<1>2. TypedOut' /\ OutputsOwned' /\ LetGo'
  BY <1>1, OutputsKept, LetGoKept DEF TypedOut, Place
<1> DEFINE e == callback.event
<1>3. e \in AnyEvent /\ [e EXCEPT !.kind = "overflow", !.place = 0] \in AnyEvent
  BY <1>1 DEF Typed, AnyEvent, AnyKind
<1>4. PICK x \in AnyEvent :
        x.buffer = e.buffer /\ callbacks' \in {callbacks, Insert(x, callbacks)}
  <2>1. [e EXCEPT !.kind = "overflow", !.place = 0].buffer = e.buffer
    BY <1>3 DEF AnyEvent
  <2> QED BY <1>1, <1>3, <2>1 DEF Push, Overflow
<1>5. /\ callbacks' \in Seq(AnyEvent)
      /\ \A i \in 1..Len(callbacks') :
           callbacks'[i] = x \/ \E j \in 1..Len(callbacks) : callbacks'[i] = callbacks[j]
      /\ \A i, j \in 1..Len(callbacks') : i # j => Apart(callbacks'[i], callbacks'[j])
  <2>1. callbacks \in Seq(AnyEvent)
    BY DEF Typed
  <2>2. \A i, j \in 1..Len(callbacks) : i # j => Apart(callbacks[i], callbacks[j])
    BY DEF Owned
  <2>3. \A i \in 1..Len(callbacks) : Apart(callbacks[i], x)
    BY <1>1, <1>4 DEF Owned, Apart
  <2>4. CASE callbacks' = callbacks
    BY <2>1, <2>2, <2>4
  <2>5. CASE callbacks' = Insert(x, callbacks)
    BY <2>1, <2>2, <2>3, <2>5, InsertApart
  <2> QED BY <1>4, <2>4, <2>5
<1>6. Typed'
  BY <1>1, <1>5 DEF Typed, Leased, InHand
<1>7. Owned'
  <2>1. Held(x) /\ (InHand => Apart(x, worker.event))
    BY <1>1, <1>4 DEF Owned, Held, Header, Apart
  <2>2. \A i \in 1..Len(callbacks') :
          Held(callbacks'[i]) /\ (InHand => Apart(callbacks'[i], worker.event))
    BY <1>5, <2>1 DEF Owned
  <2>3. \A f : Held(f)' <=> Held(f)
    BY <1>1 DEF Held, Lent
  <2> HIDE DEF Held, Apart
  <2> QED BY <1>1, <1>5, <2>2, <2>3 DEF Owned, Lent, InHand
<1> QED BY <1>2, <1>6, <1>7

-----------------------------------------------------------------------------
(* The worker takes an event, and gives its buffer back to the driver, or    *)
(* keeps it.                                                                 *)

LEMMA TakeOParts ==
  ASSUME OInv, Take
  PROVE  OParts'
<1> USE DEF OInv, OParts, deviceVars, heldVars, bufferVars, gateVars, ownerVars, historyVars
<1>1. /\ callbacks # <<>> /\ callbacks' = Tail(callbacks)
      /\ worker' = [at |-> "processing", event |-> Head(callbacks), back |-> worker]
      /\ UNCHANGED <<deviceVars, heldVars, number, completions, bufferVars, gateVars,
                     ownerVars, faults, historyVars>>
  BY DEF Take
<1>2. worker.at # "processing"
  BY DEF Take, TakesEvents, Idle
<1>3. Place' = Place
  BY <1>1, <1>2 DEF Place
<1>4. TypedOut' /\ OutputsOwned' /\ LetGo'
  BY <1>1, <1>3, OutputsKept, LetGoKept DEF TypedOut
<1>5. /\ callbacks \in Seq(AnyEvent) /\ callbacks' \in Seq(AnyEvent)
      /\ 1 \in 1..Len(callbacks)
      /\ InHand' /\ worker'.event = callbacks[1] /\ callbacks[1] \in AnyEvent
      /\ \A i \in 1..Len(callbacks') : i + 1 \in 2..Len(callbacks) /\ callbacks'[i] = callbacks[i + 1]
  BY <1>1 DEF Typed, InHand
<1>6. Typed'
  BY <1>1, <1>5 DEF Typed, Leased
<1>7. Owned'
  <2>1. \A f : Held(f)' <=> Held(f)
    BY <1>1 DEF Held, Lent
  <2>2. \A i \in 1..Len(callbacks) :
          /\ Held(callbacks[i]) /\ (Leased => Apart(callbacks[i], callback.event))
          /\ \A j \in 1..Len(callbacks) : i # j => Apart(callbacks[i], callbacks[j])
    BY DEF Owned
  <2>3. \A e, f : Apart(e, f) => Apart(f, e)
    BY DEF Apart, Header
  <2>4. \A i \in 1..Len(callbacks') :
          /\ Held(callbacks'[i]) /\ (Leased => Apart(callbacks'[i], callback.event))
          /\ Apart(callbacks'[i], callbacks[1])
          /\ \A j \in 1..Len(callbacks') : i # j => Apart(callbacks'[i], callbacks'[j])
    <3> HIDE DEF Held, Apart
    <3>1. \A i \in 1..Len(callbacks') :
            /\ i + 1 \in 1..Len(callbacks) /\ i + 1 # 1
            /\ \A j \in 1..Len(callbacks') : i # j => i + 1 # j + 1
      BY <1>5
    <3> QED BY <1>5, <2>2, <3>1
  <2>5. Held(callbacks[1]) /\ (Leased => Apart(callback.event, callbacks[1]))
    <3> HIDE DEF Held, Apart
    <3> QED BY <1>5, <2>2, <2>3
  <2>6. UNCHANGED <<inHeld, inputs, callback>>
    BY <1>1
  <2>7. \A b \in inHeld : Lent(b)
    BY DEF Owned
  <2> HIDE DEF Held, Apart
  <2> QED BY <1>5, <2>1, <2>4, <2>5, <2>6, <2>7 DEF Owned, Leased, Lent
<1> QED BY <1>4, <1>6, <1>7

(* What becomes of a returned buffer. *)
LEMMA Returns ==
  ASSUME OInv, NEW b, Lent(b), Return(b)
  PROVE  /\ DOMAIN inputs' = DOMAIN inputs /\ inputs' \in [DOMAIN inputs -> Headers]
         /\ \A c \in DOMAIN inputs : c # b => inputs'[c] = inputs[c]
         /\ \/ /\ accepting /\ inputs'[b].submitted /\ inHeld' = inHeld \cup {b}
               /\ UNCHANGED <<number, callbacks>>
            \/ /\ ~inputs'[b].submitted /\ inHeld' = inHeld
               /\ \/ UNCHANGED <<number, callbacks>>
                  \/ /\ callbacks' = Insert(Marker("requeueFailed"), callbacks)
                     /\ number' = number + 1
<1> USE DEF OInv, OParts
<1> DEFINE returned == MarkReturned(inputs[b])
<1>1. inputs[b] \in Headers /\ inputs \in [DOMAIN inputs -> Headers] /\ b \in DOMAIN inputs
  BY DEF Typed, Lent
<1>2. returned \in Headers /\ ~returned.submitted
  BY <1>1 DEF MarkReturned, Headers
<1>3. MaySubmit(returned) => Submit(returned) \in Headers /\ Submit(returned).submitted
  BY <1>2 DEF Submit, Headers
<1> HIDE DEF returned
<1>4. PICK ok \in Outcomes :
        IF accepting /\ ok /\ MaySubmit(returned)
        THEN /\ inputs' = [inputs EXCEPT ![b] = Submit(returned)]
             /\ inHeld' = inHeld \cup {b}
             /\ UNCHANGED <<number, callbacks, faults>>
        ELSE /\ inputs' = [inputs EXCEPT ![b] = returned]
             /\ UNCHANGED inHeld
             /\ IF accepting
                THEN /\ Native(ok)
                     /\ callbacks' = Insert(Marker("requeueFailed"), callbacks)
                     /\ number' = number + 1
                ELSE UNCHANGED <<number, callbacks, faults>>
  BY DEF Return, returned
<1>5. CASE accepting /\ ok /\ MaySubmit(returned)
  BY <1>1, <1>3, <1>4, <1>5
<1>6. CASE ~(accepting /\ ok /\ MaySubmit(returned))
  <2>1. inputs' = [inputs EXCEPT ![b] = returned] /\ UNCHANGED inHeld
    BY <1>4, <1>6
  <2>2. \/ callbacks' = Insert(Marker("requeueFailed"), callbacks) /\ number' = number + 1
        \/ UNCHANGED <<number, callbacks>>
    BY <1>4, <1>6
  <2>3. /\ DOMAIN inputs' = DOMAIN inputs /\ inputs' \in [DOMAIN inputs -> Headers]
        /\ \A c \in DOMAIN inputs : c # b => inputs'[c] = inputs[c]
        /\ ~inputs'[b].submitted
    BY <1>1, <1>2, <2>1
  <2> QED BY <2>1, <2>2, <2>3
<1> QED BY <1>5, <1>6

(* A marker shares no buffer. *)
LEMMA MarkerInserted ==
  ASSUME OInv
  PROVE  LET x == Marker("requeueFailed")
             r == Insert(x, callbacks) IN
         /\ r \in Seq(AnyEvent) /\ ~Header(x)
         /\ \A i \in 1..Len(r) : r[i] = x \/ \E j \in 1..Len(callbacks) : r[i] = callbacks[j]
         /\ \A i, j \in 1..Len(r) : i # j => Apart(r[i], r[j])
<1> USE DEF OInv, OParts
<1> DEFINE x == Marker("requeueFailed")
<1>1. x \in AnyEvent /\ x.buffer = NoBuffer
  BY DEF Marker, Event, AnyEvent, AnyKind, Typed
<1>2. callbacks \in Seq(AnyEvent)
  BY DEF Typed
<1>3. \A i, j \in 1..Len(callbacks) : i # j => Apart(callbacks[i], callbacks[j])
  BY DEF Owned
<1>4. \A i \in 1..Len(callbacks) : Apart(callbacks[i], x)
  BY <1>1 DEF Apart, Header
<1>5. ~Header(x)
  BY <1>1 DEF Header
<1> HIDE DEF x
<1> QED BY <1>1, <1>2, <1>3, <1>4, <1>5, InsertApart DEF x

LEMMA ProcessOParts ==
  ASSUME OInv, Process
  PROVE  OParts'
<1> USE DEF OInv, OParts, deviceVars, bufferVars, gateVars, ownerVars
<1> DEFINE e == worker.event
           b == e.buffer
<1>1. /\ InHand /\ worker' = worker.back
      /\ UNCHANGED <<deviceVars, outHeld, callback, completions, outputs, gateVars, ownerVars, sending>>
  BY DEF Process, InHand
<1>2. worker.back.at \in DrainPlaces \cup {"idle"} /\ ~InHand' /\ Place' = Place
  BY <1>1 DEF IInv, Calling, InHand, Place, DrainPlaces
<1>3. TypedOut' /\ OutputsOwned'
  BY <1>1, OutputsKept DEF TypedOut
<1>4. CASE ~Header(e)
  <2>1. UNCHANGED <<inputs, inHeld, number, callbacks, faults>>
    BY <1>4 DEF Process
  <2> QED BY <1>1, <1>2, <1>3, <2>1, OwnedKept, LetGoKept DEF Typed, Leased, Lent
<1>5. CASE Header(e)
  <2>1. Lent(b) /\ b \notin inHeld
    BY <1>1, <1>5 DEF Owned, Held
  <2>2. Return(b)
    BY <1>5 DEF Process
  <2>3. /\ DOMAIN inputs' = DOMAIN inputs /\ inputs' \in [DOMAIN inputs -> Headers]
        /\ \A c \in DOMAIN inputs : c # b => inputs'[c] = inputs[c]
        /\ \/ /\ accepting /\ inputs'[b].submitted /\ inHeld' = inHeld \cup {b}
              /\ UNCHANGED <<number, callbacks>>
           \/ /\ ~inputs'[b].submitted /\ inHeld' = inHeld
              /\ \/ UNCHANGED <<number, callbacks>>
                 \/ /\ callbacks' = Insert(Marker("requeueFailed"), callbacks)
                    /\ number' = number + 1
    BY <2>1, <2>2, Returns
  <2>4. LetGo'
    <3>1. AllInputsReturned => FALSE
      BY <2>1 DEF AllInputsReturned, Lent
    <3>2. DOMAIN inputs # {}
      BY <2>1 DEF Lent
    <3> QED BY <1>1, <1>2, <3>1, <3>2 DEF LetGo
  <2>5. PICK x :
          /\ ~Header(x) /\ callbacks' \in Seq(AnyEvent)
          /\ \A i \in 1..Len(callbacks') :
               callbacks'[i] = x \/ \E j \in 1..Len(callbacks) : callbacks'[i] = callbacks[j]
          /\ \A i, j \in 1..Len(callbacks') : i # j => Apart(callbacks'[i], callbacks'[j])
    <3>1. CASE callbacks' = callbacks
      <4>1. ~Header([buffer |-> NoBuffer])
        BY DEF Header
      <4> QED BY <3>1, <4>1 DEF Owned, Typed
    <3>2. CASE callbacks' = Insert(Marker("requeueFailed"), callbacks)
      BY <3>2, MarkerInserted
    <3> QED BY <2>3, <3>1, <3>2
  <2>6. Typed'
    <3>1. inHeld' \subseteq Inputs /\ number' \in Nat
      BY <2>1, <2>3 DEF Typed, Lent
    <3> QED BY <1>1, <1>2, <2>3, <2>5, <3>1 DEF Typed, Leased
  <2> DEFINE Stays(f) == /\ Header(f) => /\ f.buffer \in DOMAIN inputs' /\ inputs'[f.buffer].submitted
                                         /\ f.buffer \notin inHeld'
                         /\ Leased => Apart(f, callback.event)
  <2>7. \A f : Held(f) /\ Apart(f, e) => (Header(f) => /\ f.buffer \in DOMAIN inputs'
                                                       /\ inputs'[f.buffer].submitted
                                                       /\ f.buffer \notin inHeld')
    BY <2>3 DEF Held, Apart, Lent
  <2>8. \A c \in inHeld' : Lent(c)'
    BY <2>1, <2>3 DEF Owned, Lent
  <2>9. Leased' => Held(callback.event)'
    <3>1. Leased => Held(callback.event) /\ Apart(callback.event, e)
      BY <1>1 DEF Owned
    <3>2. UNCHANGED <<callback, Leased>>
      BY <1>1 DEF Leased
    <3> QED BY <2>7, <3>1, <3>2 DEF Held, Lent
  <2>10. \A i \in 1..Len(callbacks) : Stays(callbacks[i])
    BY <1>1, <2>7 DEF Owned
  <2>11. Stays(x)
    BY <2>5 DEF Apart
  <2> HIDE DEF Stays
  <2>12. \A i \in 1..Len(callbacks') : Stays(callbacks'[i])
    BY <2>5, <2>10, <2>11
  <2>13. ~InHand' /\ (Leased' <=> Leased) /\ callback' = callback
    BY <1>1, <1>2 DEF Leased
  <2>14. Owned'
    BY <2>5, <2>8, <2>9, <2>12, <2>13 DEF Owned, Held, Lent, Stays
  <2> QED BY <1>3, <2>4, <2>6, <2>14
<1> QED BY <1>4, <1>5

LEMMA CompletionOParts ==
  ASSUME OInv, ProcessCompletion
  PROVE  OParts'
<1> USE DEF OInv, OParts, deviceVars, heldVars, gateVars, ownerVars, historyVars
<1> DEFINE done == Head(completions)
           mark(i) == IF outputs[i].id = done THEN [outputs[i] EXCEPT !.header = MarkReturned(@)]
                      ELSE outputs[i]
<1>1. /\ completions # <<>> /\ completions' = Tail(completions)
      /\ outputs' = [i \in DOMAIN outputs |-> mark(i)]
      /\ UNCHANGED <<deviceVars, heldVars, number, callbacks, inputs, gateVars, ownerVars,
                     worker, faults, historyVars>>
  BY DEF ProcessCompletion
<1>2. Typed' /\ Owned'
  BY <1>1, OwnedKept DEF Typed, Lent, Leased, InHand
<1>3. /\ completions \in Seq(Nat) /\ 1 \in 1..Len(completions) /\ done = completions[1]
      /\ completions' \in Seq(Nat)
      /\ \A i \in 1..Len(completions') : i + 1 \in 1..Len(completions) /\ completions'[i] = completions[i + 1]
  BY <1>1 DEF TypedOut
<1>4. outputs \in Seq(OutItem) /\ DOMAIN outputs = 1..Len(outputs)
  BY DEF TypedOut
<1>5. \A i \in 1..Len(outputs) :
        /\ mark(i) \in OutItem /\ mark(i).id = outputs[i].id
        /\ outputs[i].id # done => mark(i) = outputs[i]
  <2> TAKE i \in 1..Len(outputs)
  <2>1. outputs[i] \in OutItem
    BY <1>4
  <2>2. MarkReturned(outputs[i].header) \in Headers
    BY <2>1 DEF MarkReturned, Headers, OutItem
  <2> QED BY <2>1, <2>2 DEF OutItem
<1> HIDE DEF mark, done
<1>6. /\ outputs' \in Seq(OutItem) /\ Len(outputs') = Len(outputs)
      /\ \A i \in 1..Len(outputs) : outputs'[i] = mark(i)
  <2>1. outputs' = [i \in 1..Len(outputs) |-> mark(i)]
    BY <1>1, <1>4
  <2>2. outputs' \in [1..Len(outputs) -> OutItem]
    BY <1>5, <2>1
  <2>3. Len(outputs) \in Nat
    BY <1>4
  <2>4. outputs' \in Seq(OutItem)
    BY <2>2, <2>3, SeqDef
  <2>5. Len(outputs') = Len(outputs)
    BY <2>2, <2>3, <2>4, LenProperties
  <2> QED BY <2>1, <2>4, <2>5
<1>7. TypedOut'
  BY <1>1, <1>3, <1>6 DEF TypedOut
<1>8. OutputsOwned'
  <2>1. done \notin outHeld
    BY <1>3 DEF OutputsOwned
  <2>2. \A i \in 1..Len(completions') : completions'[i] <= sending.id /\ completions'[i] \notin outHeld
    BY <1>3 DEF OutputsOwned
  <2>3. ASSUME NEW id \in outHeld
        PROVE  \E i \in 1..Len(outputs') : outputs'[i].id = id /\ outputs'[i].header.submitted
    <3>1. PICK i \in 1..Len(outputs) : outputs[i].id = id /\ outputs[i].header.submitted
      BY DEF OutputsOwned
    <3>2. outputs'[i] = outputs[i]
      BY <1>5, <1>6, <2>1, <3>1
    <3> QED BY <1>6, <3>1, <3>2
  <2> QED BY <1>1, <2>2, <2>3 DEF OutputsOwned
<1>9. LetGo'
  <2>1. Place' = Place
    BY <1>1 DEF Place
  <2>2. outputs = <<>> => outputs' = <<>>
    BY <1>4, <1>6
  <2> QED BY <1>1, <2>1, <2>2 DEF LetGo, AllInputsReturned
<1> QED BY <1>2, <1>7, <1>8, <1>9

-----------------------------------------------------------------------------
(* A close lets go of buffers only when all have returned. *)

LEMMA CloseFrame ==
  ASSUME OInv, UNCHANGED <<script, sent, inHeld, callback, number, callbacks>>,
         accepting' \in {accepting, FALSE}, ~InHand',
         inputs' \in [DOMAIN inputs -> Headers], \A b : Lent(b) => Lent(b)'
  PROVE  Typed' /\ Owned'
<1> USE DEF OInv, OParts
<1>1. DOMAIN inputs' = DOMAIN inputs
  OBVIOUS
<1>2. Typed'
  BY <1>1 DEF Typed, Leased
<1> QED BY <1>2, OwnedKept

(* Returned buffers are nobody's. *)
LEMMA Nobodys ==
  ASSUME OInv, AllInputsReturned \/ input = "closed"
  PROVE  /\ inHeld = {} /\ (Leased => ~Header(callback.event))
         /\ \A i \in 1..Len(callbacks) : ~Header(callbacks[i])
<1>1. \A b : ~Lent(b)
  BY DEF OInv, OParts, LetGo, Lent, AllInputsReturned
<1> QED BY <1>1 DEF OInv, OParts, Owned, Held

LEMMA NoneOut ==
  ASSUME OInv, AllOutputsReturned \/ ~output
  PROVE  outHeld = {}
<1>1. outputs \in Seq(OutItem)
  BY DEF OInv, OParts, TypedOut
<1>2. \A i \in 1..Len(outputs) : ~outputs[i].header.submitted
  BY <1>1 DEF OInv, OParts, LetGo, AllOutputsReturned
<1> QED BY <1>2 DEF OInv, OParts, OutputsOwned

LEMMA CloseOParts ==
  ASSUME OInv, Close
  PROVE  OParts'
<1> USE DEF OInv, OParts, deviceVars, heldVars, queueVars, bufferVars, gateVars, ownerVars,
            historyVars, CloseRest
<1>0. inputs \in [DOMAIN inputs -> Headers]
  BY DEF Typed
<1>1. ASSUME UNCHANGED <<script, sent, inHeld, callback, number, callbacks, inputs>>,
             accepting' \in {accepting, FALSE}, worker'.at # "processing"
      PROVE  Typed' /\ Owned'
  BY <1>0, <1>1, CloseFrame DEF Lent, InHand
<1>2. ASSUME UNCHANGED <<outHeld, outputs, completions, sending>>
      PROVE  TypedOut' /\ OutputsOwned'
  BY <1>2, OutputsKept DEF TypedOut
<1>3. CASE CloseBegin
  <2>1. worker'.at = "draining" /\ accepting' = FALSE
    BY <1>3 DEF CloseBegin, StartClosing, Closing
  <2>2. UNCHANGED <<deviceVars, heldVars, queueVars, bufferVars, ownerVars, historyVars>>
    BY <1>3 DEF CloseBegin
  <2>3. LetGo'
    BY <2>1, <2>2 DEF LetGo, Place
  <2> QED BY <1>1, <1>2, <2>1, <2>2, <2>3
<1>4. CASE StopInput \/ ResetInput \/ InputsReturned \/ InputTimeout \/ ResetOutput \/ OutputTimeout
           \/ Detached
  <2>1. UNCHANGED <<output, outHeld, bufferVars, CloseRest>>
    BY <1>4 DEF StopInput, ResetInput, InputsReturned, InputTimeout, ResetOutput, OutputTimeout, Detached
  <2>2. PICK place, error : GoOn(place, error) /\ place \in ClosePlaces
                            /\ (place \in {"drainingAgain", "closingInput"} => AllInputsReturned)
                            /\ (place \in {"detaching", "drainingLast"} => worker.at = "detaching")
                            /\ (place = "waitingOutput" => output)
    <3>1. CASE StopInput
      <4>1. \E error : GoOn("closingOutput", error) \/ GoOn("resettingInput", error)
        BY <3>1, Zenon DEF StopInput
      <4> QED BY <4>1 DEF ClosePlaces
    <3>2. CASE ResetInput
      <4>1. \E error : GoOn("waitingInput", error)
        BY <3>2, Zenon DEF ResetInput
      <4> QED BY <4>1 DEF ClosePlaces, DrainPlaces
    <3>3. CASE InputsReturned
      <4>1. AllInputsReturned /\ \E error : GoOn("drainingAgain", error)
        BY <3>3, Zenon DEF InputsReturned
      <4> QED BY <4>1 DEF ClosePlaces, DrainPlaces
    <3>4. CASE InputTimeout
      <4>1. \E error : GoOn("closingOutput", error)
        BY <3>4, Zenon DEF InputTimeout
      <4> QED BY <4>1 DEF ClosePlaces
    <3>5. CASE ResetOutput
      <4>1. \E error : GoOn("disabling", error) \/ (output /\ GoOn("waitingOutput", error))
        BY <3>5, Zenon DEF ResetOutput
      <4> QED BY <4>1 DEF ClosePlaces
    <3>6. CASE OutputTimeout
      <4>1. \E error : GoOn("disabling", error)
        BY <3>6, Zenon DEF OutputTimeout
      <4> QED BY <4>1 DEF ClosePlaces
    <3>7. CASE Detached
      <4>1. worker.at = "detaching" /\ \E error : GoOn("drainingLast", error)
        BY <3>7, Zenon DEF Detached
      <4> QED BY <4>1 DEF ClosePlaces, DrainPlaces
    <3> QED BY <1>4, <3>1, <3>2, <3>3, <3>4, <3>5, <3>6, <3>7
  <2>3. worker'.at = place /\ UNCHANGED <<call, owner, lifecycle>>
    BY <2>2, GoesOn, Zenon
  <2>4. worker.at \in ClosePlaces
    BY <1>4 DEF StopInput, ResetInput, InputsReturned, InputTimeout, ResetOutput, OutputTimeout,
                Detached, ClosePlaces, DrainPlaces
  <2>5. Place = worker.at /\ Place' = place
    BY <2>2, <2>3, <2>4 DEF Place, ClosePlaces, DrainPlaces
  <2>6. worker'.at # "processing"
    BY <2>2, <2>3 DEF ClosePlaces, DrainPlaces
  <2>7. input' = "closed" => input = "closed"
    BY <1>4 DEF StopInput, ResetInput, InputsReturned, InputTimeout, ResetOutput, OutputTimeout, Detached
  <2>8. LetGo'
    BY <2>1, <2>2, <2>3, <2>4, <2>5, <2>7 DEF LetGo, AllInputsReturned
  <2> QED BY <1>1, <1>2, <2>1, <2>6, <2>8
<1>5. CASE UnprepareInputs
  <2>1. PICK stuck : inputs' = [b \in DOMAIN inputs |->
                                  IF b \in stuck THEN inputs[b] ELSE Unprepare(inputs[b])]
    BY <1>5 DEF UnprepareInputs
  <2>2. /\ worker.at = "drainingAgain" /\ worker'.at = "closingInput"
        /\ UNCHANGED <<input, output, outHeld, outputs, lifecycle, CloseRest>>
    BY <1>5 DEF UnprepareInputs, GoOn, Closing
  <2>3. \A h \in Headers : Unprepare(h) \in Headers /\ Unprepare(h).submitted = h.submitted
    BY DEF Unprepare, Headers
  <2>4. /\ inputs' \in [DOMAIN inputs -> Headers]
        /\ \A b \in DOMAIN inputs : inputs'[b].submitted = inputs[b].submitted
    BY <1>0, <2>1, <2>3
  <2>5. Typed' /\ Owned'
    BY <2>2, <2>4, CloseFrame DEF InHand, Lent
  <2>6. AllInputsReturned /\ Place = "drainingAgain" /\ Place' = "closingInput" /\ ~accepting
    BY <2>2 DEF LetGo, Place, ClosePlaces, DrainPlaces
  <2>7. AllInputsReturned' /\ DOMAIN inputs' = DOMAIN inputs
    BY <2>4, <2>6 DEF AllInputsReturned
  <2>8. LetGo'
    BY <2>2, <2>6, <2>7 DEF LetGo
  <2> QED BY <1>2, <2>2, <2>5, <2>8
<1>6. CASE CloseInput
  <2>1. /\ worker.at = "closingInput" /\ worker'.at = "closingOutput"
        /\ UNCHANGED <<output, outHeld, outputs, lifecycle, CloseRest>>
    <3>1. \E error : GoOn("closingOutput", error)
      BY <1>6, Zenon DEF CloseInput, CloseInputHandle
    <3>2. worker'.at = "closingOutput" /\ UNCHANGED lifecycle
      BY <3>1, GoesOn, Zenon
    <3> QED BY <1>6, <3>2 DEF CloseInput
  <2>2. AllInputsReturned /\ ~accepting /\ Place' = "closingOutput" /\ Place = "closingInput"
    BY <2>1 DEF LetGo, Place, ClosePlaces, DrainPlaces
  <2>3. (inputs' = inputs /\ input' = input) \/ inputs' = NoBuffers
    BY <1>6 DEF CloseInput
  <2>4. CASE inputs' = inputs /\ input' = input
    BY <1>1, <1>2, <2>1, <2>2, <2>4 DEF LetGo, AllInputsReturned
  <2>5. CASE inputs' = NoBuffers
    <3>1. inputs' \in [{} -> Headers] /\ DOMAIN inputs' = {}
      BY <2>5, NoHeaders
    <3>2. /\ inHeld = {} /\ (Leased => ~Header(callback.event))
          /\ \A i \in 1..Len(callbacks) : ~Header(callbacks[i])
      BY <2>2, Nobodys
    <3>3. Typed'
      BY <2>1, <3>1 DEF Typed, Leased, InHand
    <3>4. Owned'
      BY <2>1, <3>2 DEF Owned, Held, Apart, Leased, InHand
    <3>5. LetGo'
      BY <2>1, <2>2, <3>1 DEF LetGo, AllInputsReturned
    <3> QED BY <1>2, <2>1, <3>3, <3>4, <3>5
  <2> QED BY <2>3, <2>4, <2>5
<1>7. CASE CloseOutput
  <2>1. /\ worker.at = "waitingOutput" /\ AllOutputsReturned
        /\ UNCHANGED <<input, outHeld, inputs, CloseRest>>
    BY <1>7 DEF CloseOutput
  <2>2. PICK stuck \in SUBSET {i \in DOMAIN outputs : outputs[i].header.prepared}, ok \in Outcomes :
        /\ outputs' = IF stuck = {} THEN <<>>
                      ELSE [i \in DOMAIN outputs |->
                              IF i \in stuck THEN outputs[i]
                              ELSE [outputs[i] EXCEPT !.header = Unprepare(@)]]
        /\ output' = (stuck # {} \/ ~ok)
        /\ GoOn("disabling", stuck # {} \/ ~ok)
    BY <1>7 DEF CloseOutput
  <2>3. worker'.at = "disabling" /\ UNCHANGED lifecycle
    BY <2>2, GoesOn, Zenon
  <2>4. Place = "waitingOutput" /\ Place' = "disabling"
    BY <2>1, <2>3 DEF Place
  <2>5. ~output' => outputs' = <<>>
    <3>1. ~output' => stuck = {}
      BY <2>2
    <3> QED BY <2>2, <3>1
  <2>6. lifecycle # "open"
    BY <2>4 DEF IInv, Calling, ClosePlaces
  <2>7. LetGo'
    <3>1. ~accepting /\ lifecycle # "closed"
      BY <2>4 DEF LetGo, ClosePlaces
    <3> QED BY <2>1, <2>3, <2>4, <2>5, <2>6, <3>1 DEF LetGo, AllInputsReturned
  <2>8. outputs' \in Seq(OutItem)
    <3>1. CASE stuck = {}
      BY <2>2, <3>1
    <3>2. CASE stuck # {}
      <4>1. outputs \in Seq(OutItem) /\ DOMAIN outputs = 1..Len(outputs)
        BY DEF TypedOut
      <4>2. \A h \in Headers : Unprepare(h) \in Headers
        BY DEF Unprepare, Headers
      <4>3. \A i \in DOMAIN outputs :
              /\ outputs[i] \in OutItem
              /\ [outputs[i] EXCEPT !.header = Unprepare(@)] \in OutItem
        <5> TAKE i \in DOMAIN outputs
        <5>1. outputs[i] \in OutItem
          BY <4>1
        <5>2. Unprepare(outputs[i].header) \in Headers
          BY <4>2, <5>1 DEF OutItem
        <5> QED BY <5>1, <5>2 DEF OutItem
      <4>4. outputs' \in [1..Len(outputs) -> OutItem]
        BY <2>2, <3>2, <4>1, <4>3
      <4> QED BY <4>1, <4>4, SeqDef
    <3> QED BY <3>1, <3>2
  <2>9. outHeld = {}
    BY <2>1, NoneOut
  <2>10. TypedOut' /\ OutputsOwned'
    BY <2>1, <2>8, <2>9 DEF TypedOut, OutputsOwned
  <2>11. Typed' /\ Owned'
    BY <1>1, <2>1, <2>3
  <2> QED BY <2>7, <2>10, <2>11
<1>8. CASE Disable \/ Release
  <2>1. UNCHANGED <<deviceVars, heldVars, number, callbacks, bufferVars, accepting, historyVars>>
    BY <1>8 DEF Disable, Release
  <2>2. worker.at \in {"disabling", "drainingLast"} /\ worker'.at # "processing"
    BY <1>8 DEF Disable, Release, GoOn, Closing, EndClosing, Answer, At
  <2>3. TypedOut' /\ OutputsOwned'
    <3>1. completions' = completions \/ completions' = <<>>
      BY <1>8 DEF Disable, Release
    <3>2. completions' \in Seq(Nat)
      <4>1. <<>> \in Seq(Nat) /\ completions \in Seq(Nat)
        BY DEF TypedOut
      <4> QED BY <3>1, <4>1
    <3>3. \A i \in 1..Len(completions') : completions'[i] <= sending.id /\ completions'[i] \notin outHeld
      BY <3>1 DEF OutputsOwned
    <3> QED BY <2>1, <3>2, <3>3 DEF TypedOut, OutputsOwned
  <2>4. Typed' /\ Owned'
    BY <1>1, <2>1, <2>2
  <2>5. Place = worker.at /\ Place' = worker'.at /\ ~accepting
    BY <2>2 DEF Place, LetGo, ClosePlaces, DrainPlaces
  <2>6. \/ /\ worker'.at = "detaching" /\ UNCHANGED lifecycle /\ ~output
        \/ /\ worker'.at = "idle"
           /\ lifecycle' = "closed" => ~output
           /\ lifecycle' = "open" => lifecycle = "open"
    <3>1. CASE Disable /\ Closed
      BY <3>1 DEF Disable, Closed, GoOn, Closing
    <3>2. CASE Disable /\ ~Closed
      <4>1. worker.error \/ (input = "closed" /\ ~output)
        BY <3>2 DEF Disable, IInv, Errors
      <4>2. worker.error
        BY <3>2, <4>1 DEF Closed
      <4>3. worker' = At("idle") /\ lifecycle' = IF call \in {"open", "close"} THEN "failed" ELSE lifecycle
        BY <3>2, <4>2 DEF Disable, EndClosing, Answer, Fail
      <4>4. lifecycle = "closed" => ~output
        BY DEF LetGo
      <4> QED BY <4>3, <4>4 DEF At
    <3>3. CASE Release
      <4>1. ~output
        BY <2>5, <3>3 DEF Release, LetGo
      <4>2. worker' = At("idle")
        BY <3>3 DEF Release, EndClosing, Answer
      <4>3. lifecycle' \in {"failed", "closed", lifecycle}
        BY <2>5, <3>3 DEF Release, EndClosing, Answer, Fail, CompleteClose, RequireAndSet, IInv, Calling,
                   DrainPlaces, ClosePlaces
      <4> QED BY <4>1, <4>2, <4>3 DEF At
    <3> QED BY <1>8, <3>1, <3>2, <3>3
  <2>7. LetGo'
    BY <2>1, <2>5, <2>6 DEF LetGo, AllInputsReturned, ClosePlaces, DrainPlaces
  <2> QED BY <2>3, <2>4, <2>7
<1> QED BY <1>3, <1>4, <1>5, <1>6, <1>7, <1>8 DEF Close

-----------------------------------------------------------------------------
(* Opening, sending, and the owner. *)

LEMMA ReadyHeader == Ready \in Headers /\ Ready.submitted /\ Prepare(NewHeader) \in Headers
BY DEF Ready, Submit, MaySubmit, Prepare, NewHeader, Headers

LEMMA OpenOParts ==
  ASSUME OInv, OpenOnWorker
  PROVE  OParts'
<1> USE DEF OInv, OParts, deviceVars, heldVars, queueVars, bufferVars, gateVars, ownerVars,
            historyVars
<1>1. CASE EnumerationFails \/ InputFails
  <2>1. /\ worker.at = "idle" /\ worker' = At("idle") /\ lifecycle' = "failed"
        /\ UNCHANGED <<script, sent, input, inHeld, inputs, accepting, output, outHeld, callback,
                       queueVars, outputs, historyVars>>
    BY <1>1 DEF EnumerationFails, InputFails, Opening, Answer, Fail
  <2>2. Place = "idle" /\ Place' = "idle" /\ ~InHand'
    BY <2>1 DEF Place, At, InHand
  <2>3. Typed' /\ TypedOut' /\ OutputsOwned'
    BY <2>1, <2>2, OutputsKept DEF Typed, TypedOut, Leased, InHand
  <2>4. Owned'
    BY <2>1, <2>2, OwnedKept DEF Lent
  <2>5. LetGo'
    BY <2>1, <2>2 DEF LetGo, ClosePlaces, DrainPlaces
  <2> QED BY <2>3, <2>4, <2>5
<1>2. CASE InputHalfOpens \/ InputOpens
  <2>1. /\ worker.at = "idle" /\ call = "open" /\ lifecycle = "opening"
        /\ UNCHANGED <<script, sent, output, outHeld, callback, queueVars, outputs, historyVars,
                       lifecycle>>
    BY <1>2 DEF InputHalfOpens, InputOpens, Opening, IInv, Calling
  <2>2. callback = NoCallback /\ callbacks = <<>>
    BY <2>1 DEF IInv, Quiet, Still, Place
  <2>3. /\ worker'.at \in {"draining", "openingOutput"}
        /\ worker'.at = "draining" => accepting' = FALSE
        /\ accepting' \in BOOLEAN /\ input' # "closed"
    <3>1. CASE InputHalfOpens
      BY <3>1 DEF InputHalfOpens, StartClosing, Closing
    <3>2. CASE InputOpens
      BY <3>2 DEF InputOpens, At
    <3> QED BY <1>2, <3>1, <3>2
  <2>4. /\ inHeld' \subseteq DOMAIN inputs' /\ DOMAIN inputs' \subseteq Inputs
        /\ inputs' \in [DOMAIN inputs' -> Headers]
        /\ \A b \in inHeld' : inputs'[b].submitted
    <3>1. CASE InputHalfOpens
      <4>1. PICK ready \in SUBSET Inputs, refused \in SUBSET Inputs :
              /\ inputs' = [b \in ready \cup refused |-> IF b \in ready THEN Ready
                                                        ELSE Prepare(NewHeader)]
              /\ inHeld' = ready
        BY <3>1 DEF InputHalfOpens
      <4> QED BY <4>1, ReadyHeader
    <3>2. CASE InputOpens
      BY <3>2, ReadyHeader DEF InputOpens
    <3> QED BY <1>2, <3>1, <3>2
  <2>5. Place = "idle" /\ Place' = worker'.at /\ ~InHand' /\ ~Leased /\ ~Leased'
    BY <2>1, <2>2, <2>3 DEF Place, InHand, Leased, NoCallback
  <2>6. Typed' /\ TypedOut' /\ OutputsOwned'
    BY <2>1, <2>3, <2>4, <2>5, OutputsKept DEF Typed, TypedOut
  <2>7. Owned'
    BY <2>1, <2>2, <2>4, <2>5 DEF Owned, Lent
  <2>8. LetGo'
    BY <2>1, <2>3, <2>5 DEF LetGo, ClosePlaces, DrainPlaces
  <2> QED BY <2>6, <2>7, <2>8
<1>3. CASE OutputOpens
  <2>1. /\ worker.at = "openingOutput" /\ worker' = At("idle") /\ call = "open"
        /\ UNCHANGED <<script, sent, input, heldVars, queueVars, bufferVars, gateVars, historyVars>>
        /\ output' = TRUE
    BY <1>3 DEF OutputOpens, Answer, IInv, Calling, Place
  <2>2. Place = "openingOutput" /\ Place' = "idle" /\ ~InHand'
    BY <2>1 DEF Place, At, InHand
  <2>3. lifecycle' = "open"
    BY <1>3, <2>1 DEF OutputOpens, Answer, CompleteOpen, RequireAndSet, IInv, Calling
  <2>4. Typed' /\ TypedOut' /\ OutputsOwned'
    BY <2>1, <2>2, OutputsKept DEF Typed, TypedOut, Leased, InHand
  <2>5. Owned'
    BY <2>1, <2>2, OwnedKept DEF Lent
  <2>6. LetGo'
    BY <2>1, <2>2, <2>3 DEF LetGo, ClosePlaces, DrainPlaces
  <2> QED BY <2>4, <2>5, <2>6
<1>4. CASE OutputFails
  <2>1. /\ worker.at = "openingOutput" /\ worker'.at = "draining" /\ accepting' = FALSE
        /\ UNCHANGED <<deviceVars, heldVars, queueVars, bufferVars, ownerVars, historyVars>>
    BY <1>4 DEF OutputFails, StartClosing, Closing
  <2>2. Place = "openingOutput" /\ Place' = "draining" /\ ~InHand'
    BY <2>1 DEF Place, InHand
  <2>3. Typed' /\ TypedOut' /\ OutputsOwned'
    BY <2>1, <2>2, OutputsKept DEF Typed, TypedOut, Leased, InHand
  <2>4. Owned'
    BY <2>1, <2>2, OwnedKept DEF Lent
  <2>5. LetGo'
    BY <2>1, <2>2 DEF LetGo, ClosePlaces, DrainPlaces
  <2> QED BY <2>3, <2>4, <2>5
<1> QED BY <1>1, <1>2, <1>3, <1>4 DEF OpenOnWorker

LEMMA SendOParts ==
  ASSUME OInv, SendOnWorker
  PROVE  OParts'
<1> USE DEF OInv, OParts, deviceVars, heldVars, queueVars, bufferVars, gateVars, ownerVars,
            historyVars, SendRest
<1>1. /\ worker.at \in {"idle", "sending", "sendReset"} /\ lifecycle = "open"
      /\ UNCHANGED <<script, sent, input, output, inHeld, callback, number, callbacks, completions,
                     inputs, accepting>>
  <2>1. call = "send"
    BY DEF SendOnWorker, SendShort, SendLong, SendRefused, SendTimeout, SendGivesUp,
           SendReturned, IInv, Calling, Place
  <2> QED BY <2>1 DEF SendOnWorker, SendShort, SendLong, SendRefused, SendTimeout, SendGivesUp,
                      SendReturned, IInv, Calling
<1>2. worker'.at \in {"idle", "sending", "sendReset"} /\ lifecycle' = lifecycle
  <2>1. call = "send"
    BY DEF SendOnWorker, SendShort, SendLong, SendRefused, SendTimeout, SendGivesUp,
           SendReturned, IInv, Calling, Place
  <2> QED BY <2>1 DEF SendOnWorker, SendShort, SendLong, SendRefused, SendTimeout, SendGivesUp,
                      SendReturned, Sent, Answer, At
<1>3. /\ Place = worker.at /\ Place' = worker'.at /\ ~InHand'
      /\ worker.at \notin ClosePlaces /\ worker'.at \notin ClosePlaces
  BY <1>1, <1>2 DEF Place, InHand, ClosePlaces, DrainPlaces
<1>4. Typed' /\ Owned'
  BY <1>1, <1>3, OwnedKept DEF Typed, Leased, Lent
<1>5. output
  BY <1>1 DEF LetGo
<1>6. LetGo'
  BY <1>1, <1>2, <1>3, <1>5 DEF LetGo, ClosePlaces, DrainPlaces
<1>7. /\ sending = [id |-> sending.id, cut |-> sending.cut, result |-> sending.result]
      /\ sending.id \in Nat /\ outHeld \subseteq Nat
      /\ outputs \in Seq(OutItem) /\ completions \in Seq(Nat)
  BY DEF TypedOut
<1>8. CASE SendShort \/ SendTimeout \/ SendGivesUp
  <2>1. UNCHANGED <<outHeld, outputs>>
    BY <1>8 DEF SendShort, SendTimeout, SendGivesUp
  <2>2. /\ sending' = [id |-> sending.id, cut |-> sending'.cut, result |-> sending'.result]
        /\ sending'.id = sending.id
    BY <1>7, <1>8 DEF SendShort, SendTimeout, SendGivesUp, Sent
  <2>3. TypedOut' /\ OutputsOwned'
    BY <1>1, <1>7, <2>1, <2>2, OutputsKept DEF TypedOut
  <2> QED BY <1>4, <1>6, <2>3
<1>9. CASE SendReturned
  <2>1. AllOutputsReturned /\ outHeld' = outHeld /\ outputs' \in {outputs, Front(outputs)}
    BY <1>9 DEF SendReturned
  <2>2. /\ sending' = [id |-> sending.id, cut |-> sending'.cut, result |-> sending'.result]
        /\ sending'.id = sending.id
    BY <1>7, <1>9 DEF SendReturned, Sent
  <2>3. outHeld = {}
    BY <2>1, NoneOut
  <2>4. outputs' \in Seq(OutItem)
    <3>1. Front(outputs) \in Seq(OutItem)
      <4>1. Front(outputs) = SubSeq(outputs, 1, Len(outputs) - 1)
        BY DEF Front
      <4>2. Len(outputs) \in Nat /\ 1 \in 1..(Len(outputs) + 1)
        BY <1>7
      <4>3. CASE Len(outputs) = 0
        BY <1>7, <4>1, <4>3
      <4>4. CASE Len(outputs) # 0
        <5>1. Len(outputs) - 1 \in 0..Len(outputs)
          BY <4>2, <4>4
        <5> QED BY <1>7, <4>1, <4>2, <5>1, SubSeqProperties
      <4> QED BY <4>3, <4>4
    <3> QED BY <1>7, <2>1, <3>1
  <2>5. TypedOut' /\ OutputsOwned'
    BY <1>1, <1>7, <2>1, <2>2, <2>3, <2>4 DEF TypedOut, OutputsOwned
  <2> QED BY <1>4, <1>6, <2>5
<1>10. ASSUME NEW header \in Headers, outputs' = Append(outputs, [id |-> NewMessage.id, header |-> header]),
              sending' \in {NewMessage, [NewMessage EXCEPT !.result = "failure"]},
              outHeld' = outHeld \/ (outHeld' = outHeld \cup {NewMessage.id} /\ header.submitted)
       PROVE  TypedOut' /\ OutputsOwned'
  <2> DEFINE n == sending.id + 1
             item == [id |-> n, header |-> header]
  <2>1. item \in OutItem /\ NewMessage.id = n /\ n \in Nat
    BY <1>7 DEF OutItem, NewMessage
  <2>2. /\ sending' = [id |-> n, cut |-> sending'.cut, result |-> sending'.result]
        /\ sending'.id = n
    BY <1>10 DEF NewMessage
  <2>3. /\ outputs' \in Seq(OutItem) /\ Len(outputs') = Len(outputs) + 1
        /\ outputs'[Len(outputs) + 1] = item
        /\ \A i \in 1..Len(outputs) : outputs'[i] = outputs[i]
    <3> HIDE DEF item
    <3>1. outputs' = Append(outputs, item)
      BY <1>10, <2>1 DEF item
    <3> QED BY <1>7, <2>1, <3>1
  <2>4. TypedOut'
    BY <1>1, <1>7, <1>10, <2>1, <2>2, <2>3 DEF TypedOut
  <2>5. \A i \in 1..Len(completions) : completions[i] <= n /\ completions[i] \notin outHeld'
    <3>1. \A i \in 1..Len(completions) :
            completions[i] \in Nat /\ completions[i] <= sending.id /\ completions[i] \notin outHeld
      BY <1>7 DEF OutputsOwned
    <3>2. outHeld' \subseteq outHeld \cup {n}
      BY <1>10, <2>1
    <3>3. \A i \in 1..Len(completions) : completions[i] # n /\ completions[i] <= n
      BY <1>7, <3>1
    <3> QED BY <3>1, <3>2, <3>3
  <2>6. ASSUME NEW id \in outHeld'
        PROVE  id <= n /\ \E i \in 1..Len(outputs') : outputs'[i].id = id /\ outputs'[i].header.submitted
    <3>1. CASE id \in outHeld
      <4>1. PICK i \in 1..Len(outputs) : outputs[i].id = id /\ outputs[i].header.submitted
        BY <3>1 DEF OutputsOwned
      <4>2. id <= sending.id /\ id \in Nat
        BY <1>7, <3>1 DEF OutputsOwned
      <4>3. i \in 1..Len(outputs')
        BY <1>7, <2>3
      <4> QED BY <1>7, <2>3, <4>1, <4>2, <4>3
    <3>2. CASE id \notin outHeld
      <4>1. id = n /\ header.submitted
        BY <1>10, <2>1, <3>2
      <4>2. Len(outputs) + 1 \in 1..Len(outputs')
        BY <1>7, <2>3
      <4> QED BY <2>1, <2>3, <4>1, <4>2
    <3> QED BY <3>1, <3>2
  <2>7. OutputsOwned'
    BY <1>1, <2>2, <2>5, <2>6 DEF OutputsOwned
  <2> QED BY <2>4, <2>7
<1>11. CASE SendLong
  <2>1. /\ outputs' = Append(outputs, [id |-> NewMessage.id, header |-> Ready])
        /\ sending' = NewMessage /\ outHeld' = outHeld \cup {NewMessage.id}
    BY <1>11 DEF SendLong
  <2> QED BY <1>4, <1>6, <1>10, <2>1, ReadyHeader
<1>12. CASE SendRefused
  <2>1. /\ sending' = [NewMessage EXCEPT !.result = "failure"] /\ outHeld' = outHeld
        /\ \/ outputs' = outputs
           \/ outputs' = Append(outputs, [id |-> NewMessage.id, header |-> Prepare(NewHeader)])
    BY <1>12 DEF SendRefused
  <2>2. CASE outputs' = outputs
    <3>1. /\ sending' = [id |-> sending.id + 1, cut |-> sending'.cut, result |-> sending'.result]
          /\ sending'.id = sending.id + 1
      BY <2>1 DEF NewMessage
    <3>2. TypedOut'
      BY <1>1, <1>7, <2>1, <2>2, <3>1 DEF TypedOut
    <3>3. \A i \in 1..Len(completions) : completions[i] \in Nat
      BY <1>7
    <3>4. OutputsOwned'
      BY <1>1, <1>7, <2>1, <2>2, <3>1, <3>3 DEF OutputsOwned
    <3> QED BY <1>4, <1>6, <3>2, <3>4
  <2>3. CASE outputs' = Append(outputs, [id |-> NewMessage.id, header |-> Prepare(NewHeader)])
    BY <1>4, <1>6, <1>10, <2>1, <2>3, ReadyHeader
  <2> QED BY <2>1, <2>2, <2>3
<1> QED BY <1>8, <1>9, <1>11, <1>12 DEF SendOnWorker

LEMMA OwnerOParts ==
  ASSUME OInv, Owner \/ Destructor
  PROVE  OParts'
<1> USE DEF OInv, OParts, deviceVars, heldVars, queueVars, bufferVars, gateVars, ownerVars,
            historyVars, OwnerRest, Calls, MayCall
<1>1. UNCHANGED <<script, sent, input, output, heldVars, queueVars, accepting, worker, sending>>
  BY DEF Owner, Destructor, CallOpen, CallClose, CallSend, Destroy, DestroyClose, DestroyDetach,
         DestroyStop, DestroyEnd
<1>2. lifecycle' = lifecycle \/ lifecycle' \in {"opening", "closing"}
  BY DEF Owner, Destructor, CallOpen, CallClose, CallSend, Destroy, DestroyClose, DestroyDetach,
         DestroyStop, DestroyEnd, BeginOpen, RequireAndSet, Refused
<1>3. Place' = Place
  BY <1>1 DEF Place
<1>4. UNCHANGED outputs /\ (UNCHANGED inputs \/ (Closed /\ inputs' = NoBuffers))
  <2>1. CASE DestroyEnd
    BY <2>1 DEF DestroyEnd, Closed, LetGo
  <2>2. CASE ~DestroyEnd
    BY <2>2 DEF Owner, Destructor, CallOpen, CallClose, CallSend, Destroy, DestroyClose,
                DestroyDetach, DestroyStop
  <2> QED BY <2>1, <2>2
<1>5. TypedOut' /\ OutputsOwned'
  BY <1>1, <1>4, OutputsKept DEF TypedOut
<1>6. CASE UNCHANGED inputs
  <2>1. Typed' /\ Owned'
    BY <1>1, <1>6, OwnedKept DEF Typed, Leased, InHand, Lent
  <2>2. LetGo'
    BY <1>1, <1>2, <1>3, <1>4, <1>6 DEF LetGo, AllInputsReturned
  <2> QED BY <1>5, <2>1, <2>2
<1>7. CASE Closed /\ inputs' = NoBuffers
  <2>1. inputs' \in [DOMAIN inputs' -> Headers] /\ DOMAIN inputs' = {}
    BY <1>7, NoHeaders
  <2>2. DOMAIN inputs = {}
    BY <1>7 DEF LetGo, Closed
  <2>3. Typed'
    BY <1>1, <2>1 DEF Typed, Leased, InHand
  <2>4. Owned'
    BY <1>1, <2>2, OwnedKept DEF Lent, InHand
  <2>5. LetGo'
    BY <1>1, <1>2, <1>3, <1>4, <2>1 DEF LetGo, AllInputsReturned
  <2> QED BY <1>5, <2>3, <2>4, <2>5
<1> QED BY <1>4, <1>6, <1>7

LEMMA NextOInv == OInv /\ [Next]_vars => OInv'
<1> SUFFICES ASSUME OInv, [Next]_vars PROVE OInv'
  OBVIOUS
<1>1. IInv'
  BY NextIInv DEF OInv
<1>2. CASE Next
  BY <1>1, <1>2, DriverOParts, QueueOParts, ThrowOParts, TakeOParts, ProcessOParts, CompletionOParts, CloseOParts,
     OpenOParts, SendOParts, OwnerOParts
  DEF Next, Callback, Worker, OInv
<1>3. CASE UNCHANGED vars
  <2>1. UNCHANGED <<deviceVars, heldVars, queueVars, bufferVars, gateVars, ownerVars, worker,
                    faults, historyVars>>
    BY <1>3 DEF vars
  <2> USE DEF deviceVars, heldVars, queueVars, bufferVars, gateVars, ownerVars, historyVars
  <2>2. OutputsOwned' /\ LetGo' /\ Owned'
    BY <2>1, OutputsKept, LetGoKept, OwnedKept DEF OInv, OParts, Place, InHand, Lent
  <2> QED BY <1>1, <2>1, <2>2 DEF OInv, OParts, Typed, TypedOut, Leased, InHand
<1> QED BY <1>2, <1>3

(* Every buffer a driver holds has one owner, for any set of input buffers,  *)
(* queue capacity and scenario, and whatever native calls fail.              *)
THEOREM OwnershipInductive == Spec => []OInv
<1> QED BY InitOInv, NextOInv, PTL DEF Spec

(* "A submitted header cannot be destroyed" (ARCHITECTURE.md): close(), the  *)
(* destructor and a failed open() free no buffer the driver has not returned *)
(* and the worker not processed.                                             *)
THEOREM NothingFreedInUse == Spec => []OwnedUntilReturned
<1>1. ASSUME OInv
      PROVE  OwnedUntilReturned
  <2>1. \A b \in inHeld : b \in DOMAIN inputs /\ inputs[b].submitted
    BY <1>1 DEF OInv, OParts, Owned, Lent
  <2>2. \A i \in DOMAIN callbacks : Header(callbacks[i]) =>
          callbacks[i].buffer \in DOMAIN inputs /\ inputs[callbacks[i].buffer].submitted
    <3>1. DOMAIN callbacks = 1..Len(callbacks)
      BY <1>1 DEF OInv, OParts, Typed
    <3> QED BY <1>1, <3>1 DEF OInv, OParts, Owned, Held, Lent
  <2>3. \A id \in outHeld :
          \E i \in DOMAIN outputs : outputs[i].id = id /\ outputs[i].header.submitted
    <3>1. DOMAIN outputs = 1..Len(outputs)
      BY <1>1 DEF OInv, OParts, TypedOut
    <3> QED BY <1>1, <3>1 DEF OInv, OParts, OutputsOwned
  <2>4. lifecycle = "closed" =>
          Closed /\ DOMAIN inputs = {} /\ outputs = <<>> /\ callback = NoCallback
    BY <1>1 DEF OInv, OParts, IInv, Quiet, Still, LetGo, Closed
  <2> QED BY <2>1, <2>2, <2>3, <2>4 DEF OwnedUntilReturned
<1> QED BY <1>1, OwnershipInductive, PTL

-----------------------------------------------------------------------------
(* Loss marks its place.  An event is on its way from the moment its callback *)
(* draws a number: it waits in the queue, is in the worker's hands, and is    *)
(* then delivered, counted as nothing by who processed it, or lost.           *)

(* What the handler is told of an event. *)
Slot  == [type : {"data", "loss", "none"}, place : Nat]
Piece == [type : {"data", "loss"}, place : Nat]

TypeOf(event) == IF IsData(event) THEN "data" ELSE IF IsLoss(event) THEN "loss" ELSE "none"
Item(event)   == [type |-> TypeOf(event), place |-> event.place]

(* What was delivered, what the worker holds and what is queued, in a line. *)
Ahead == Len(delivered) + (IF InHand THEN 1 ELSE 0)
Size  == Ahead + Len(callbacks)
line  ==
  [i \in 1..Size |-> IF i <= Len(delivered) THEN delivered[i]
                     ELSE IF i <= Ahead THEN Item(worker.event)
                     ELSE Item(callbacks[i - Ahead])]

(* Where the event of the callback that runs will not be before. *)
early == {i \in 1..Size : i <= Ahead \/ callbacks[i - Ahead].number < callback.event.number}

(* Something between two places was not lost silently. *)
Gap(S, a, b) == \E p \in (a + 1)..(b - 1) : p \notin S

(* Data is in order, and something is between two pieces with a gap. *)
Chained(S, L, n) ==
  \A i, j \in 1..n : i < j /\ L[i].type = "data" /\ L[j].type = "data" =>
    /\ L[i].place < L[j].place
    /\ Gap(S, L[i].place, L[j].place) => \E m \in (i + 1)..(j - 1) : L[m].type # "none"

(* An event that comes after the slots in B would be, too; only what is not  *)
(* data has overtaken it.                                                    *)
Fits(S, L, n, B, event) ==
  \A i \in 1..n : L[i].type = "data" =>
    /\ i \in B
    /\ IsData(event) =>
         /\ L[i].place < event.place
         /\ Gap(S, L[i].place, event.place) =>
              \E m \in (i + 1)..n : L[m].type # "none" /\ m \in B

(* Behind the last data there is something if there is a gap up to `last`.   *)
Caught(S, L, n, last) ==
  \A i \in 1..n : L[i].type = "data" =>
    /\ L[i].place <= last
    /\ Gap(S, L[i].place, last + 1) => \E m \in (i + 1)..n : L[m].type # "none"

Coming == Leased /\ TypeOf(callback.event) # "none"

(* How far what the device sent is told of; the callback's own event comes.  *)
Told == IF Coming THEN callback.event.place - 1 ELSE sent

Flow ==
  /\ Chained(silent, line, Size)
  /\ Leased => Fits(silent, line, Size, early, callback.event)
  /\ accepting => /\ Caught(silent, line, Size, Told)
                  /\ Coming => /\ callback.event.place <= sent
                               /\ ~Gap(silent, callback.event.place, sent + 1)

(* The queue keeps the order in which numbers were drawn. *)
Sorted ==
  /\ \A i, j \in 1..Len(callbacks) : i < j => callbacks[i].number < callbacks[j].number
  /\ \A i \in 1..Len(callbacks) : callbacks[i].number < number
  /\ Leased => /\ callback.event.number < number
               /\ \A i \in 1..Len(callbacks) : callbacks[i].number # callback.event.number

(* No event is turned away while events are accepted, and open() starts with  *)
(* nothing delivered.                                                        *)
Gates ==
  /\ context \in {"none", "attached", "detached"}
  /\ accepting => context = "attached"
  /\ context = "detached" =>
       Place \in {"detaching", "drainingLast"} \/ owner \in {"detaching", "stopping", "destroyed"}
  /\ owner = "closingAgain" /\ call # "finalClose" => ~accepting
  /\ owner \in {"detaching", "stopping", "destroyed"} => ~accepting
  /\ lifecycle = "opening" /\ Place = "idle" => delivered = <<>>

Seen ==
  \A i, j \in 1..Len(delivered) :
    i < j /\ delivered[i].type = "data" /\ delivered[j].type = "data" =>
      /\ delivered[i].place < delivered[j].place
      /\ Gap(silent, delivered[i].place, delivered[j].place) => i + 1 < j

LParts == Gates /\ Sorted /\ delivered \in Seq(Piece) /\ Seen /\ (enabled => Flow)

LInv == OInv /\ LParts

-----------------------------------------------------------------------------
(* Lines in general. *)

(* Slots that count for nothing leave, and what is not data joins at the     *)
(* end: h maps the slots that stay to where they were.                       *)
Moved(L, n, M, k, k0, h) ==
  /\ n \in Nat /\ k \in Nat /\ k0 \in 0..k
  /\ L \in [1..n -> Slot] /\ M \in [1..k -> Slot] /\ h \in [1..k0 -> 1..n]
  /\ \A i, j \in 1..k0 : i < j <=> h[i] < h[j]
  /\ \A i \in 1..k0 : M[i] = L[h[i]]
  /\ \A i \in 1..k : i > k0 => M[i].type # "data"
  /\ \A m \in 1..n : L[m].type # "none" => \E i \in 1..k0 : h[i] = m

LEMMA LineKept ==
  ASSUME NEW S, NEW n, NEW k, NEW k0, NEW L, NEW M, NEW h, Moved(L, n, M, k, k0, h)
  PROVE  /\ Chained(S, L, n) => Chained(S, M, k)
         /\ \A B, C, event :
              Fits(S, L, n, B, event) /\ (\A i \in 1..k0 : h[i] \in B => i \in C)
                => Fits(S, M, k, C, event)
         /\ \A last : Caught(S, L, n, last) => Caught(S, M, k, last)
<1> USE DEF Moved
<1>1. ASSUME NEW i \in 1..k, M[i].type = "data"
      PROVE  /\ i \in 1..k0 /\ h[i] \in 1..n /\ L[h[i]] = M[i]
             /\ \A m \in 1..n : m > h[i] /\ L[m].type # "none" =>
                  \E g \in (i + 1)..k0 : h[g] = m /\ M[g].type # "none"
  <2>1. i \in 1..k0 /\ h[i] \in 1..n /\ L[h[i]] = M[i]
    BY <1>1
  <2>2. ASSUME NEW m \in 1..n, m > h[i], L[m].type # "none"
        PROVE  \E g \in (i + 1)..k0 : h[g] = m /\ M[g].type # "none"
    <3>1. PICK g \in 1..k0 : h[g] = m
      BY <2>2
    <3>2. i < g /\ M[g].type # "none"
      BY <2>1, <2>2, <3>1
    <3> QED BY <3>1, <3>2
  <2> QED BY <2>1, <2>2
<1>2. ASSUME Chained(S, L, n)
      PROVE  Chained(S, M, k)
  <2>1. SUFFICES ASSUME NEW i \in 1..k, NEW j \in 1..k, i < j,
                        M[i].type = "data", M[j].type = "data"
                 PROVE  /\ M[i].place < M[j].place
                        /\ Gap(S, M[i].place, M[j].place) =>
                             \E m \in (i + 1)..(j - 1) : M[m].type # "none"
    BY DEF Chained
  <2>2. i \in 1..k0 /\ j \in 1..k0 /\ h[i] < h[j]
    BY <1>1, <2>1
  <2>3. M[i].place < M[j].place
    BY <1>1, <1>2, <2>1, <2>2 DEF Chained
  <2>4. ASSUME Gap(S, M[i].place, M[j].place)
        PROVE  \E m \in (i + 1)..(j - 1) : M[m].type # "none"
    <3>0. h[i] \in 1..n /\ h[j] \in 1..n /\ L[h[i]] = M[i] /\ L[h[j]] = M[j]
      BY <1>1, <2>1
    <3>1. PICK m \in (h[i] + 1)..(h[j] - 1) : L[m].type # "none"
      <4>1. \A a, b \in 1..n : /\ a < b /\ L[a].type = "data" /\ L[b].type = "data"
                               /\ Gap(S, L[a].place, L[b].place)
                               => \E m \in (a + 1)..(b - 1) : L[m].type # "none"
        BY <1>2 DEF Chained
      <4>2. h[i] < h[j] /\ Gap(S, L[h[i]].place, L[h[j]].place)
        BY <2>2, <2>4, <3>0
      <4>3. L[h[i]].type = "data" /\ L[h[j]].type = "data"
        BY <2>1, <3>0
      <4> QED BY <3>0, <4>1, <4>2, <4>3, Zenon
    <3>2. m \in 1..n /\ m > h[i] /\ m < h[j]
      BY <2>2, <3>1
    <3>3. PICK g \in (i + 1)..k0 : h[g] = m /\ M[g].type # "none"
      BY <1>1, <2>1, <3>1, <3>2
    <3>4. g \in 1..k0 /\ g < j
      BY <2>2, <3>2, <3>3
    <3>5. g \in (i + 1)..(j - 1)
      BY <2>2, <3>3, <3>4
    <3> QED BY <3>3, <3>5
  <2> QED BY <2>3, <2>4
<1>3. ASSUME NEW B, NEW C, NEW event, Fits(S, L, n, B, event), \A i \in 1..k0 : h[i] \in B => i \in C
      PROVE  Fits(S, M, k, C, event)
  <2>1. SUFFICES ASSUME NEW i \in 1..k, M[i].type = "data"
                 PROVE  /\ i \in C
                        /\ IsData(event) =>
                             /\ M[i].place < event.place
                             /\ Gap(S, M[i].place, event.place) =>
                                  \E m \in (i + 1)..k : M[m].type # "none" /\ m \in C
    BY DEF Fits
  <2>2. i \in 1..k0 /\ h[i] \in 1..n /\ L[h[i]] = M[i] /\ h[i] \in B
    BY <1>1, <1>3, <2>1 DEF Fits
  <2>3. i \in C /\ (IsData(event) => M[i].place < event.place)
    BY <1>3, <2>1, <2>2 DEF Fits
  <2>4. ASSUME IsData(event), Gap(S, M[i].place, event.place)
        PROVE  \E m \in (i + 1)..k : M[m].type # "none" /\ m \in C
    <3>1. PICK m \in (h[i] + 1)..n : L[m].type # "none" /\ m \in B
      BY <1>3, <2>1, <2>2, <2>4 DEF Fits
    <3>2. m \in 1..n /\ m > h[i]
      BY <2>2, <3>1
    <3>3. PICK g \in (i + 1)..k0 : h[g] = m /\ M[g].type # "none"
      BY <1>1, <2>1, <3>1, <3>2
    <3>4. g \in 1..k0 /\ g \in (i + 1)..k
      BY <3>3
    <3> QED BY <1>3, <3>1, <3>3, <3>4
  <2> QED BY <2>3, <2>4
<1>4. ASSUME NEW last, Caught(S, L, n, last)
      PROVE  Caught(S, M, k, last)
  <2>1. SUFFICES ASSUME NEW i \in 1..k, M[i].type = "data"
                 PROVE  /\ M[i].place <= last
                        /\ Gap(S, M[i].place, last + 1) => \E m \in (i + 1)..k : M[m].type # "none"
    BY DEF Caught
  <2>2. i \in 1..k0 /\ h[i] \in 1..n /\ L[h[i]] = M[i]
    BY <1>1, <2>1
  <2>3. M[i].place <= last
    BY <1>4, <2>1, <2>2 DEF Caught
  <2>4. ASSUME Gap(S, M[i].place, last + 1)
        PROVE  \E m \in (i + 1)..k : M[m].type # "none"
    <3>1. PICK m \in (h[i] + 1)..n : L[m].type # "none"
      BY <1>4, <2>1, <2>2, <2>4 DEF Caught
    <3>2. m \in 1..n /\ m > h[i]
      BY <2>2, <3>1
    <3>3. PICK g \in (i + 1)..k0 : h[g] = m /\ M[g].type # "none"
      BY <1>1, <2>1, <3>1, <3>2
    <3>4. g \in (i + 1)..k
      BY <3>3
    <3> QED BY <3>3, <3>4
  <2> QED BY <2>3, <2>4
<1> QED BY <1>2, <1>3, <1>4

(* A slot that joins at p. *)
LEMMA LineEntered ==
  ASSUME NEW S, NEW n \in Nat, NEW p \in 1..(n + 1), NEW x \in Slot,
         NEW L \in [1..n -> Slot], NEW M \in [1..(n + 1) -> Slot],
         \A i \in 1..(n + 1) : M[i] = IF i < p THEN L[i] ELSE IF i = p THEN x ELSE L[i - 1],
         \A i \in 1..n : L[i].type = "data" => i < p
  PROVE  /\ /\ Chained(S, L, n)
            /\ x.type = "data" => \A i \in 1..n : L[i].type = "data" =>
                 /\ L[i].place < x.place
                 /\ Gap(S, L[i].place, x.place) =>
                      \E m \in (i + 1)..n : L[m].type # "none" /\ m < p
            => Chained(S, M, n + 1)
         /\ \A told, last \in Int :
              /\ Caught(S, L, n, told)
              /\ told = last \/ (told < last /\ x.type # "none")
              /\ x.type = "data" => x.place <= last /\ ~Gap(S, x.place, last + 1)
              => Caught(S, M, n + 1, last)
<1>1. ASSUME NEW i \in 1..(n + 1), M[i].type = "data"
      PROVE  \/ i < p /\ i \in 1..n /\ M[i] = L[i]
             \/ i = p /\ M[i] = x
  <2>1. CASE i > p
    <3>1. i - 1 \in 1..n /\ M[i] = L[i - 1] /\ ~(i - 1 < p)
      BY <2>1
    <3> QED BY <1>1, <3>1
  <2> QED BY <2>1
<1>2. ASSUME Chained(S, L, n),
             x.type = "data" => \A i \in 1..n : L[i].type = "data" =>
               /\ L[i].place < x.place
               /\ Gap(S, L[i].place, x.place) =>
                    \E m \in (i + 1)..n : L[m].type # "none" /\ m < p
      PROVE  Chained(S, M, n + 1)
  <2>1. SUFFICES ASSUME NEW i \in 1..(n + 1), NEW j \in 1..(n + 1), i < j,
                        M[i].type = "data", M[j].type = "data"
                 PROVE  /\ M[i].place < M[j].place
                        /\ Gap(S, M[i].place, M[j].place) =>
                             \E m \in (i + 1)..(j - 1) : M[m].type # "none"
    BY DEF Chained
  <2>2. i < p /\ i \in 1..n /\ M[i] = L[i]
    BY <1>1, <2>1
  <2>3. CASE j < p /\ j \in 1..n /\ M[j] = L[j]
    <3>1. \A m \in (i + 1)..(j - 1) : M[m] = L[m]
      BY <2>2, <2>3
    <3> QED BY <1>2, <2>1, <2>2, <2>3, <3>1 DEF Chained
  <2>4. CASE j = p /\ M[j] = x
    <3>1. /\ L[i].place < x.place
          /\ Gap(S, L[i].place, x.place) =>
               \E m \in (i + 1)..n : L[m].type # "none" /\ m < p
      BY <1>2, <2>1, <2>2, <2>4
    <3>2. \A m \in (i + 1)..n : m < p => m \in (i + 1)..(j - 1) /\ M[m] = L[m]
      BY <2>2, <2>4
    <3> QED BY <2>2, <2>4, <3>1, <3>2
  <2> QED BY <1>1, <2>1, <2>3, <2>4
<1>3. ASSUME NEW told \in Int, NEW last \in Int, Caught(S, L, n, told),
             told = last \/ (told < last /\ x.type # "none"),
             x.type = "data" => x.place <= last /\ ~Gap(S, x.place, last + 1)
      PROVE  Caught(S, M, n + 1, last)
  <2>1. SUFFICES ASSUME NEW i \in 1..(n + 1), M[i].type = "data"
                 PROVE  /\ M[i].place <= last
                        /\ Gap(S, M[i].place, last + 1) =>
                             \E m \in (i + 1)..(n + 1) : M[m].type # "none"
    BY DEF Caught
  <2>2. CASE i = p /\ M[i] = x
    BY <1>3, <2>1, <2>2
  <2>3. CASE i < p /\ i \in 1..n /\ M[i] = L[i]
    <3>1. L[i].place \in Nat /\ L[i].place <= told /\ told <= last
      BY <1>3, <2>1, <2>3 DEF Caught, Slot
    <3>2. ASSUME Gap(S, M[i].place, last + 1)
          PROVE  \E m \in (i + 1)..(n + 1) : M[m].type # "none"
      <4>1. CASE x.type # "none"
        <5>1. p \in (i + 1)..(n + 1) /\ M[p] = x
          BY <2>3
        <5> QED BY <4>1, <5>1
      <4>2. CASE told = last
        <5>1. PICK m \in (i + 1)..n : L[m].type # "none"
          BY <1>3, <2>1, <2>3, <3>2, <4>2 DEF Caught
        <5>2. CASE m < p
          <6>1. m \in (i + 1)..(n + 1) /\ M[m] = L[m]
            BY <2>3, <5>2
          <6> QED BY <5>1, <6>1
        <5>3. CASE ~(m < p)
          <6>1. m + 1 \in (i + 1)..(n + 1) /\ M[m + 1] = L[m]
            BY <2>3, <5>3
          <6> QED BY <5>1, <6>1
        <5> QED BY <5>2, <5>3
      <4> QED BY <1>3, <4>1, <4>2
    <3>3. M[i].place <= last
      BY <2>3, <3>1
    <3> QED BY <3>2, <3>3
  <2> QED BY <1>1, <2>1, <2>2, <2>3
<1> QED BY <1>2, <1>3

(* With more lost silently, no gap is new; and what is lost at the end leaves *)
(* the gaps before it.                                                       *)
LEMMA MoreSilent ==
  ASSUME NEW S, NEW T, S \subseteq T, NEW n, NEW L
  PROVE  /\ \A a, b : Gap(T, a, b) => Gap(S, a, b)
         /\ Chained(S, L, n) => Chained(T, L, n)
         /\ \A B, event : Fits(S, L, n, B, event) => Fits(T, L, n, B, event)
         /\ \A last : Caught(S, L, n, last) => Caught(T, L, n, last)
<1>1. \A a, b : Gap(T, a, b) => Gap(S, a, b)
  BY DEF Gap
<1> QED BY <1>1 DEF Chained, Fits, Caught

LEMMA SilentEnd ==
  ASSUME NEW S, NEW n \in Nat, NEW L \in [1..n -> Slot], NEW told \in Int, NEW last \in Int,
         told <= last, ~Gap(S, told, last + 1), Caught(S, L, n, told)
  PROVE  Caught(S, L, n, last)
<1>1. SUFFICES ASSUME NEW i \in 1..n, L[i].type = "data"
               PROVE  /\ L[i].place <= last
                      /\ Gap(S, L[i].place, last + 1) => \E m \in (i + 1)..n : L[m].type # "none"
  BY DEF Caught
<1>2. /\ L[i].place \in Nat /\ L[i].place <= told
      /\ Gap(S, L[i].place, told + 1) => \E m \in (i + 1)..n : L[m].type # "none"
  BY <1>1 DEF Caught, Slot
<1>3. Gap(S, L[i].place, last + 1) => Gap(S, L[i].place, told + 1)
  <2>1. SUFFICES ASSUME NEW p \in (L[i].place + 1)..last, p \notin S
                 PROVE  p \in (L[i].place + 1)..told
    BY <1>2 DEF Gap
  <2>2. ~(p \in (told + 1)..last)
    BY <2>1 DEF Gap
  <2> QED BY <1>2, <2>1, <2>2
<1> QED BY <1>2, <1>3

(* An insertion goes behind the smaller numbers of a queue in their order,   *)
(* and keeps that order.                                                     *)
LEMMA InsertSorted ==
  ASSUME NEW q \in Seq(AnyEvent), NEW e \in AnyEvent,
         \A i, j \in 1..Len(q) : i < j => q[i].number < q[j].number,
         \A i \in 1..Len(q) : q[i].number # e.number
  PROVE  LET r == Insert(e, q) IN
         /\ r \in Seq(AnyEvent) /\ Len(r) = Len(q) + 1
         /\ \A i, j \in 1..Len(r) : i < j => r[i].number < r[j].number
         /\ \E p \in 1..(Len(q) + 1) :
              /\ \A i \in 1..Len(q) : i < p <=> q[i].number < e.number
              /\ \A i \in 1..Len(r) : r[i] = IF i < p THEN q[i] ELSE IF i = p THEN e ELSE q[i - 1]
<1> DEFINE n == Len(q)
           A == {i \in DOMAIN q : q[i].number < e.number}
           p == Cardinality(A) + 1
           r == Insert(e, q)
<1>1. /\ p \in 1..(n + 1) /\ r \in Seq(AnyEvent) /\ Len(r) = n + 1
      /\ \A i \in 1..Len(r) : r[i] = IF i < p THEN q[i] ELSE IF i = p THEN e ELSE q[i - 1]
  BY InsertPlaces, ZenonT(40)
<1>2. A \subseteq 1..n /\ n \in Nat
  OBVIOUS
<1>3. \A i \in 1..n : q[i].number \in Nat
  <2>1. \A i \in 1..n : q[i] \in AnyEvent
    OBVIOUS
  <2> QED BY <2>1 DEF AnyEvent
<1>4. ASSUME NEW i \in 1..n
      PROVE  i < p <=> q[i].number < e.number
  <2>1. CASE i \in A
    <3>1. 1..i \subseteq A
      <4> SUFFICES ASSUME NEW j \in 1..i PROVE j \in A
        OBVIOUS
      <4>1. j \in 1..n /\ (j = i \/ q[j].number < q[i].number)
        BY <1>2
      <4> QED BY <1>3, <2>1, <4>1 DEF AnyEvent
    <3>2. IsFiniteSet(A)
      BY <1>2, FS_Interval, FS_Subset
    <3>3. Cardinality(1..i) = i
      BY FS_Interval
    <3>4. Cardinality(1..i) <= Cardinality(A) /\ Cardinality(A) \in Nat
      BY <3>1, <3>2, FS_Subset, FS_CardinalityType
    <3> QED BY <2>1, <3>3, <3>4
  <2>2. CASE i \notin A
    <3>1. A \subseteq 1..(i - 1)
      <4> SUFFICES ASSUME NEW j \in A, j >= i PROVE FALSE
        BY <1>2
      <4>1. j \in 1..n /\ q[j].number < e.number /\ (j = i \/ q[i].number < q[j].number)
        BY <1>2
      <4>2. q[i].number < e.number
        BY <1>3, <4>1 DEF AnyEvent
      <4> QED BY <2>2, <4>2
    <3>2. IsFiniteSet(1..(i - 1)) /\ Cardinality(1..(i - 1)) = i - 1
      <4>1. i - 1 \in Int /\ 1 \in Int
        OBVIOUS
      <4>2. /\ IsFiniteSet(1..(i - 1))
            /\ Cardinality(1..(i - 1)) = IF 1 > i - 1 THEN 0 ELSE (i - 1) - 1 + 1
        BY <4>1, FS_Interval
      <4> QED BY <4>2
    <3>3. Cardinality(A) <= i - 1 /\ Cardinality(A) \in Nat
      BY <3>1, <3>2, FS_Subset, FS_CardinalityType
    <3> QED BY <2>2, <3>3
  <2> QED BY <2>1, <2>2
<1> HIDE DEF A, p, r
<1>5. ASSUME NEW i \in 1..Len(r), NEW j \in 1..Len(r), i < j
      PROVE  r[i].number < r[j].number
  <2>1. i \in 1..(n + 1) /\ j \in 1..(n + 1) /\ e.number \in Nat
    BY <1>1 DEF AnyEvent
  <2>2. CASE j < p
    BY <1>1, <1>5, <2>1, <2>2
  <2>3. CASE j = p
    <3>1. r[j] = e /\ r[i] = q[i] /\ i < p /\ i \in 1..n
      BY <1>1, <1>5, <2>1, <2>3
    <3> QED BY <1>4, <3>1
  <2>4. CASE j > p /\ i < p
    <3>1. r[j] = q[j - 1] /\ r[i] = q[i] /\ i \in 1..n /\ j - 1 \in 1..n /\ i < j - 1
      BY <1>1, <1>5, <2>1, <2>4
    <3> QED BY <1>1, <1>5, <2>1, <2>4, <3>1
  <2>5. CASE j > p /\ i = p
    <3>1. r[j] = q[j - 1] /\ r[i] = e /\ j - 1 \in 1..n /\ ~(j - 1 < p)
      BY <1>1, <1>5, <2>1, <2>5
    <3>2. q[j - 1].number \in Nat /\ ~(q[j - 1].number < e.number) /\ q[j - 1].number # e.number
      BY <1>3, <1>4, <3>1
    <3> QED BY <2>1, <3>1, <3>2
  <2>6. CASE j > p /\ i > p
    <3>1. r[j] = q[j - 1] /\ r[i] = q[i - 1] /\ j - 1 \in 1..n /\ i - 1 \in 1..n /\ i - 1 < j - 1
      BY <1>1, <1>5, <2>1, <2>6
    <3> QED BY <3>1
  <2> QED BY <1>1, <1>5, <2>1, <2>2, <2>3, <2>4, <2>5, <2>6
<1> QED BY <1>1, <1>4, <1>5 DEF r

-----------------------------------------------------------------------------
(* The line of a state. *)

LEMMA ItemSlot == ASSUME NEW event \in AnyEvent PROVE Item(event) \in Slot
BY DEF Item, TypeOf, Slot, AnyEvent

LineTyped ==
  /\ Len(delivered) \in Nat /\ Len(callbacks) \in Nat /\ Ahead \in Nat /\ Size \in Nat
  /\ line \in [1..Size -> Slot]
  /\ \A i \in 1..Len(callbacks) : callbacks[i] \in AnyEvent

LEMMA LineType == OInv /\ delivered \in Seq(Piece) => LineTyped
<1> SUFFICES ASSUME OInv, delivered \in Seq(Piece) PROVE LineTyped
  OBVIOUS
<1>1. Len(delivered) \in Nat /\ Len(callbacks) \in Nat /\ callbacks \in Seq(AnyEvent)
  BY DEF OInv, OParts, Typed
<1>2. Ahead \in Nat /\ Size \in Nat
  BY <1>1 DEF Ahead, Size
<1>3. ASSUME NEW i \in 1..Size
      PROVE  line[i] \in Slot
  <2>1. CASE i <= Len(delivered)
    <3>1. delivered[i] \in Piece /\ line[i] = delivered[i]
      BY <1>1, <1>2, <2>1 DEF line
    <3> QED BY <3>1 DEF Piece, Slot
  <2>2. CASE ~(i <= Len(delivered)) /\ i <= Ahead
    <3>1. InHand /\ line[i] = Item(worker.event)
      BY <1>1, <1>2, <2>2 DEF line, Ahead
    <3> QED BY <3>1, ItemSlot DEF OInv, OParts, Typed
  <2>3. CASE ~(i <= Len(delivered)) /\ ~(i <= Ahead)
    <3>1. i - Ahead \in 1..Len(callbacks) /\ line[i] = Item(callbacks[i - Ahead])
      BY <1>1, <1>2, <2>3 DEF line, Size
    <3>2. callbacks[i - Ahead] \in AnyEvent
      BY <1>1, <3>1
    <3> QED BY <3>1, <3>2, ItemSlot
  <2> QED BY <2>1, <2>2, <2>3
<1>4. line \in [1..Size -> Slot]
  <2>1. line = [i \in 1..Size |-> line[i]]
    BY DEF line
  <2> QED BY <1>3, <2>1
<1> QED BY <1>1, <1>2, <1>4 DEF LineTyped

(* Steps that touch no event of the line, ... *)
LEMMA LineSame ==
  ASSUME UNCHANGED <<delivered, callbacks>>, InHand' = InHand,
         InHand => worker'.event = worker.event
  PROVE  line' = line /\ Size' = Size /\ Ahead' = Ahead
<1>1. /\ Len(delivered)' = Len(delivered) /\ Len(callbacks)' = Len(callbacks)
      /\ Ahead' = Ahead /\ Size' = Size
  BY DEF Ahead, Size
<1>2. ASSUME NEW i \in 1..Size
      PROVE  (IF i <= Len(delivered) THEN delivered[i]
              ELSE IF i <= Ahead THEN Item(worker.event)
              ELSE Item(callbacks[i - Ahead]))'
             = IF i <= Len(delivered) THEN delivered[i]
               ELSE IF i <= Ahead THEN Item(worker.event)
               ELSE Item(callbacks[i - Ahead])
  <2>1. CASE InHand
    BY <1>1, <2>1 DEF Item, TypeOf
  <2>2. CASE ~InHand
    BY <1>1, <2>2 DEF Ahead
  <2> QED BY <2>1, <2>2
<1> QED BY <1>1, <1>2 DEF line

(* ... nor the callback's. *)
LEMMA FlowSame ==
  ASSUME Flow, UNCHANGED <<delivered, callbacks, callback, sent, silent>>,
         InHand' = InHand, InHand => worker'.event = worker.event, accepting' => accepting
  PROVE  Flow'
<1>1. line' = line /\ Size' = Size /\ Ahead' = Ahead
  BY LineSame
<1>2. early' = early
  BY <1>1 DEF early
<1>3. Leased' = Leased /\ Coming' = Coming /\ Told' = Told
  BY DEF Leased, Coming, Told
<1> QED BY <1>1, <1>2, <1>3 DEF Flow

LEMMA NoFlow ==
  ASSUME delivered' = <<>>, callbacks' = <<>>, ~InHand', ~Leased'
  PROVE  Flow'
<1>1. Size' = 0
  BY DEF Size, Ahead
<1> QED BY <1>1 DEF Flow, Chained, Fits, Caught, Coming

LEMMA SortedSame ==
  ASSUME Sorted, UNCHANGED <<callbacks, callback, number>>
  PROVE  Sorted'
BY DEF Sorted, Leased

(* What is delivered from a line in order is in order. *)
LEMMA SeenFlow == OInv /\ delivered \in Seq(Piece) /\ Flow => Seen
<1> SUFFICES ASSUME OInv, delivered \in Seq(Piece), Flow PROVE Seen
  OBVIOUS
<1>1. \A i \in 1..Len(delivered) : i \in 1..Size /\ line[i] = delivered[i]
  BY LineType DEF LineTyped, line, Size, Ahead
<1>2. SUFFICES ASSUME NEW i \in 1..Len(delivered), NEW j \in 1..Len(delivered), i < j,
                      delivered[i].type = "data", delivered[j].type = "data"
               PROVE  /\ delivered[i].place < delivered[j].place
                      /\ Gap(silent, delivered[i].place, delivered[j].place) => i + 1 < j
  BY DEF Seen
<1>3. /\ line[i].place < line[j].place
      /\ Gap(silent, line[i].place, line[j].place) =>
           \E m \in (i + 1)..(j - 1) : line[m].type # "none"
  BY <1>1, <1>2 DEF Flow, Chained
<1> QED BY <1>1, <1>2, <1>3, LineType DEF LineTyped

-----------------------------------------------------------------------------
(* The events' way. *)

LEMMA TakeFlow ==
  ASSUME LInv, Take, OInv', enabled'
  PROVE  Flow'
<1> USE DEF LInv, LParts, deviceVars, heldVars, gateVars, historyVars
<1>1. /\ callbacks # <<>> /\ callbacks' = Tail(callbacks) /\ ~InHand /\ InHand'
      /\ worker'.event = Head(callbacks)
      /\ UNCHANGED <<delivered, silent, callback, sent, accepting, enabled>>
  BY DEF Take, InHand, TakesEvents, Idle
<1>2. /\ Len(delivered) \in Nat /\ Len(callbacks) \in Nat /\ Ahead \in Nat /\ Size \in Nat
      /\ line \in [1..Size -> Slot]
  BY LineType DEF LineTyped
<1>3. callbacks \in Seq(AnyEvent)
  BY DEF OInv, OParts, Typed
<1>4. /\ Len(callbacks') = Len(callbacks) - 1 /\ worker'.event = callbacks[1]
      /\ 1 \in 1..Len(callbacks)
      /\ \A i \in 1..(Len(callbacks) - 1) : callbacks'[i] = callbacks[i + 1]
  BY <1>1, <1>3
<1>5. Ahead = Len(delivered) /\ Ahead' = Ahead + 1 /\ Size' = Size
  BY <1>1, <1>2, <1>4 DEF Ahead, Size
<1>6. Len(delivered') \in Nat /\ line' \in [1..Size -> Slot]
  <2>1. (delivered \in Seq(Piece))'
    BY <1>1
  <2>2. (OInv /\ delivered \in Seq(Piece) => LineTyped)'
    BY LineType, PTL
  <2>3. (line \in [1..Size -> Slot])'
    BY <2>1, <2>2 DEF LineTyped
  <2> QED BY <1>1, <1>2, <1>5, <2>3
<1>7. ASSUME NEW i \in 1..Size
      PROVE  line'[i] = line[i] /\ (i \in early => i \in early')
  <2>1. \A event : Item(event)' = Item(event)
    BY DEF Item, TypeOf
  <2>2. CASE i <= Len(delivered)
    BY <1>1, <1>2, <1>5, <2>2 DEF line, early
  <2>3. CASE i = Ahead + 1
    <3>1. line[i] = Item(callbacks[1])
      BY <1>2, <1>5, <2>3 DEF line
    <3>2. line'[i] = Item(worker'.event)
      <4>1. line'[i] = Item(worker.event)'
        BY <1>1, <1>2, <1>5, <2>3 DEF line
      <4> QED BY <4>1 DEF Item, TypeOf
    <3>3. i \in early'
      BY <1>2, <1>5, <2>3 DEF early
    <3> QED BY <1>4, <3>1, <3>2, <3>3
  <2>4. CASE i > Ahead + 1
    <3>1. i - Ahead' = (i - Ahead) - 1 /\ (i - Ahead) - 1 \in 1..(Len(callbacks) - 1)
      BY <1>2, <1>5, <2>4 DEF Size
    <3>2. callbacks'[i - Ahead'] = callbacks[i - Ahead]
      <4> DEFINE j == (i - Ahead) - 1
      <4>1. j + 1 = i - Ahead /\ j \in 1..(Len(callbacks) - 1)
        BY <1>2, <3>1
      <4>2. callbacks'[j] = callbacks[j + 1]
        BY <1>4, <4>1
      <4>3. i - Ahead' = j
        BY <3>1
      <4> HIDE DEF j
      <4> QED BY <4>1, <4>2, <4>3
    <3>3. line[i] = Item(callbacks[i - Ahead])
      BY <1>2, <1>5, <2>4 DEF line
    <3>4. line'[i] = Item(callbacks'[i - Ahead'])
      <4>1. ~(i <= Len(delivered')) /\ ~(i <= Ahead') /\ i \in 1..Size'
        BY <1>1, <1>2, <1>5, <2>4
      <4>2. line'[i] = Item(callbacks[i - Ahead])'
        BY <4>1 DEF line
      <4> QED BY <4>2 DEF Item, TypeOf
    <3>5. i \in early => i \in early'
      <4>1. ~(i <= Ahead) /\ i \in 1..Size'
        BY <1>2, <1>5, <2>4
      <4>2. i \in early => callbacks[i - Ahead].number < callback.event.number
        BY <4>1 DEF early
      <4>3. callbacks'[i - Ahead'].number < callback'.event.number => i \in early'
        BY <4>1 DEF early
      <4> QED BY <1>1, <3>2, <4>2, <4>3
    <3> QED BY <3>2, <3>3, <3>4, <3>5
  <2> QED BY <1>2, <1>5, <2>2, <2>3, <2>4
<1>8. line' = line
  BY <1>2, <1>6, <1>7
<1>9. Leased' = Leased /\ Coming' = Coming /\ Told' = Told
  BY <1>1 DEF Leased, Coming, Told, TypeOf, IsData, IsLoss
<1>10. Flow
  BY <1>1
<1>11. Leased => Fits(silent, line, Size, early', callback.event)
  BY <1>7, <1>10 DEF Flow, Fits
<1> QED BY <1>1, <1>5, <1>8, <1>9, <1>10, <1>11 DEF Flow

(* A callback begins: while events are accepted it has the next event of     *)
(* the device, whose number is the highest.                                  *)
LEMMA EnterFlow ==
  ASSUME LInv, OInv', Flow, NEW kind, NEW place, NEW buffer, Enter(kind, place, buffer),
         UNCHANGED <<delivered, silent, callbacks, worker, accepting>>,
         \/ kind \in Kinds /\ place = sent + 1 /\ sent' = sent + 1
         \/ kind = "empty" /\ sent' = sent
  PROVE  Flow'
<1> USE DEF LInv, LParts
<1>1. /\ Len(delivered) \in Nat /\ Len(callbacks) \in Nat /\ Ahead \in Nat /\ Size \in Nat
      /\ line \in [1..Size -> Slot] /\ sent \in Nat
  BY LineType DEF LineTyped, OInv, OParts, Typed
<1>2. ~Leased
  BY DEF Enter, Leased, NoCallback
<1>3. Ahead' = Ahead /\ Size' = Size /\ InHand' = InHand
  BY DEF Ahead, Size, InHand
<1>4. line' = line
  BY <1>3, LineSame
<1>5. accepting => Caught(silent, line, Size, sent)
  BY <1>2 DEF Flow, Coming, Told
<1>6. CASE callback' = callback
  <2>1. ~Leased' /\ ~Coming'
    BY <1>2, <1>6 DEF Leased, Coming
  <2>2. ~accepting \/ sent' = sent
    <3>1. callback # [at |-> "leased", event |-> Event(kind, place, buffer, accepting)]
      BY <1>2 DEF Leased
    <3>2. ~accepting
      BY <1>6, <3>1 DEF Enter, Gates
    <3> QED BY <3>2
  <2>3. Chained(silent, line, Size)'
    BY <1>3, <1>4 DEF Flow
  <2>4. accepting' => Caught(silent, line, Size, Told)'
    BY <1>3, <1>4, <1>5, <2>1, <2>2 DEF Told
  <2> QED BY <2>1, <2>3, <2>4 DEF Flow
<1>7. CASE callback' # callback
  <2> DEFINE e == callback'.event
  <2>1. Leased' /\ e = Event(kind, place, buffer, accepting)
    BY <1>7 DEF Enter, Leased
  <2>2. e.number = number /\ e.kind = kind /\ e.place = place /\ e.accepted = accepting
    BY <2>1 DEF Event
  <2>3. IsData(e) => accepting /\ place = sent + 1 /\ sent' = sent + 1
    BY <2>2 DEF IsData
  <2>4. accepting /\ kind \in Kinds => TypeOf(e) # "none"
    BY <2>2 DEF TypeOf, IsData, IsLoss, Kinds
  <2>5. early' = 1..Size
    <3>1. \A i \in 1..Size : i > Ahead => callbacks[i - Ahead].number < number
      BY <1>1 DEF Size, Sorted
    <3>2. ASSUME NEW i \in 1..Size
          PROVE  i <= Ahead \/ callbacks[i - Ahead].number < e.number
      BY <1>1, <2>2, <3>1
    <3>3. UNCHANGED <<Ahead, Size, callbacks>>
      BY <1>3
    <3>4. early' = {i \in 1..Size : i <= Ahead \/ callbacks[i - Ahead].number < e.number}
      BY <3>3 DEF early
    <3> QED BY <3>2, <3>4
  <2> HIDE DEF e
  <2>6. Fits(silent, line, Size, 1..Size, e)
    <3>1. SUFFICES ASSUME NEW i \in 1..Size, line[i].type = "data", IsData(e)
                   PROVE  /\ line[i].place < e.place
                          /\ Gap(silent, line[i].place, e.place) =>
                               \E m \in (i + 1)..Size : line[m].type # "none" /\ m \in 1..Size
      BY DEF Fits
    <3>2. line[i].place <= sent /\ line[i].place \in Nat
      BY <1>1, <1>5, <2>3, <3>1 DEF Caught, Slot
    <3>3. Gap(silent, line[i].place, sent + 1) => \E m \in (i + 1)..Size : line[m].type # "none"
      BY <1>5, <2>3, <3>1 DEF Caught
    <3>4. e.place = sent + 1
      BY <2>2, <2>3, <3>1
    <3> QED BY <1>1, <3>1, <3>2, <3>3, <3>4
  <2>7. ASSUME accepting
        PROVE  IF TypeOf(e) # "none"
               THEN /\ e.place = sent' /\ e.place - 1 = sent /\ e.place <= sent'
                    /\ ~Gap(silent, e.place, sent' + 1)
               ELSE sent' = sent
    <3>1. CASE kind \in Kinds /\ place = sent + 1 /\ sent' = sent + 1
      <4>1. e.place = sent' /\ e.place - 1 = sent /\ e.place <= sent'
        BY <1>1, <2>2, <3>1
      <4>2. ~Gap(silent, e.place, sent' + 1)
        BY <1>1, <3>1, <4>1 DEF Gap
      <4> QED BY <2>4, <2>7, <3>1, <4>1, <4>2
    <3>2. CASE kind = "empty" /\ sent' = sent
      BY <2>2, <3>2 DEF TypeOf, IsData, IsLoss
    <3> QED BY <3>1, <3>2
  <2>8. Coming' = (TypeOf(e) # "none")
    BY <2>1 DEF Coming, TypeOf, IsData, IsLoss, e
  <2>9. Leased' => Fits(silent, line, Size, early, callback.event)'
    BY <1>3, <1>4, <2>5, <2>6 DEF Fits, IsData, e
  <2>10. Chained(silent, line, Size)'
    BY <1>3, <1>4 DEF Flow
  <2>11. accepting => Told' = sent
    BY <2>7, <2>8 DEF Told, e
  <2>12. accepting' => Caught(silent, line, Size, Told)'
    BY <1>3, <1>4, <1>5, <2>11
  <2>13. accepting' /\ Coming' => /\ callback'.event.place <= sent'
                                 /\ ~Gap(silent', callback'.event.place, sent' + 1)
    BY <2>7, <2>8 DEF e
  <2> QED BY <2>9, <2>10, <2>12, <2>13 DEF Flow
<1> QED BY <1>6, <1>7

(* An event joins the queue before what overtook it, which is no data.       *)
LEMMA JoinFlow ==
  ASSUME LInv, OInv', Flow, Leased, ~Leased', NEW x \in AnyEvent,
         x.number = callback.event.number,
         callbacks' = Insert(x, callbacks),
         UNCHANGED <<delivered, silent, sent, worker, accepting>>,
         TypeOf(callback.event) # "none" => TypeOf(x) # "none",
         IsData(x) => x.place = callback.event.place /\ IsData(callback.event)
  PROVE  Flow'
<1> USE DEF LInv, LParts
<1>1. /\ Len(delivered) \in Nat /\ Len(callbacks) \in Nat /\ Ahead \in Nat /\ Size \in Nat
      /\ line \in [1..Size -> Slot] /\ sent \in Nat
  BY LineType DEF LineTyped, OInv, OParts, Typed
<1>2. callbacks \in Seq(AnyEvent)
  BY DEF OInv, OParts, Typed
<1>3. /\ \A i, j \in 1..Len(callbacks) : i < j => callbacks[i].number < callbacks[j].number
      /\ \A i \in 1..Len(callbacks) : callbacks[i].number # x.number
  BY DEF Sorted
<1>4. PICK p0 \in 1..(Len(callbacks) + 1) :
        /\ Len(callbacks') = Len(callbacks) + 1
        /\ \A i \in 1..Len(callbacks) : i < p0 <=> callbacks[i].number < x.number
        /\ \A i \in 1..Len(callbacks') :
             callbacks'[i] = IF i < p0 THEN callbacks[i] ELSE IF i = p0 THEN x ELSE callbacks[i - 1]
  <2> DEFINE r == Insert(x, callbacks)
  <2>1. /\ Len(r) = Len(callbacks) + 1
        /\ \E g \in 1..(Len(callbacks) + 1) :
             /\ \A i \in 1..Len(callbacks) : i < g <=> callbacks[i].number < x.number
             /\ \A i \in 1..Len(r) :
                  r[i] = IF i < g THEN callbacks[i] ELSE IF i = g THEN x ELSE callbacks[i - 1]
    BY <1>2, <1>3, InsertSorted
  <2>2. callbacks' = r
    OBVIOUS
  <2> HIDE DEF r
  <2> QED BY <2>1, <2>2
<1> DEFINE p == Ahead + p0
<1>5. p \in 1..(Size + 1) /\ p > Ahead
  BY <1>1, <1>4 DEF Size
<1>6. Ahead' = Ahead /\ Size' = Size + 1 /\ InHand' = InHand
  <2>1. Ahead' = Ahead /\ InHand' = InHand
    BY DEF Ahead, InHand
  <2> QED BY <1>1, <1>4, <2>1 DEF Size
<1>7. line' \in [1..(Size + 1) -> Slot]
  <2>1. (delivered \in Seq(Piece))'
    OBVIOUS
  <2>2. (OInv /\ delivered \in Seq(Piece) => LineTyped)'
    BY LineType, PTL
  <2>3. (line \in [1..Size -> Slot])'
    BY <2>1, <2>2 DEF LineTyped
  <2> QED BY <1>6, <2>3
<1>8. Item(x) \in Slot
  BY ItemSlot
<1>9. ASSUME NEW i \in 1..(Size + 1)
      PROVE  line'[i] = IF i < p THEN line[i] ELSE IF i = p THEN Item(x) ELSE line[i - 1]
  <2>1. CASE i <= Ahead
    <3>1. i < p /\ i \in 1..Size /\ i \in 1..Size' /\ i <= Ahead'
      BY <1>1, <1>5, <1>6, <2>1 DEF Size
    <3>2. line[i] = IF i <= Len(delivered) THEN delivered[i] ELSE Item(worker.event)
      BY <2>1, <3>1 DEF line
    <3>3. line'[i] = (IF i <= Len(delivered) THEN delivered[i] ELSE Item(worker.event))'
      BY <3>1 DEF line
    <3>4. Item(worker.event)' = Item(worker.event)
      BY DEF Item, TypeOf
    <3> QED BY <3>1, <3>2, <3>3, <3>4
  <2>2. CASE i > Ahead
    <3> DEFINE j == i - Ahead
    <3>1. j \in 1..Len(callbacks') /\ Len(delivered) <= Ahead /\ ~(i <= Len(delivered))
      BY <1>1, <1>4, <2>2 DEF Size, Ahead
    <3>2. line'[i] = Item(callbacks'[j])
      <4>1. i \in 1..Size' /\ ~(i <= Ahead') /\ ~(i <= Len(delivered')) /\ i - Ahead' = j
        BY <1>1, <1>6, <2>2, <3>1
      <4>2. line'[i] = Item(callbacks[i - Ahead])'
        BY <4>1 DEF line
      <4> QED BY <4>1, <4>2 DEF Item, TypeOf
    <3>3. i < p <=> j < p0
      BY <1>1, <1>4
    <3>4. i = p <=> j = p0
      BY <1>1, <1>4
    <3>5. CASE i < p
      <4>1. i \in 1..Size
        BY <1>1, <1>4, <1>5, <3>5 DEF Size
      <4>2. line[i] = Item(callbacks[j])
        BY <1>1, <2>2, <3>1, <4>1 DEF line
      <4> QED BY <1>4, <3>1, <3>2, <3>3, <3>5, <4>2
    <3>6. CASE i = p
      <4>1. j = p0 /\ ~(j < p0) /\ ~(i < p)
        BY <1>1, <1>4, <3>4, <3>6
      <4>2. callbacks'[j] = x
        BY <1>4, <3>1, <4>1
      <4> HIDE DEF p, j
      <4> QED BY <3>2, <3>6, <4>1, <4>2
    <3>7. CASE i > p
      <4>1. i - 1 \in 1..Size /\ ~(i - 1 <= Ahead) /\ (i - 1) - Ahead = j - 1
        BY <1>1, <1>5, <3>7
      <4>2. line[i - 1] = Item(callbacks[(i - 1) - Ahead])
        <5>1. ~(i - 1 <= Len(delivered))
          BY <1>1, <4>1 DEF Ahead
        <5> QED BY <4>1, <5>1 DEF line
      <4>3. ~(j < p0) /\ j # p0 /\ ~(i < p) /\ i # p
        BY <1>1, <1>4, <3>7
      <4>4. callbacks'[j] = callbacks[j - 1]
        BY <1>4, <3>1, <4>3
      <4> HIDE DEF p, j
      <4> QED BY <3>2, <4>1, <4>2, <4>3, <4>4
    <3> QED BY <1>1, <1>4, <3>5, <3>6, <3>7
  <2> QED BY <1>1, <2>1, <2>2
<1>10. ASSUME NEW i \in 1..Size, i \in early
       PROVE  i < p
  <2>1. CASE i <= Ahead
    BY <1>1, <1>5, <2>1
  <2>2. CASE i > Ahead
    <3>1. i - Ahead \in 1..Len(callbacks) /\ ~(i <= Ahead)
      BY <1>1, <2>2 DEF Size
    <3>2. callbacks[i - Ahead].number < x.number
      BY <1>10, <3>1 DEF early
    <3>3. i - Ahead < p0
      BY <1>4, <3>1, <3>2
    <3> QED BY <1>1, <1>4, <3>3
  <2> QED BY <1>1, <2>1, <2>2
<1> HIDE DEF p
<1>11. Fits(silent, line, Size, early, callback.event)
  BY DEF Flow
<1>12. \A i \in 1..Size : line[i].type = "data" => i < p
  BY <1>10, <1>11 DEF Fits
<1>13. Item(x).type = TypeOf(x) /\ (TypeOf(x) = "data" <=> IsData(x)) /\ Item(x).place = x.place
  BY DEF Item, TypeOf
<1>14. IsData(x) => \A i \in 1..Size : line[i].type = "data" =>
         /\ line[i].place < x.place
         /\ Gap(silent, line[i].place, x.place) =>
              \E m \in (i + 1)..Size : line[m].type # "none" /\ m < p
  <2>1. SUFFICES ASSUME IsData(x), NEW i \in 1..Size, line[i].type = "data"
                 PROVE  /\ line[i].place < x.place
                        /\ Gap(silent, line[i].place, x.place) =>
                             \E m \in (i + 1)..Size : line[m].type # "none" /\ m < p
    OBVIOUS
  <2>2. x.place = callback.event.place /\ IsData(callback.event)
    BY <2>1
  <2>3. /\ line[i].place < x.place
        /\ Gap(silent, line[i].place, x.place) =>
             \E m \in (i + 1)..Size : line[m].type # "none" /\ m \in early
    BY <1>11, <2>1, <2>2 DEF Fits
  <2> QED BY <1>10, <2>3 DEF early
<1>15. Chained(silent, line, Size)' /\ ~Coming'
  <2>1. Chained(silent, line, Size)
    BY DEF Flow
  <2>2. Chained(silent, line', Size + 1)
    <3> DEFINE y == Item(x)
    <3>1. y.type = "data" => \A i \in 1..Size : line[i].type = "data" =>
            /\ line[i].place < y.place
            /\ Gap(silent, line[i].place, y.place) =>
                 \E m \in (i + 1)..Size : line[m].type # "none" /\ m < p
      BY <1>13, <1>14
    <3>2. \A i \in 1..(Size + 1) :
            line'[i] = IF i < p THEN line[i] ELSE IF i = p THEN y ELSE line[i - 1]
      BY <1>9
    <3>3. y \in Slot
      BY <1>8
    <3> HIDE DEF y
    <3> QED BY <1>1, <1>5, <1>7, <1>12, <2>1, <3>1, <3>2, <3>3, LineEntered
  <2> QED BY <1>6, <2>2 DEF Coming
<1>16. accepting' => Caught(silent, line, Size, Told)'
  <2>1. SUFFICES ASSUME accepting PROVE Caught(silent, line', Size + 1, sent)
    BY <1>6, <1>15 DEF Told
  <2>2. /\ Caught(silent, line, Size, Told)
        /\ Coming => /\ callback.event.place <= sent
                     /\ ~Gap(silent, callback.event.place, sent + 1)
    BY <2>1 DEF Flow
  <2>3. callback.event.place \in Nat
    BY DEF OInv, OParts, Typed, AnyEvent
  <2>4. Told \in Int /\ (Told = sent \/ (Told < sent /\ Item(x).type # "none"))
    <3>1. CASE Coming
      BY <1>1, <1>13, <2>2, <2>3, <3>1 DEF Told, Coming
    <3>2. CASE ~Coming
      <4>1. Told = sent
        BY <3>2 DEF Told
      <4> QED BY <1>1, <4>1
    <3> QED BY <3>1, <3>2
  <2>5. Item(x).type = "data" => Item(x).place <= sent /\ ~Gap(silent, Item(x).place, sent + 1)
    BY <1>13, <2>2 DEF Coming, TypeOf
  <2> DEFINE y == Item(x)
  <2>6. /\ y \in Slot
        /\ \A i \in 1..(Size + 1) :
             line'[i] = IF i < p THEN line[i] ELSE IF i = p THEN y ELSE line[i - 1]
        /\ Told = sent \/ (Told < sent /\ y.type # "none")
        /\ y.type = "data" => y.place <= sent /\ ~Gap(silent, y.place, sent + 1)
    BY <1>8, <1>9, <2>4, <2>5
  <2> HIDE DEF y
  <2>7. sent \in Int
    BY <1>1
  <2> QED BY <1>1, <1>5, <1>7, <1>12, <2>2, <2>4, <2>6, <2>7, LineEntered
<1> QED BY <1>15, <1>16 DEF Flow

LEMMA QueueFlow ==
  ASSUME LInv, Queue, OInv', enabled'
  PROVE  Flow'
<1> USE DEF LInv, LParts, deviceVars, gateVars, historyVars
<1> DEFINE e == callback.event
           drop == [e EXCEPT !.kind = "overflow", !.place = 0]
<1>1. /\ Leased /\ ~Leased' /\ Push(e) /\ Flow
      /\ UNCHANGED <<delivered, silent, sent, worker, accepting>>
  BY DEF Queue, Leased, NoCallback
<1>2. e \in AnyEvent /\ drop \in AnyEvent
  BY <1>1 DEF OInv, OParts, Typed, AnyEvent, AnyKind
<1>3. drop.number = e.number /\ drop.kind = "overflow"
  BY <1>2 DEF AnyEvent
<1>4. TypeOf(drop) = "loss" /\ ~IsData(drop)
  BY <1>3 DEF TypeOf, IsData, IsLoss
<1> HIDE DEF drop
<1>5. CASE callbacks' = Insert(e, callbacks)
  BY <1>1, <1>2, <1>5, JoinFlow
<1>6. CASE callbacks' = Insert(drop, callbacks)
  BY <1>1, <1>2, <1>3, <1>4, <1>6, JoinFlow
<1>7. CASE callbacks' = callbacks /\ callbacks # <<>> /\ Last(callbacks).kind = "overflow"
  <2>1. /\ Len(delivered) \in Nat /\ Len(callbacks) \in Nat /\ Ahead \in Nat /\ Size \in Nat
        /\ line \in [1..Size -> Slot] /\ callbacks \in Seq(AnyEvent)
    BY LineType DEF LineTyped, OInv, OParts, Typed
  <2>2. Len(callbacks) \in 1..Len(callbacks) /\ Size \in 1..Size /\ Size > Ahead
        /\ Size - Ahead = Len(callbacks)
    BY <1>7, <2>1 DEF Size
  <2>3. line[Size].type = "loss"
    <3>1. line[Size] = Item(callbacks[Len(callbacks)])
      <4>1. ~(Size <= Len(delivered)) /\ ~(Size <= Ahead)
        BY <2>1, <2>2 DEF Ahead
      <4> QED BY <2>2, <4>1 DEF line
    <3>2. callbacks[Len(callbacks)].kind = "overflow"
      BY <1>7 DEF Last
    <3> QED BY <3>1, <3>2 DEF Item, TypeOf, IsData, IsLoss
  <2>4. Ahead' = Ahead /\ Size' = Size /\ InHand' = InHand
    BY <1>1, <1>7 DEF Ahead, Size, InHand
  <2>5. line' = line
    BY <1>1, <1>7, <2>4, LineSame
  <2>6. accepting => Caught(silent, line, Size, sent)
    <3>1. SUFFICES ASSUME accepting, NEW i \in 1..Size, line[i].type = "data"
                   PROVE  /\ line[i].place <= sent
                          /\ \E m \in (i + 1)..Size : line[m].type # "none"
      BY DEF Caught
    <3>2. i # Size
      BY <2>3, <3>1
    <3>3. Size \in (i + 1)..Size
      BY <2>1, <3>2
    <3>4. line[i].place \in Nat /\ line[i].place <= Told /\ e.place \in Nat /\ sent \in Nat
      BY <1>1, <1>2, <2>1, <3>1, LineType
      DEF Flow, Caught, LineTyped, Slot, AnyEvent, OInv, OParts, Typed
    <3>5. line[i].place <= sent
      BY <1>1, <3>1, <3>4 DEF Flow, Told
    <3> QED BY <2>3, <3>3, <3>5
  <2>7. Chained(silent, line, Size)' /\ ~Coming'
    BY <1>1, <2>4, <2>5 DEF Flow, Coming
  <2>8. accepting' => Caught(silent, line, Size, Told)'
    BY <1>1, <2>4, <2>5, <2>6, <2>7 DEF Told
  <2> QED BY <1>1, <2>7, <2>8 DEF Flow
<1> QED BY <1>1, <1>5, <1>6, <1>7 DEF Push, Overflow, drop

(* An event is swallowed, or never reaches a callback: its place is silent,  *)
(* and the gap that it leaves is none.                                       *)
LEMMA ThrowFlow ==
  ASSUME LInv, QueueThrows, enabled'
  PROVE  Flow'
<1> USE DEF LInv, LParts, deviceVars, queueVars, gateVars
<1> DEFINE c == callback.event.place
           T == silent \cup {c}
<1>1. /\ Leased /\ ~Leased' /\ silent' = T /\ Flow
      /\ UNCHANGED <<delivered, callbacks, sent, worker, accepting>>
  BY DEF QueueThrows, Leased, NoCallback
<1>2. line' = line /\ Size' = Size
  BY <1>1, LineSame DEF InHand
<1>3. /\ Size \in Nat /\ line \in [1..Size -> Slot] /\ sent \in Nat /\ c \in Nat
  BY <1>1, LineType DEF LineTyped, OInv, OParts, Typed, AnyEvent
<1>4. ~Coming' /\ Told' = sent
  BY <1>1 DEF Coming, Told
<1>5. silent \subseteq T
  OBVIOUS
<1>6. c \in T
  OBVIOUS
<1> HIDE DEF T
<1>7. Chained(T, line, Size) /\ (accepting => Caught(T, line, Size, Told))
  BY <1>1, <1>5, MoreSilent DEF Flow
<1>8. ASSUME accepting
      PROVE  Caught(T, line, Size, sent)
  <2>1. CASE ~Coming
    BY <1>7, <1>8, <2>1 DEF Told
  <2>2. CASE Coming
    <3> DEFINE told == c - 1
    <3>1. c <= sent /\ ~Gap(silent, c, sent + 1)
      BY <1>1, <1>8, <2>2 DEF Flow
    <3>2. ~Gap(T, told, sent + 1)
      BY <1>3, <1>5, <1>6, <3>1 DEF Gap
    <3>3. told \in Int /\ sent \in Int /\ told <= sent
      BY <1>3, <3>1
    <3>4. Caught(T, line, Size, told)
      BY <1>7, <1>8, <2>2 DEF Told
    <3> HIDE DEF told
    <3> QED BY <1>3, <3>2, <3>3, <3>4, SilentEnd
  <2> QED BY <2>1, <2>2
<1> QED BY <1>1, <1>2, <1>4, <1>7, <1>8 DEF Flow

LEMMA DropFlow ==
  ASSUME LInv, DropLong, enabled'
  PROVE  Flow'
<1> USE DEF LInv, LParts, heldVars, queueVars, gateVars
<1> DEFINE last == sent + 1
           T == silent \cup {last}
<1>1. /\ Flow /\ sent' = last /\ silent' = T
      /\ UNCHANGED <<delivered, callbacks, callback, worker, accepting>>
  BY DEF DropLong
<1>2. line' = line /\ Size' = Size /\ Ahead' = Ahead
  BY <1>1, LineSame DEF InHand
<1>3. early' = early /\ Leased' = Leased /\ Coming' = Coming
  BY <1>1, <1>2 DEF early, Leased, Coming
<1>4. /\ Size \in Nat /\ line \in [1..Size -> Slot] /\ sent \in Nat
      /\ Leased => callback.event.place \in Nat
  BY LineType DEF LineTyped, OInv, OParts, Typed, AnyEvent
<1>5. silent \subseteq T /\ last \in T /\ last = sent + 1 /\ last \in Int /\ sent <= last
  BY <1>4
<1> HIDE DEF T, last
<1>6. /\ Chained(T, line, Size) /\ (accepting => Caught(T, line, Size, Told))
      /\ Leased => Fits(T, line, Size, early, callback.event)
  BY <1>1, <1>5, MoreSilent DEF Flow
<1>7. CASE Coming
  <2>1. Told' = Told
    BY <1>1, <1>3, <1>7 DEF Told
  <2>2. accepting => callback.event.place <= last /\ ~Gap(T, callback.event.place, last + 1)
    BY <1>1, <1>4, <1>5, <1>7 DEF Flow, Gap, Coming
  <2> QED BY <1>1, <1>2, <1>3, <1>6, <2>1, <2>2 DEF Flow
<1>8. CASE ~Coming
  <2>1. Told = sent /\ Told' = last
    BY <1>1, <1>3, <1>8 DEF Told
  <2>2. ~Gap(T, sent, last + 1)
    BY <1>4, <1>5 DEF Gap
  <2>3. sent \in Int
    BY <1>4
  <2>4. accepting => Caught(T, line, Size, last)
    BY <1>4, <1>5, <1>6, <2>1, <2>2, <2>3, SilentEnd
  <2> QED BY <1>1, <1>2, <1>3, <1>6, <1>8, <2>1, <2>4 DEF Flow
<1> QED BY <1>7, <1>8

(* What a worker that puts an event away does to the queue: nothing, or it   *)
(* adds the loss of a buffer at the end.                                     *)
LEMMA ProcessQueue ==
  ASSUME LInv, Process
  PROVE  /\ number' \in {number, number + 1}
         /\ Len(callbacks') \in {Len(callbacks), Len(callbacks) + 1}
         /\ \A i \in 1..Len(callbacks) : callbacks'[i] = callbacks[i]
         /\ \A i \in 1..Len(callbacks') : i > Len(callbacks) =>
              /\ callbacks'[i] = Marker("requeueFailed")
              /\ number' = number + 1
<1> USE DEF LInv, LParts, OInv, OParts
<1>1. \/ UNCHANGED <<number, callbacks>>
      \/ /\ callbacks' = Insert(Marker("requeueFailed"), callbacks)
         /\ number' = number + 1
  <2>1. CASE Header(worker.event)
    <3>1. Lent(worker.event.buffer) /\ Return(worker.event.buffer)
      BY <2>1 DEF Process, Owned, Held, InHand
    <3> QED BY <3>1, Returns
  <2>2. CASE ~Header(worker.event)
    BY <2>2 DEF Process
  <2> QED BY <2>1, <2>2
<1>2. callbacks \in Seq(AnyEvent) /\ number \in Nat
  BY DEF Typed
<1>3. CASE UNCHANGED <<number, callbacks>>
  BY <1>2, <1>3
<1>4. CASE callbacks' = Insert(Marker("requeueFailed"), callbacks) /\ number' = number + 1
  <2> DEFINE x == Marker("requeueFailed")
             r == Insert(x, callbacks)
             n == Len(callbacks)
  <2>1. x \in AnyEvent /\ x.number = number
    BY DEF Marker, Event, AnyEvent, AnyKind, Typed
  <2>2. \A i \in 1..n : callbacks[i].number < number
    BY DEF Sorted
  <2>3. \A i \in 1..n : callbacks[i].number \in Nat
    <3>1. \A i \in 1..n : callbacks[i] \in AnyEvent
      BY <1>2
    <3> QED BY <3>1 DEF AnyEvent
  <2>4. /\ \A i, j \in 1..n : i < j => callbacks[i].number < callbacks[j].number
        /\ \A i \in 1..n : callbacks[i].number # x.number
    BY <1>2, <2>1, <2>2, <2>3 DEF Sorted
  <2> HIDE DEF x
  <2>5. /\ Len(r) = n + 1
        /\ \E p \in 1..(n + 1) :
             /\ \A i \in 1..n : i < p <=> callbacks[i].number < x.number
             /\ \A i \in 1..Len(r) :
                  r[i] = IF i < p THEN callbacks[i] ELSE IF i = p THEN x ELSE callbacks[i - 1]
    BY <1>2, <2>1, <2>4, InsertSorted
  <2>6. PICK p \in 1..(n + 1) :
             /\ \A i \in 1..n : i < p <=> callbacks[i].number < x.number
             /\ \A i \in 1..Len(r) :
                  r[i] = IF i < p THEN callbacks[i] ELSE IF i = p THEN x ELSE callbacks[i - 1]
    BY <2>5
  <2> HIDE DEF r
  <2>7. p = n + 1
    <3>1. \A i \in 1..n : i < p
      BY <2>1, <2>2, <2>6
    <3>2. n \in Nat
      BY <1>2
    <3> QED BY <3>1, <3>2
  <2>8. callbacks' = r
    BY <1>4 DEF r, x
  <2>9. n \in Nat
    BY <1>2
  <2>10. \A i \in 1..n : callbacks'[i] = callbacks[i]
    BY <2>5, <2>6, <2>7, <2>8, <2>9
  <2>11. \A i \in 1..Len(callbacks') : i > n => callbacks'[i] = x
    BY <2>5, <2>6, <2>7, <2>8, <2>9
  <2> QED BY <1>4, <2>5, <2>8, <2>10, <2>11 DEF x
<1> QED BY <1>1, <1>3, <1>4

(* Delivered, the event keeps its slot; counted as nothing, it leaves.       *)
LEMMA ProcessFlow ==
  ASSUME LInv, Process, OInv', enabled'
  PROVE  Flow'
<1> USE DEF LInv, LParts
<1> DEFINE e == worker.event
           d == IF TypeOf(e) # "none" THEN 1 ELSE 0
           len == Len(delivered)
           n == Len(callbacks)
           k0 == len + d + n
           h == [i \in 1..k0 |-> IF i <= len + d THEN i ELSE i + 1 - d]
<1>1. /\ InHand /\ ~InHand' /\ Flow
      /\ UNCHANGED <<callback, sent, silent, accepting>>
  <2>1. worker' = worker.back /\ worker.back.at \in DrainPlaces \cup {"idle"}
    BY DEF Process, OInv, IInv, Calling
  <2> QED BY <2>1 DEF Process, InHand, DrainPlaces, gateVars, deviceVars
<1>2. /\ len \in Nat /\ n \in Nat /\ Ahead \in Nat /\ Size \in Nat
      /\ line \in [1..Size -> Slot] /\ number \in Nat
  BY LineType DEF LineTyped, OInv, OParts, Typed
<1>3. e \in AnyEvent
  BY <1>1 DEF OInv, OParts, Typed
<1>4. d \in {0, 1} /\ k0 \in Nat /\ Ahead = len + 1 /\ Size = len + 1 + n
  BY <1>1, <1>2 DEF Ahead, Size
<1>5. delivered' = IF d = 1 THEN Append(delivered, Item(e)) ELSE delivered
  <2>1. enabled
    BY DEF Process, gateVars
  <2>2. delivered' = IF IsData(e) \/ IsLoss(e)
                     THEN Append(delivered, [type  |-> IF IsData(e) THEN "data" ELSE "loss",
                                             place |-> e.place])
                     ELSE delivered
    BY <2>1 DEF Process, Deliver
  <2> QED BY <2>2 DEF TypeOf, Item
<1>6. Item(e) \in Piece \/ d = 0
  BY <1>3 DEF Item, TypeOf, AnyEvent, Piece
<1>7. /\ delivered' \in Seq(Piece) /\ Len(delivered') = len + d
      /\ \A i \in 1..len : delivered'[i] = delivered[i]
      /\ d = 1 => delivered'[len + 1] = Item(e)
  <2> HIDE DEF d, len
  <2>1. CASE d = 1
    <3>1. Item(e) \in Piece /\ delivered' = Append(delivered, Item(e))
      BY <1>5, <1>6, <2>1
    <3> QED BY <2>1, <3>1 DEF len
  <2>2. CASE d = 0
    BY <1>2, <1>5, <2>2 DEF len
  <2> QED BY <1>4, <2>1, <2>2
<1>8. /\ number' \in {number, number + 1}
      /\ Len(callbacks') \in {n, n + 1}
      /\ \A i \in 1..n : callbacks'[i] = callbacks[i]
      /\ \A i \in 1..Len(callbacks') : i > n => callbacks'[i] = Marker("requeueFailed")
  BY ProcessQueue
<1> DEFINE k == Size'
<1>9. Ahead' = len + d /\ k = len + d + Len(callbacks') /\ k \in Nat /\ k0 \in 0..k
  <2>1. Ahead' = len + d
    BY <1>1, <1>2, <1>4, <1>7 DEF Ahead
  <2>2. k = len + d + Len(callbacks')
    BY <2>1 DEF Size
  <2> HIDE DEF k, d, len, n
  <2> QED BY <1>2, <1>4, <1>8, <2>1, <2>2
<1>10. line' \in [1..k -> Slot]
  <2>1. (OInv /\ delivered \in Seq(Piece) => LineTyped)'
    BY LineType, PTL
  <2> QED BY <1>7, <2>1 DEF LineTyped
<1> HIDE DEF d
<1>11. h \in [1..k0 -> 1..Size]
  <2>1. \A i \in 1..k0 : (IF i <= len + d THEN i ELSE i + 1 - d) \in 1..Size
    BY <1>2, <1>4
  <2> QED BY <2>1
<1>12. \A i \in 1..k0 : h[i] = IF i <= len + d THEN i ELSE i + 1 - d
  OBVIOUS
<1>13. \A i, j \in 1..k0 : i < j <=> h[i] < h[j]
  <2> HIDE DEF h
  <2> QED BY <1>2, <1>4, <1>12
<1> HIDE DEF h, k
<1>14. \A event : Item(event)' = Item(event)
  BY DEF Item, TypeOf
<1>15. ASSUME NEW i \in 1..k0
       PROVE  line'[i] = line[h[i]] /\ (h[i] \in early => i \in early')
  <2>1. i \in 1..k /\ i \in 1..Size'
    BY <1>2, <1>4, <1>9 DEF k
  <2>2. CASE i <= len
    <3>1. h[i] = i /\ i \in 1..len /\ i \in 1..Size /\ i <= Len(delivered') /\ i <= Ahead'
      BY <1>2, <1>4, <1>7, <1>9, <1>12, <2>2
    <3>2. line[i] = delivered[i]
      BY <2>2, <3>1 DEF line
    <3>3. line'[i] = delivered'[i]
      BY <2>1, <3>1 DEF line
    <3>4. i \in early'
      BY <2>1, <3>1 DEF early
    <3> QED BY <1>7, <3>1, <3>2, <3>3, <3>4
  <2>3. CASE i = len + 1 /\ d = 1
    <3>1. h[i] = i /\ i \in 1..Size /\ ~(i <= len) /\ i <= Ahead /\ i <= Len(delivered') /\ i <= Ahead'
      BY <1>2, <1>4, <1>7, <1>9, <1>12, <2>3
    <3>2. line[i] = Item(e)
      BY <3>1 DEF line
    <3>3. line'[i] = delivered'[i]
      BY <2>1, <3>1 DEF line
    <3>4. i \in early'
      BY <2>1, <3>1 DEF early
    <3> QED BY <1>7, <2>3, <3>1, <3>2, <3>3, <3>4
  <2>4. CASE i > len + d
    <3> DEFINE j == i - (len + d)
    <3>0. h[i] = i + 1 - d
      <4> HIDE DEF len, k0
      <4> QED BY <1>2, <1>4, <1>12, <2>4
    <3>1. /\ j \in 1..n /\ h[i] \in 1..Size /\ ~(h[i] <= Ahead) /\ ~(h[i] <= len)
          /\ h[i] - Ahead = j
      <4> HIDE DEF len, n
      <4> QED BY <1>2, <1>4, <2>4, <3>0
    <3>2. ~(i <= Len(delivered')) /\ ~(i <= Ahead') /\ i - Ahead' = j
      BY <1>2, <1>4, <1>7, <1>9, <2>4
    <3>3. line[h[i]] = Item(callbacks[j])
      <4> HIDE DEF j
      <4> QED BY <3>1 DEF line
    <3>4. line'[i] = Item(callbacks'[j])
      <4> HIDE DEF j
      <4>1. line'[i] = Item(callbacks[i - Ahead])'
        BY <2>1, <3>2 DEF line
      <4> QED BY <3>2, <4>1 DEF Item, TypeOf
    <3>5. callbacks'[j] = callbacks[j]
      BY <1>8, <3>1
    <3>6. h[i] \in early => i \in early'
      <4> HIDE DEF j
      <4>1. h[i] \in early => callbacks[j].number < callback.event.number
        BY <3>1 DEF early
      <4>2. callbacks'[j].number < callback'.event.number => i \in early'
        BY <2>1, <3>2 DEF early
      <4> QED BY <1>1, <3>5, <4>1, <4>2
    <3> QED BY <3>3, <3>4, <3>5, <3>6
  <2> QED BY <1>2, <1>4, <2>2, <2>3, <2>4
<1>16. ASSUME NEW i \in 1..k, i > k0
       PROVE  line'[i].type # "data"
  <2> DEFINE j == i - (len + d)
  <2>1. j \in 1..Len(callbacks') /\ j > n
    BY <1>2, <1>4, <1>8, <1>9, <1>16
  <2>2. i \in 1..Size' /\ ~(i <= Len(delivered')) /\ ~(i <= Ahead') /\ i - Ahead' = j
    BY <1>2, <1>4, <1>7, <1>9, <1>16 DEF k
  <2>3. callbacks'[j] = Marker("requeueFailed")
    BY <1>8, <2>1
  <2> HIDE DEF j
  <2>4. line'[i] = Item(callbacks[i - Ahead])'
    BY <2>2 DEF line
  <2>5. callbacks'[j].kind = "requeueFailed"
    BY <2>3 DEF Marker, Event
  <2> QED BY <2>2, <2>4, <2>5 DEF Item, TypeOf, IsData, IsLoss
<1>17. ASSUME NEW m \in 1..Size, line[m].type # "none"
       PROVE  \E i \in 1..k0 : h[i] = m
  <2>1. CASE m <= len
    <3>1. m \in 1..k0 /\ h[m] = m
      BY <1>2, <1>4, <1>12, <2>1
    <3> QED BY <3>1
  <2>2. CASE m = len + 1
    <3>1. line[m] = Item(e)
      BY <1>2, <1>4, <2>2 DEF line
    <3>2. d = 1
      BY <1>17, <3>1 DEF Item, d
    <3>3. m \in 1..k0 /\ h[m] = m
      BY <1>2, <1>4, <1>12, <2>2, <3>2
    <3> QED BY <3>3
  <2>3. CASE m > len + 1
    <3> DEFINE i == m - 1 + d
    <3>1. i \in 1..k0 /\ ~(i <= len + d) /\ i + 1 - d = m
      BY <1>2, <1>4, <2>3
    <3> HIDE DEF i, k0, len
    <3>2. h[i] = m
      BY <1>12, <3>1
    <3> QED BY <3>1, <3>2
  <2> QED BY <1>2, <2>1, <2>2, <2>3
<1> HIDE DEF k0, e, len, n
<1>18. /\ Chained(silent, line, Size) => Chained(silent, line', k)
       /\ \A B, C, event :
            Fits(silent, line, Size, B, event) /\ (\A i \in 1..k0 : h[i] \in B => i \in C)
              => Fits(silent, line', k, C, event)
       /\ \A last : Caught(silent, line, Size, last) => Caught(silent, line', k, last)
  <2> DEFINE M == line'
             L == line
             s == Size
  <2>1. /\ s \in Nat /\ k \in Nat /\ k0 \in 0..k /\ L \in [1..s -> Slot] /\ M \in [1..k -> Slot]
        /\ h \in [1..k0 -> 1..s]
    BY <1>2, <1>9, <1>10, <1>11
  <2>2. /\ \A i, j \in 1..k0 : i < j <=> h[i] < h[j]
        /\ \A i \in 1..k0 : M[i] = L[h[i]]
        /\ \A i \in 1..k : i > k0 => M[i].type # "data"
        /\ \A m \in 1..s : L[m].type # "none" => \E i \in 1..k0 : h[i] = m
    BY <1>13, <1>15, <1>16, <1>17
  <2> DEFINE S == silent
  <2> HIDE DEF M, L, s, S
  <2>3. Moved(L, s, M, k, k0, h)
    BY <2>1, <2>2 DEF Moved
  <2>4. /\ Chained(S, L, s) => Chained(S, M, k)
        /\ \A B, C, event :
             Fits(S, L, s, B, event) /\ (\A i \in 1..k0 : h[i] \in B => i \in C)
               => Fits(S, M, k, C, event)
        /\ \A last : Caught(S, L, s, last) => Caught(S, M, k, last)
    BY <2>3, LineKept
  <2> QED BY <2>4 DEF M, L, s, S
<1>19. Leased' = Leased /\ Coming' = Coming /\ Told' = Told
  BY <1>1 DEF Leased, Coming, Told, TypeOf, IsData, IsLoss
<1>20. Chained(silent, line, Size)'
  BY <1>1, <1>18 DEF Flow, k
<1>21. Leased' => Fits(silent, line, Size, early, callback.event)'
  <2>1. Leased => Fits(silent, line', k, early', callback.event)
    BY <1>1, <1>15, <1>18 DEF Flow
  <2> QED BY <1>1, <1>19, <2>1 DEF Fits, k, IsData
<1>22. accepting' => Caught(silent, line, Size, Told)'
  <2>1. accepting => Caught(silent, line', k, Told)
    BY <1>1, <1>18 DEF Flow
  <2> QED BY <1>1, <1>19, <2>1 DEF k
<1>23. accepting' /\ Coming' => /\ callback'.event.place <= sent'
                               /\ ~Gap(silent', callback'.event.place, sent' + 1)
  BY <1>1, <1>19 DEF Flow
<1> QED BY <1>20, <1>21, <1>22, <1>23 DEF Flow

-----------------------------------------------------------------------------
(* Every step. *)

Moves ==
  \/ ReceiveShort \/ ReceiveLong \/ DropLong \/ ReturnEmpty
  \/ Queue \/ QueueThrows \/ Take \/ Process

(* The others leave the events alone, but open(), which begins with none.    *)
LEMMA OtherSteps ==
  ASSUME OInv, Next, ~Moves
  PROVE  /\ UNCHANGED <<callbacks, callback, number, sent, silent>>
         /\ InHand' = InHand /\ (InHand => worker' = worker)
         /\ \/ delivered' = delivered /\ (accepting' => accepting) /\ (enabled' => enabled)
            \/ delivered' = <<>> /\ lifecycle = "closed"
            \/ /\ delivered' = delivered /\ lifecycle = "opening" /\ Place = "idle"
<1> USE DEF deviceVars, heldVars, queueVars, bufferVars, gateVars, ownerVars, historyVars, InHand
<1>1. CASE Complete \/ CompleteThrows \/ ProcessCompletion
  <2>1. UNCHANGED <<callbacks, callback, number, sent, silent, delivered, worker, accepting, enabled>>
    BY <1>1 DEF Complete, CompleteThrows, ProcessCompletion
  <2> QED BY <2>1
<1>2. CASE Close
  <2> USE DEF CloseRest
  <2> DEFINE Kept == /\ UNCHANGED <<callbacks, callback, number, sent, silent, delivered>>
                     /\ (accepting' => accepting) /\ (enabled' => enabled) /\ ~InHand /\ ~InHand'
  <2>1. ASSUME CloseBegin PROVE Kept
    BY <2>1 DEF CloseBegin, StartClosing, Closing
  <2>2. ASSUME StopInput PROVE Kept
    BY <2>2 DEF StopInput, GoOn, Closing
  <2>3. ASSUME ResetInput PROVE Kept
    BY <2>3 DEF ResetInput, GoOn, Closing
  <2>4. ASSUME InputsReturned PROVE Kept
    BY <2>4 DEF InputsReturned, GoOn, Closing
  <2>5. ASSUME InputTimeout PROVE Kept
    BY <2>5 DEF InputTimeout, GoOn, Closing
  <2>6. ASSUME UnprepareInputs PROVE Kept
    BY <2>6 DEF UnprepareInputs, GoOn, Closing
  <2>7. ASSUME CloseInput PROVE Kept
    BY <2>7 DEF CloseInput, CloseInputHandle, GoOn, Closing
  <2>8. ASSUME ResetOutput PROVE Kept
    BY <2>8 DEF ResetOutput, GoOn, Closing
  <2>9. ASSUME OutputTimeout PROVE Kept
    BY <2>9 DEF OutputTimeout, GoOn, Closing
  <2>10. ASSUME CloseOutput PROVE Kept
    BY <2>10 DEF CloseOutput, GoOn, Closing
  <2>11. ASSUME Disable PROVE Kept
    BY <2>11 DEF Disable, GoOn, Closing, EndClosing, Answer, At
  <2>12. ASSUME Detached PROVE Kept
    BY <2>12 DEF Detached, GoOn, Closing
  <2>13. ASSUME Release PROVE Kept
    BY <2>13 DEF Release, EndClosing, Answer, At
  <2> HIDE DEF Kept
  <2>14. Kept
    BY <1>2, <2>1, <2>2, <2>3, <2>4, <2>5, <2>6, <2>7, <2>8, <2>9, <2>10, <2>11, <2>12, <2>13 DEF Close
  <2> QED BY <2>14 DEF Kept
<1>3. CASE OpenOnWorker
  <2> DEFINE Kept == /\ UNCHANGED <<callbacks, callback, number, sent, silent, delivered>>
                     /\ ~InHand /\ ~InHand'
                     /\ \/ (accepting' => accepting) /\ (enabled' => enabled)
                        \/ call = "open" /\ worker.at = "idle"
  <2>1. ASSUME EnumerationFails PROVE Kept
    BY <2>1 DEF EnumerationFails, Opening, Answer, At
  <2>2. ASSUME InputFails PROVE Kept
    BY <2>2 DEF InputFails, Opening, Answer, At
  <2>3. ASSUME InputHalfOpens PROVE Kept
    BY <2>3 DEF InputHalfOpens, Opening, StartClosing, Closing
  <2>4. ASSUME InputOpens PROVE Kept
    BY <2>4 DEF InputOpens, Opening, At
  <2>5. ASSUME OutputOpens PROVE Kept
    BY <2>5 DEF OutputOpens, Answer, At
  <2>6. ASSUME OutputFails PROVE Kept
    BY <2>6 DEF OutputFails, StartClosing, Closing
  <2> HIDE DEF Kept
  <2>7. Kept
    BY <1>3, <2>1, <2>2, <2>3, <2>4, <2>5, <2>6 DEF OpenOnWorker
  <2>8. call = "open" /\ worker.at = "idle" => lifecycle = "opening" /\ Place = "idle"
    BY DEF OInv, IInv, Calling, Place
  <2> QED BY <2>7, <2>8 DEF Kept
<1>4. CASE SendOnWorker
  <2>1. UNCHANGED <<callbacks, callback, number, sent, silent, delivered, accepting, enabled>>
    BY <1>4 DEF SendOnWorker, SendShort, SendLong, SendRefused, SendTimeout, SendGivesUp,
                SendReturned, SendRest
  <2>2. ~InHand /\ ~InHand'
    BY <1>4 DEF SendOnWorker, SendShort, SendLong, SendRefused, SendTimeout, SendGivesUp,
                SendReturned, Sent, Answer, At
  <2> QED BY <2>1, <2>2
<1>5. CASE Owner
  BY <1>5 DEF Owner, CallOpen, CallClose, CallSend, Destroy, OwnerRest, Calls, BeginOpen,
              RequireAndSet, Refused
<1>6. CASE Destructor
  BY <1>6 DEF Destructor, DestroyClose, DestroyDetach, DestroyStop, DestroyEnd, OwnerRest
<1> QED BY <1>1, <1>2, <1>3, <1>4, <1>5, <1>6 DEF Next, Driver, Callback, Worker, Moves

(* Numbers are drawn in the order of the queue. *)
LEMMA NextSorted ==
  ASSUME LInv, Next
  PROVE  Sorted'
<1> USE DEF LInv, LParts
<1>1. callbacks \in Seq(AnyEvent) /\ number \in Nat /\ Sorted
  BY DEF OInv, OParts, Typed
<1>2. \A i \in 1..Len(callbacks) : callbacks[i].number \in Nat
  <2>1. \A i \in 1..Len(callbacks) : callbacks[i] \in AnyEvent
    BY <1>1
  <2> QED BY <2>1 DEF AnyEvent
<1>3. CASE ReceiveShort \/ ReceiveLong \/ ReturnEmpty
  <2>1. PICK kind, place, buffer : Enter(kind, place, buffer)
    BY <1>3 DEF ReceiveShort, ReceiveLong, ReturnEmpty
  <2>2. callbacks' = callbacks
    BY <1>3 DEF ReceiveShort, ReceiveLong, ReturnEmpty, DriverRest
  <2>3. ~Leased
    BY <2>1 DEF Enter, Leased, NoCallback
  <2>4. CASE UNCHANGED <<callback, number>>
    BY <1>1, <2>2, <2>4, SortedSame
  <2>5. CASE ~UNCHANGED <<callback, number>>
    <3>1. callback'.event.number = number /\ number' = number + 1
      BY <2>1, <2>5 DEF Enter, Event
    <3> QED BY <1>1, <1>2, <2>2, <3>1 DEF Sorted
  <2> QED BY <2>4, <2>5
<1>4. CASE Queue
  <2> DEFINE e == callback.event
  <2>1. Leased /\ ~Leased' /\ number' = number /\ e.number < number
        /\ \A i \in 1..Len(callbacks) : callbacks[i].number # e.number
    BY <1>1, <1>4 DEF Queue, Leased, NoCallback, Sorted
  <2>2. e \in AnyEvent /\ e.number \in Nat
    BY <2>1 DEF OInv, OParts, Typed, AnyEvent
  <2>3. \/ callbacks' = callbacks
        \/ \E x \in AnyEvent : x.number = e.number /\ callbacks' = Insert(x, callbacks)
    <3> DEFINE x == [e EXCEPT !.kind = "overflow", !.place = 0]
    <3>1. x \in AnyEvent /\ x.number = e.number
      BY <2>2 DEF AnyEvent, AnyKind
    <3> HIDE DEF x
    <3> QED BY <1>4, <2>2, <3>1 DEF Queue, Push, Overflow, x
  <2>4. CASE callbacks' = callbacks
    BY <1>1, <2>1, <2>4 DEF Sorted
  <2>5. ASSUME NEW x \in AnyEvent, x.number = e.number, callbacks' = Insert(x, callbacks)
        PROVE  Sorted'
    <3> DEFINE r == Insert(x, callbacks)
               n == Len(callbacks)
    <3>1. /\ \A i, j \in 1..n : i < j => callbacks[i].number < callbacks[j].number
          /\ \A i \in 1..n : callbacks[i].number # x.number
      BY <1>1, <2>1, <2>5 DEF Sorted
    <3>2. /\ Len(r) = n + 1
          /\ \A i, j \in 1..Len(r) : i < j => r[i].number < r[j].number
          /\ \E p \in 1..(n + 1) : \A i \in 1..Len(r) :
               r[i] = IF i < p THEN callbacks[i] ELSE IF i = p THEN x ELSE callbacks[i - 1]
      BY <1>1, <3>1, InsertSorted
    <3> HIDE DEF r
    <3>3. PICK p \in 1..(n + 1) : \A i \in 1..Len(r) :
               r[i] = IF i < p THEN callbacks[i] ELSE IF i = p THEN x ELSE callbacks[i - 1]
      BY <3>2
    <3>4. \A i \in 1..n : callbacks[i].number < number
      BY <1>1 DEF Sorted
    <3>5. \A i \in 1..Len(r) : r[i].number < number
      <4> SUFFICES ASSUME NEW i \in 1..Len(r) PROVE r[i].number < number
        OBVIOUS
      <4>1. i < p \/ i = p \/ i > p
        BY <1>1, <3>2
      <4>2. i < p => i \in 1..n /\ r[i] = callbacks[i]
        BY <1>1, <3>2, <3>3
      <4>3. i > p => i - 1 \in 1..n /\ r[i] = callbacks[i - 1]
        BY <1>1, <3>2, <3>3
      <4>4. i = p => r[i] = x
        BY <3>3
      <4> HIDE DEF n
      <4> QED BY <2>1, <2>5, <3>4, <4>1, <4>2, <4>3, <4>4
    <3>6. callbacks' = r
      BY <2>5 DEF r
    <3> QED BY <2>1, <3>2, <3>5, <3>6 DEF Sorted
  <2> QED BY <2>3, <2>4, <2>5
<1>8. CASE QueueThrows
  BY <1>1, <1>8 DEF QueueThrows, Sorted, Leased, NoCallback, queueVars
<1>9. CASE DropLong
  BY <1>1, <1>9, SortedSame DEF DropLong, heldVars, queueVars
<1>5. CASE Take
  <2>1. callbacks # <<>> /\ callbacks' = Tail(callbacks) /\ UNCHANGED <<callback, number>>
    BY <1>5 DEF Take, heldVars
  <2>2. /\ Len(callbacks') = Len(callbacks) - 1 /\ Len(callbacks) \in Nat
        /\ \A i \in 1..Len(callbacks') : callbacks'[i] = callbacks[i + 1]
    BY <1>1, <2>1
  <2> QED BY <1>1, <2>1, <2>2 DEF Sorted, Leased
<1>6. CASE Process
  <2> DEFINE n == Len(callbacks)
  <2>1. /\ number' \in {number, number + 1}
        /\ Len(callbacks') \in {n, n + 1}
        /\ \A i \in 1..n : callbacks'[i] = callbacks[i]
        /\ \A i \in 1..Len(callbacks') : i > n =>
             callbacks'[i] = Marker("requeueFailed") /\ number' = number + 1
    BY <1>6, ProcessQueue
  <2>2. callback' = callback /\ Leased' = Leased
    BY <1>6 DEF Process, Leased
  <2>3. Marker("requeueFailed").number = number
    BY DEF Marker, Event
  <2>4. n \in Nat
    BY <1>1
  <2>5. \A i \in 1..Len(callbacks') :
          \/ i \in 1..n /\ callbacks'[i] = callbacks[i]
          \/ i = n + 1 /\ callbacks'[i].number = number /\ number' = number + 1
    <3> HIDE DEF n
    <3> QED BY <2>1, <2>3, <2>4
  <2>6. Leased => callback.event.number \in Nat
    BY DEF OInv, OParts, Typed, AnyEvent
  <2>7. /\ \A i, j \in 1..n : i < j => callbacks[i].number < callbacks[j].number
        /\ \A i \in 1..n : callbacks[i].number < number
        /\ Leased => /\ callback.event.number < number
                     /\ \A i \in 1..n : callbacks[i].number # callback.event.number
    BY <1>1 DEF Sorted
  <2> HIDE DEF n
  <2>8. \A i, j \in 1..Len(callbacks') : i < j => callbacks'[i].number < callbacks'[j].number
    BY <2>4, <2>5, <2>7
  <2>9. \A i \in 1..Len(callbacks') : callbacks'[i].number < number'
    BY <1>1, <1>2, <2>1, <2>5, <2>7 DEF n
  <2>10. Leased' => /\ callback'.event.number < number'
                    /\ \A i \in 1..Len(callbacks') : callbacks'[i].number # callback'.event.number
    <3>1. SUFFICES ASSUME Leased
                   PROVE  /\ callback.event.number < number'
                          /\ \A i \in 1..Len(callbacks') : callbacks'[i].number # callback.event.number
      BY <2>2
    <3> DEFINE c == callback.event.number
    <3>2. c \in Nat /\ c < number /\ \A i \in 1..n : callbacks[i].number # c
      BY <2>6, <2>7, <3>1
    <3> HIDE DEF c
    <3>3. c < number'
      BY <1>1, <2>1, <3>2
    <3>4. \A i \in 1..Len(callbacks') : callbacks'[i].number # c
      BY <1>1, <2>5, <3>2
    <3> QED BY <3>3, <3>4 DEF c
  <2> QED BY <2>8, <2>9, <2>10 DEF Sorted
<1>7. CASE ~Moves
  BY <1>1, <1>7, OtherSteps, SortedSame
<1> QED BY <1>3, <1>4, <1>5, <1>6, <1>7, <1>8, <1>9 DEF Moves

(* Steps that leave what the gates are about alone. *)
LEMMA GatesSame ==
  ASSUME Gates, UNCHANGED <<context, owner, lifecycle, delivered, accepting, call>>, Place' = Place
  PROVE  Gates'
BY DEF Gates

LEMMA CloseGates ==
  ASSUME LInv, Close
  PROVE  Gates'
<1> USE DEF LInv, LParts, OInv, OParts, deviceVars, heldVars, queueVars, bufferVars, gateVars,
            ownerVars, historyVars, CloseRest
<1>1. Gates /\ worker.at \notin {"processing"} /\ Place = worker.at
  BY DEF Place, Close, CloseBegin, StopInput, ResetInput, InputsReturned, InputTimeout,
         UnprepareInputs, CloseInput, ResetOutput, OutputTimeout, CloseOutput, Disable, Detached,
         Release
<1>2. ASSUME worker.at \notin {"detaching", "drainingLast"}, worker'.at \in ClosePlaces,
             accepting' \in {accepting, FALSE},
             UNCHANGED <<context, owner, lifecycle, delivered, call>>
      PROVE  Gates'
  <2>1. Place' = worker'.at /\ Place' # "idle"
    BY <1>2 DEF Place, ClosePlaces, DrainPlaces
  <2>2. accepting' => accepting
    BY <1>2
  <2> QED BY <1>1, <1>2, <2>1, <2>2 DEF Gates
<1>3. CASE CloseBegin
  <2>1. /\ worker.at \notin {"detaching", "drainingLast"} /\ worker'.at \in ClosePlaces
        /\ accepting' \in {accepting, FALSE}
        /\ UNCHANGED <<context, owner, lifecycle, delivered, call>>
    BY <1>3 DEF CloseBegin, StartClosing, Closing, ClosePlaces, DrainPlaces
  <2> QED BY <1>2, <2>1
<1>4. CASE StopInput
  <2>1. /\ worker.at \notin {"detaching", "drainingLast"} /\ worker'.at \in ClosePlaces
        /\ accepting' \in {accepting, FALSE}
        /\ UNCHANGED <<context, owner, lifecycle, delivered, call>>
    BY <1>4 DEF StopInput, GoOn, Closing, ClosePlaces, DrainPlaces
  <2> QED BY <1>2, <2>1
<1>5. CASE ResetInput
  <2>1. /\ worker.at \notin {"detaching", "drainingLast"} /\ worker'.at \in ClosePlaces
        /\ accepting' \in {accepting, FALSE}
        /\ UNCHANGED <<context, owner, lifecycle, delivered, call>>
    BY <1>5 DEF ResetInput, GoOn, Closing, ClosePlaces, DrainPlaces
  <2> QED BY <1>2, <2>1
<1>6. CASE InputsReturned
  <2>1. /\ worker.at \notin {"detaching", "drainingLast"} /\ worker'.at \in ClosePlaces
        /\ accepting' \in {accepting, FALSE}
        /\ UNCHANGED <<context, owner, lifecycle, delivered, call>>
    BY <1>6 DEF InputsReturned, GoOn, Closing, ClosePlaces, DrainPlaces
  <2> QED BY <1>2, <2>1
<1>7. CASE InputTimeout
  <2>1. /\ worker.at \notin {"detaching", "drainingLast"} /\ worker'.at \in ClosePlaces
        /\ accepting' \in {accepting, FALSE}
        /\ UNCHANGED <<context, owner, lifecycle, delivered, call>>
    BY <1>7 DEF InputTimeout, GoOn, Closing, ClosePlaces, DrainPlaces
  <2> QED BY <1>2, <2>1
<1>8. CASE UnprepareInputs
  <2>1. /\ worker.at \notin {"detaching", "drainingLast"} /\ worker'.at \in ClosePlaces
        /\ accepting' \in {accepting, FALSE}
        /\ UNCHANGED <<context, owner, lifecycle, delivered, call>>
    BY <1>8 DEF UnprepareInputs, GoOn, Closing, ClosePlaces, DrainPlaces
  <2> QED BY <1>2, <2>1
<1>9. CASE CloseInput
  <2>1. /\ worker.at \notin {"detaching", "drainingLast"} /\ worker'.at \in ClosePlaces
        /\ accepting' \in {accepting, FALSE}
        /\ UNCHANGED <<context, owner, lifecycle, delivered, call>>
    BY <1>9 DEF CloseInput, CloseInputHandle, GoOn, Closing, ClosePlaces, DrainPlaces
  <2> QED BY <1>2, <2>1
<1>10. CASE ResetOutput
  <2>1. /\ worker.at \notin {"detaching", "drainingLast"} /\ worker'.at \in ClosePlaces
        /\ accepting' \in {accepting, FALSE}
        /\ UNCHANGED <<context, owner, lifecycle, delivered, call>>
    BY <1>10 DEF ResetOutput, GoOn, Closing, ClosePlaces, DrainPlaces
  <2> QED BY <1>2, <2>1
<1>11. CASE OutputTimeout
  <2>1. /\ worker.at \notin {"detaching", "drainingLast"} /\ worker'.at \in ClosePlaces
        /\ accepting' \in {accepting, FALSE}
        /\ UNCHANGED <<context, owner, lifecycle, delivered, call>>
    BY <1>11 DEF OutputTimeout, GoOn, Closing, ClosePlaces, DrainPlaces
  <2> QED BY <1>2, <2>1
<1>12. CASE CloseOutput
  <2>1. /\ worker.at \notin {"detaching", "drainingLast"} /\ worker'.at \in ClosePlaces
        /\ accepting' \in {accepting, FALSE}
        /\ UNCHANGED <<context, owner, lifecycle, delivered, call>>
    BY <1>12 DEF CloseOutput, GoOn, Closing, ClosePlaces, DrainPlaces
  <2> QED BY <1>2, <2>1
<1>13. CASE Disable
  <2>1. worker.at = "disabling" /\ UNCHANGED <<accepting, delivered, owner>> /\ ~accepting
    BY <1>1, <1>13 DEF Disable, LetGo, ClosePlaces, GoOn, EndClosing, Answer
  <2>2. CASE Closed
    <3>1. /\ worker'.at = "detaching" /\ UNCHANGED <<call, lifecycle>>
          /\ context' = IF context = "none" THEN context ELSE "detached"
      BY <1>13, <2>2 DEF Disable, GoOn, Closing
    <3>2. Place' = "detaching"
      BY <3>1 DEF Place
    <3> QED BY <1>1, <2>1, <3>1, <3>2 DEF Gates
  <2>3. CASE ~Closed
    <3>1. context' = context /\ worker' = At("idle") /\ EndClosing
      BY <1>13, <2>3 DEF Disable, EndClosing, Answer
    <3>2. Place' = "idle" /\ call' = "none"
      BY <3>1 DEF Place, At, EndClosing, Answer
    <3>3. lifecycle' # "opening"
      BY <1>1, <2>1, <3>1 DEF EndClosing, Answer, CompleteClose, CompleteOpen, RequireAndSet, Refused, Fail,
                              IInv, Calling, ClosePlaces, DrainPlaces
    <3> QED BY <1>1, <2>1, <3>1, <3>2, <3>3 DEF Gates
  <2> QED BY <2>2, <2>3
<1>14. CASE Detached
  BY <1>1, <1>14 DEF Detached, GoOn, Closing, Gates, Place
<1>15. CASE Release
  <2>1. /\ worker.at = "drainingLast" /\ context' = "none" /\ worker' = At("idle")
        /\ UNCHANGED <<accepting, delivered, owner>> /\ ~accepting /\ call' = "none" /\ EndClosing
    BY <1>1, <1>15 DEF Release, LetGo, ClosePlaces, DrainPlaces, EndClosing, Answer
  <2>2. Place' = "idle"
    BY <2>1 DEF Place, At
  <2>3. lifecycle' # "opening"
    BY <1>1, <2>1 DEF EndClosing, Answer, CompleteClose, CompleteOpen, RequireAndSet, Refused, Fail,
                      IInv, Calling, ClosePlaces, DrainPlaces
  <2> QED BY <1>1, <2>1, <2>2, <2>3 DEF Gates
<1> QED BY <1>3, <1>4, <1>5, <1>6, <1>7, <1>8, <1>9, <1>10, <1>11, <1>12, <1>13, <1>14, <1>15
        DEF Close

LEMMA NextGates ==
  ASSUME LInv, Next
  PROVE  Gates'
<1> USE DEF LInv, LParts, deviceVars, heldVars, queueVars, bufferVars, gateVars, ownerVars, historyVars
<1>1. Gates
  OBVIOUS
<1>2. CASE Driver \/ Callback \/ ProcessCompletion
  <2>1. UNCHANGED <<context, owner, lifecycle, delivered, accepting, call, worker>>
    BY <1>2 DEF Driver, ReceiveShort, ReceiveLong, DropLong, ReturnEmpty, Complete, CompleteThrows,
                DriverRest, Callback, Queue, QueueThrows, ProcessCompletion
  <2> QED BY <1>1, <2>1, GatesSame DEF Place
<1>3. CASE Take
  <2>1. UNCHANGED <<context, owner, lifecycle, delivered, accepting, call>>
    BY <1>3 DEF Take
  <2>2. Place' = Place
    BY <1>3 DEF Take, TakesEvents, Idle, Place
  <2> QED BY <1>1, <2>1, <2>2, GatesSame
<1>4. CASE Process
  <2>1. UNCHANGED <<context, owner, lifecycle, accepting, call>> /\ Place' = Place /\ InHand
    BY <1>4 DEF Process, Place, InHand, OInv, IInv, Calling, DrainPlaces
  <2>2. ~(lifecycle = "opening" /\ Place = "idle")
    BY <2>1 DEF OInv, IInv, Quiet, Still, InHand
  <2> QED BY <1>1, <2>1, <2>2 DEF Gates
<1>5. CASE Close
  BY <1>5, CloseGates
<1>6. CASE OpenOnWorker
  <2>1. call = "open" /\ lifecycle = "opening" /\ ~InHand /\ Place = worker.at
    BY <1>6 DEF OpenOnWorker, EnumerationFails, InputFails, InputHalfOpens, InputOpens, Opening,
                OutputOpens, OutputFails, InHand, Place, OInv, IInv, Calling
  <2>2. owner = "alive" \/ owner \notin {"closingAgain", "detaching", "stopping", "destroyed"}
    BY <2>1 DEF OInv, IInv, Calling
  <2>3. worker.at \in {"idle", "openingOutput"} /\ owner' = owner /\ delivered' = delivered
    BY <1>6 DEF OpenOnWorker, EnumerationFails, InputFails, InputHalfOpens, InputOpens, Opening,
                OutputOpens, OutputFails, Answer
  <2>4. context # "detached"
    BY <1>1, <2>1, <2>2, <2>3 DEF Gates
  <2>5. /\ accepting' => context' = "attached"
        /\ context' \in {"none", "attached"}
        /\ ~(lifecycle' = "opening" /\ Place' = "idle")
    <3>1. CASE OutputOpens \/ OutputFails
      <4>1. context' = context /\ (accepting' => accepting)
        <5>1. OutputOpens => context' = context /\ (accepting' => accepting)
          BY DEF OutputOpens
        <5>2. OutputFails => context' = context /\ (accepting' => accepting)
          BY DEF OutputFails
        <5> QED BY <3>1, <5>1, <5>2
      <4>2. OutputOpens => lifecycle' = "open"
        BY <2>1 DEF OutputOpens, Answer, CompleteOpen, RequireAndSet
      <4>3. OutputFails => Place' = "draining"
        BY DEF OutputFails, StartClosing, Closing, Place
      <4> QED BY <1>1, <2>4, <3>1, <4>1, <4>2, <4>3 DEF Gates
    <3>2. CASE EnumerationFails \/ InputFails
      <4>1. /\ context' = (IF context = "none" THEN "attached" ELSE context)
            /\ accepting' = accepting /\ lifecycle' = "failed"
        BY <2>1, <3>2 DEF EnumerationFails, InputFails, Opening, Answer, Fail
      <4> QED BY <1>1, <2>4, <4>1 DEF Gates
    <3>3. CASE InputHalfOpens \/ InputOpens
      <4>1. /\ context' = (IF context = "none" THEN "attached" ELSE context)
            /\ worker'.at \in {"draining", "openingOutput"}
        <5>1. context' = (IF context = "none" THEN "attached" ELSE context)
          BY <3>3 DEF InputHalfOpens, InputOpens, Opening
        <5>2. InputHalfOpens => worker'.at = "draining"
          BY DEF InputHalfOpens, StartClosing, Closing
        <5>3. InputOpens => worker'.at = "openingOutput"
          BY DEF InputOpens, At
        <5> QED BY <3>3, <5>1, <5>2, <5>3
      <4>2. context \in {"none", "attached"} => context' = "attached"
        BY <4>1
      <4>3. Place' # "idle"
        BY <4>1 DEF Place
      <4>4. accepting' => context' = "attached"
        <5>1. CASE InputHalfOpens
          BY <5>1 DEF InputHalfOpens
        <5>2. CASE InputOpens
          BY <1>1, <2>4, <4>2 DEF Gates
        <5> QED BY <3>3, <5>1, <5>2
      <4> QED BY <1>1, <2>4, <4>1, <4>3, <4>4 DEF Gates
    <3> QED BY <1>6, <3>1, <3>2, <3>3 DEF OpenOnWorker
  <2> QED BY <2>2, <2>3, <2>5 DEF Gates
<1>7. CASE SendOnWorker
  <2>1. call = "send" /\ lifecycle = "open" /\ owner = "alive"
    <3>1. call = "send"
      BY <1>7 DEF SendOnWorker, SendShort, SendLong, SendRefused, SendTimeout, SendGivesUp,
                  SendReturned, OInv, IInv, Calling, Place
    <3> QED BY <3>1 DEF OInv, IInv, Calling
  <2>2. /\ UNCHANGED <<context, owner, delivered, accepting>> /\ lifecycle' = lifecycle
        /\ worker.at \in {"idle", "sending", "sendReset"}
    BY <1>7, <2>1 DEF SendOnWorker, SendShort, SendLong, SendRefused, SendTimeout, SendGivesUp,
                SendReturned, Sent, Answer, SendRest
  <2>3. Place = worker.at
    BY <2>2 DEF Place
  <2> QED BY <1>1, <2>1, <2>2, <2>3 DEF Gates
<1>8. CASE Owner
  <2>1. /\ UNCHANGED <<accepting, worker, context>> /\ Place' = Place
        /\ delivered' = delivered \/ delivered' = <<>>
        /\ lifecycle' = "opening" => lifecycle = "opening" \/ delivered' = <<>>
        /\ owner = "alive" /\ owner' \in {"alive", "closing"}
    BY <1>8 DEF Owner, CallOpen, CallClose, CallSend, Destroy, OwnerRest, Calls, MayCall, Place
  <2> QED BY <1>1, <2>1 DEF Gates
<1>9. CASE Destructor
  <2>1. /\ UNCHANGED <<accepting, worker, delivered, lifecycle>> /\ Place' = Place
    BY <1>9 DEF Destructor, DestroyClose, DestroyDetach, DestroyStop, DestroyEnd, OwnerRest, Place
  <2>2. CASE DestroyClose
    BY <1>1, <2>1, <2>2 DEF DestroyClose, Gates
  <2>3. CASE DestroyDetach
    BY <1>1, <2>1, <2>3 DEF DestroyDetach, Gates
  <2>4. CASE DestroyStop
    BY <1>1, <2>1, <2>4 DEF DestroyStop, Gates
  <2>5. CASE DestroyEnd
    BY <1>1, <2>1, <2>5 DEF DestroyEnd, Gates
  <2> QED BY <1>9, <2>2, <2>3, <2>4, <2>5 DEF Destructor
<1> QED BY <1>2, <1>3, <1>4, <1>5, <1>6, <1>7, <1>8, <1>9 DEF Next, Worker

LEMMA InitLInv == Init => LInv
<1> SUFFICES ASSUME Init PROVE LInv
  OBVIOUS
<1>1. OInv
  BY InitOInv
<1>2. /\ delivered = <<>> /\ callbacks = <<>> /\ accepting = FALSE /\ enabled = FALSE
      /\ context = "none" /\ owner = "alive" /\ ~Leased
  BY DEF Init, Leased, NoCallback
<1>3. Gates /\ Sorted /\ Seen /\ delivered \in Seq(Piece)
  BY <1>2 DEF Gates, Sorted, Seen
<1> QED BY <1>1, <1>2, <1>3 DEF LInv, LParts

LEMMA SilentGrows == OInv /\ Next => silent \subseteq silent'
<1> SUFFICES ASSUME OInv, Next PROVE silent \subseteq silent'
  OBVIOUS
<1>1. CASE Moves
  BY <1>1 DEF Moves, ReceiveShort, ReceiveLong, DropLong, ReturnEmpty, Queue, QueueThrows, Take,
              Process, DriverRest, historyVars
<1>2. CASE ~Moves
  BY <1>2, OtherSteps
<1> QED BY <1>1, <1>2

LEMMA NextLInv == LInv /\ [Next]_vars => LInv'
<1> SUFFICES ASSUME LInv, [Next]_vars PROVE LInv'
  OBVIOUS
<1> USE DEF LInv, LParts
<1>1. OInv'
  BY NextOInv
<1>2. CASE Next
  <2>1. Gates' /\ Sorted'
    BY <1>2, NextGates, NextSorted
  <2>2. enabled' => Flow'
    <3>1. SUFFICES ASSUME enabled' PROVE Flow'
      OBVIOUS
    <3>2. CASE Take
      BY <1>1, <3>1, <3>2, TakeFlow
    <3>3. CASE Process
      BY <1>1, <3>1, <3>3, ProcessFlow
    <3>4. CASE Queue
      BY <1>1, <3>1, <3>4, QueueFlow
    <3>5. CASE ReceiveShort \/ ReceiveLong \/ ReturnEmpty
      <4>1. /\ UNCHANGED <<delivered, silent, callbacks, worker, accepting>> /\ enabled' = enabled
        BY <3>5 DEF ReceiveShort, ReceiveLong, ReturnEmpty, DriverRest, historyVars, gateVars
      <4>2. \E kind, place, buffer :
              /\ Enter(kind, place, buffer)
              /\ \/ kind \in Kinds /\ place = sent + 1 /\ sent' = sent + 1
                 \/ kind = "empty" /\ sent' = sent
        <5>1. CASE ReceiveShort \/ ReceiveLong
          <6>1. script \in Seq(Kinds) /\ sent \in Nat /\ sent < Len(script) /\ sent' = sent + 1
            BY <5>1 DEF ReceiveShort, ReceiveLong, OInv, OParts, Typed
          <6>2. script[sent + 1] \in Kinds
            BY <6>1
          <6>3. \E buffer : Enter(script[sent + 1], sent + 1, buffer)
            BY <5>1 DEF ReceiveShort, ReceiveLong
          <6> QED BY <6>1, <6>2, <6>3
        <5>2. CASE ReturnEmpty
          BY <5>2 DEF ReturnEmpty
        <5> QED BY <3>5, <5>1, <5>2
      <4> QED BY <1>1, <3>1, <4>1, <4>2, EnterFlow
    <3>7. CASE QueueThrows
      BY <3>1, <3>7, ThrowFlow
    <3>8. CASE DropLong
      BY <3>1, <3>8, DropFlow
    <3>6. CASE ~Moves
      <4>1. /\ UNCHANGED <<callbacks, callback, number, sent, silent>>
            /\ InHand' = InHand /\ (InHand => worker' = worker)
            /\ \/ delivered' = delivered /\ (accepting' => accepting) /\ (enabled' => enabled)
               \/ delivered' = <<>> /\ lifecycle = "closed"
               \/ /\ delivered' = delivered /\ lifecycle = "opening" /\ Place = "idle"
        BY <1>2, <3>6, OtherSteps
      <4>2. CASE delivered' = delivered /\ (accepting' => accepting) /\ (enabled' => enabled)
        BY <3>1, <4>1, <4>2, FlowSame
      <4>3. CASE delivered' = <<>> /\ lifecycle = "closed"
        <5>1. Still
          BY <4>3 DEF OInv, IInv, Quiet
        <5> QED BY <4>1, <4>3, <5>1, NoFlow DEF Still, InHand, Leased, NoCallback
      <4>4. CASE delivered' = delivered /\ lifecycle = "opening" /\ Place = "idle"
        <5>1. Still /\ delivered = <<>>
          BY <4>4 DEF OInv, IInv, Quiet, Gates
        <5> QED BY <4>1, <4>4, <5>1, NoFlow DEF Still, InHand, Leased, NoCallback
      <4> QED BY <4>1, <4>2, <4>3, <4>4
    <3> QED BY <3>2, <3>3, <3>4, <3>5, <3>6, <3>7, <3>8 DEF Moves
  <2>3. delivered' \in Seq(Piece) /\ (delivered' \in {delivered, <<>>} \/ enabled')
    <3>1. CASE Process
      <4>1. worker.event \in AnyEvent /\ enabled' = enabled
        BY <3>1 DEF Process, gateVars, OInv, OParts, Typed, InHand
      <4> DEFINE piece == [type |-> IF IsData(worker.event) THEN "data" ELSE "loss",
                           place |-> worker.event.place]
      <4>2. piece \in Piece
        BY <4>1 DEF Piece, AnyEvent
      <4>3. delivered' = delivered \/ (enabled /\ delivered' = Append(delivered, piece))
        BY <3>1 DEF Process, Deliver
      <4> HIDE DEF piece
      <4> QED BY <4>1, <4>2, <4>3
    <3>2. CASE ~Process
      <4>1. delivered' \in {delivered, <<>>}
        <5>1. CASE ~Moves
          BY <1>2, <5>1, OtherSteps
        <5>2. CASE Moves
          BY <3>2, <5>2 DEF Moves, ReceiveShort, ReceiveLong, DropLong, ReturnEmpty, Queue,
                            QueueThrows, Take, DriverRest, historyVars
        <5> QED BY <5>1, <5>2
      <4>2. delivered \in Seq(Piece) /\ <<>> \in Seq(Piece)
        OBVIOUS
      <4> QED BY <4>1, <4>2
    <3> QED BY <3>1, <3>2
  <2>4. Seen'
    <3>1. CASE enabled'
      <4>1. (OInv /\ delivered \in Seq(Piece) /\ Flow => Seen)'
        BY SeenFlow, PTL
      <4> QED BY <1>1, <2>2, <2>3, <3>1, <4>1
    <3>2. CASE delivered' \in {delivered, <<>>}
      <4>1. silent \subseteq silent'
        BY <1>2, SilentGrows
      <4>2. \A a, b : Gap(silent', a, b) => Gap(silent, a, b)
        BY <4>1, MoreSilent
      <4> QED BY <3>2, <4>2 DEF Seen
    <3> QED BY <2>3, <3>1, <3>2
  <2> QED BY <1>1, <2>1, <2>2, <2>3, <2>4
<1>3. CASE UNCHANGED vars
  <2>1. UNCHANGED <<callbacks, callback, number, sent, delivered, silent, worker, accepting, enabled, context,
                    owner, lifecycle, call>>
    BY <1>3 DEF vars, deviceVars, heldVars, queueVars, bufferVars, gateVars, ownerVars, historyVars
  <2>2. Gates' /\ Sorted' /\ Seen'
    BY <2>1, GatesSame, SortedSame DEF Place, Seen
  <2>3. enabled' => Flow'
    BY <2>1, FlowSame DEF InHand
  <2> QED BY <1>1, <2>1, <2>2, <2>3
<1> QED BY <1>2, <1>3

(* The events on their way stay in the order of the device, and a gap among  *)
(* them is never without its loss, whatever overflows, is refused or cannot  *)
(* be submitted again.                                                       *)
THEOREM FlowInductive == Spec => []LInv
<1> QED BY InitLInv, NextLInv, PTL DEF Spec

(* "Adjacent-only overflow coalescing preserves ordered loss across later     *)
(* frame boundaries" (RISK_REGISTER R-003): data reaches the handler in the   *)
(* order the device sent it, and what is missing between two pieces is told  *)
(* between them, for any capacity, number of buffers and script.             *)
THEOREM LossMarksItsPlace == Spec => []LossSeparates
<1>1. ASSUME LInv
      PROVE  LossSeparates
  <2>1. delivered \in Seq(Piece) /\ Seen
    BY <1>1 DEF LInv, LParts
  <2>2. DOMAIN delivered = 1..Len(delivered)
    BY <2>1
  <2> QED BY <2>1, <2>2 DEF Seen, Gap, LossSeparates
<1> QED BY <1>1, FlowInductive, PTL

=============================================================================
