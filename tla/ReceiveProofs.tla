---------------------------- MODULE ReceiveProofs ----------------------------
(***************************************************************************)
(* Receiving, for all values of the constants.  The queue of StreamQueue:  *)
(* whatever its capacity and whatever a transport publishes, the worker    *)
(* gets every event, in order, or a loss marker in its place, the queue    *)
(* never outgrows its capacity, the worker leaves nothing behind when it   *)
(* exits, and a frame the capture calls complete is one the device sent    *)
(* whole, unless markers of two addresses were owed at once.  The capture  *)
(* of SysExReceive: whatever it hears, complete frames were sent whole, no *)
(* loss is forgotten, every piece is kept once and in order, every whole   *)
(* frame has its document, and stopping keeps the frames already there.    *)
(* The receive path of WmsReceive: the handler gets what was queued in     *)
(* order, close() drains it, and complete frames were sent whole unless a  *)
(* loss was left to an earlier marker.                                     *)
(***************************************************************************)
EXTENDS StreamQueue, SysExReceive, WmsReceive, SequenceTheorems, WellFoundedInduction, TLAPS

-----------------------------------------------------------------------------
(* Sequences, whatever their elements are. *)

IsSeq(s) == \E S : s \in Seq(S)

(* Appending keeps the old places and fills the next one. *)
LEMMA AppendPlaces ==
  ASSUME NEW s, IsSeq(s), NEW x
  PROVE  /\ IsSeq(Append(s, x))
         /\ Len(s) \in Nat
         /\ Len(Append(s, x)) = Len(s) + 1
         /\ \A i \in 1..Len(s) : Append(s, x)[i] = s[i]
         /\ Append(s, x)[Len(s) + 1] = x
<1>1. PICK S : s \in Seq(S)
  BY DEF IsSeq
<1> DEFINE T == S \cup {x}
<1>2. s \in Seq(T) /\ x \in T
  BY <1>1, SeqMonotonic
<1> HIDE DEF T
<1>3. Append(s, x) \in Seq(T)
  BY <1>2
<1>4. IsSeq(Append(s, x))
  BY <1>3 DEF IsSeq
<1>5. Len(s) \in Nat /\ Len(Append(s, x)) = Len(s) + 1
  BY <1>2
<1>6. \A i \in 1..Len(s) : Append(s, x)[i] = s[i]
  BY <1>2
<1>7. Append(s, x)[Len(s) + 1] = x
  BY <1>2
<1> QED BY <1>4, <1>5, <1>6, <1>7

(* Taking the head off moves every place down by one. *)
LEMMA TailPlaces ==
  ASSUME NEW s, IsSeq(s), s # <<>>
  PROVE  /\ IsSeq(Tail(s))
         /\ Len(s) \in Nat \ {0}
         /\ Len(Tail(s)) = Len(s) - 1
         /\ Head(s) = s[1]
         /\ \A i \in 1..Len(Tail(s)) : Tail(s)[i] = s[i + 1]
<1>1. PICK S : s \in Seq(S)
  BY DEF IsSeq
<1>2. IsSeq(Tail(s))
  BY <1>1 DEF IsSeq
<1>3. Len(s) \in Nat \ {0} /\ Len(Tail(s)) = Len(s) - 1 /\ Head(s) = s[1]
  BY <1>1
<1>4. \A i \in 1..Len(Tail(s)) : Tail(s)[i] = s[i + 1]
  BY <1>1, <1>3
<1> QED BY <1>2, <1>3, <1>4

(* n times the same item. *)
LEMMA RepeatPlaces ==
  ASSUME NEW n \in Nat, NEW x
  PROVE  /\ IsSeq([i \in 1..n |-> x])
         /\ Len([i \in 1..n |-> x]) = n
         /\ \A i \in 1..n : [j \in 1..n |-> x][i] = x
<1> DEFINE r == [i \in 1..n |-> x]
<1>1. r \in [1..n -> {x}]
  OBVIOUS
<1>2. r \in Seq({x})
  BY <1>1, SeqDef
<1>3. Len(r) = n
  BY <1>1, <1>2, LenProperties
<1> QED BY <1>2, <1>3 DEF IsSeq

(* In a concatenation the second part follows the first. *)
LEMMA ConcatPlaces ==
  ASSUME NEW s, IsSeq(s), NEW t, IsSeq(t)
  PROVE  /\ IsSeq(s \o t)
         /\ Len(s) \in Nat /\ Len(t) \in Nat
         /\ Len(s \o t) = Len(s) + Len(t)
         /\ \A i \in 1..Len(s) : (s \o t)[i] = s[i]
         /\ \A i \in 1..Len(t) : (s \o t)[Len(s) + i] = t[i]
<1>1. PICK S : s \in Seq(S)
  BY DEF IsSeq
<1>2. PICK T : t \in Seq(T)
  BY DEF IsSeq
<1> DEFINE U == S \cup T
<1>3. s \in Seq(U) /\ t \in Seq(U)
  BY <1>1, <1>2, SeqMonotonic
<1> HIDE DEF U
<1>4. /\ s \o t \in Seq(U)
      /\ Len(s \o t) = Len(s) + Len(t)
      /\ \A i \in 1..Len(s) + Len(t) :
           (s \o t)[i] = IF i <= Len(s) THEN s[i] ELSE t[i - Len(s)]
  BY <1>3, ConcatProperties
<1>5. Len(s) \in Nat /\ Len(t) \in Nat
  BY <1>3
<1>6. \A i \in 1..Len(t) : (s \o t)[Len(s) + i] = t[i]
  <2> TAKE i \in 1..Len(t)
  <2>1. /\ Len(s) + i \in 1..Len(s) + Len(t)
        /\ ~(Len(s) + i <= Len(s))
        /\ (Len(s) + i) - Len(s) = i
    BY <1>5
  <2> QED BY <1>4, <2>1
<1>7. \A i \in 1..Len(s) : (s \o t)[i] = s[i]
  BY <1>4, <1>5
<1> QED BY <1>4, <1>5, <1>6, <1>7 DEF IsSeq

-----------------------------------------------------------------------------
(* An item stands for the i-th event of the n published so far. *)
StandsFor(item, i, stream, n) ==
  \/ item = stream[i]
  \/ item.type = "loss" /\ item.affects /\ item.seq \in i..n

(* The inductive invariant states the property for the three parts of the    *)
(* pipeline one by one, and adds why an owed marker may stand for any of the *)
(* events it is owed for: it names the event published last.                 *)
OwedShape == owed = [count |-> owed.count, seq |-> owed.seq,
                     backend |-> owed.backend, group |-> owed.group]

Placed ==
  /\ script \in Scripts
  /\ sent \in Nat
  /\ OwedShape
  /\ owed.count \in Nat
  /\ IsSeq(taken) /\ IsSeq(queue)
  /\ Len(queue) <= Capacity
  /\ Len(taken) + Len(queue) + owed.count = sent
  /\ owed.count > 0 => owed.seq = sent
  /\ \A i \in 1..Len(taken) : StandsFor(taken[i], i, Stream, sent)
  /\ \A i \in 1..Len(queue) : StandsFor(queue[i], Len(taken) + i, Stream, sent)

LEMMA InitPlaced == Init => Placed
<1> SUFFICES ASSUME Init PROVE Placed
  OBVIOUS
<1>1. IsSeq(<<>>) /\ Len(<<>>) = 0
  BY DEF IsSeq
<1> QED BY <1>1, CapacityAssumption DEF Init, Placed, OwedShape

(* What enqueue_stream_event() finds once it has put back the owed markers   *)
(* there is room for.                                                        *)
LEMMA PaidPlaced ==
  ASSUME Placed
  PROVE  /\ Pushed \in Nat /\ Pushed <= owed.count
         /\ IsSeq(PaidQueue)
         /\ Len(PaidQueue) = Len(queue) + Pushed
         /\ Len(PaidQueue) <= Capacity
         /\ Len(PaidQueue) < Capacity => Pushed = owed.count
         /\ \A i \in 1..Len(PaidQueue) : StandsFor(PaidQueue[i], Len(taken) + i, Stream, sent)
<1> DEFINE markers == [i \in 1..Pushed |-> Marker]
<1>1. IsSeq(queue) /\ IsSeq(taken) /\ Len(queue) \in Nat /\ Len(taken) \in Nat
  BY AppendPlaces DEF Placed
<1>2. Capacity \in Nat
  BY CapacityAssumption
<1>3. /\ Pushed \in Nat /\ Pushed <= owed.count
      /\ Len(queue) + Pushed <= Capacity
      /\ Len(queue) + Pushed < Capacity => Pushed = owed.count
  BY <1>1, <1>2 DEF Placed, Pushed, Room
<1>4. IsSeq(markers) /\ Len(markers) = Pushed /\ \A i \in 1..Pushed : markers[i] = Marker
  BY <1>3, RepeatPlaces
<1>5. PaidQueue = queue \o markers
  BY DEF PaidQueue
<1> HIDE DEF markers
<1>9. IsSeq(queue) /\ IsSeq(markers)
  BY <1>1, <1>4
<1>10. /\ IsSeq(queue \o markers)
       /\ Len(queue \o markers) = Len(queue) + Len(markers)
       /\ \A i \in 1..Len(queue) : (queue \o markers)[i] = queue[i]
       /\ \A i \in 1..Len(markers) : (queue \o markers)[Len(queue) + i] = markers[i]
  BY <1>9, ConcatPlaces
<1>6. /\ IsSeq(PaidQueue)
      /\ Len(PaidQueue) = Len(queue) + Pushed
      /\ \A i \in 1..Len(queue) : PaidQueue[i] = queue[i]
      /\ \A i \in 1..Pushed : PaidQueue[Len(queue) + i] = Marker
  BY <1>4, <1>5, <1>10
<1>7. ASSUME NEW i \in 1..Len(PaidQueue)
      PROVE  StandsFor(PaidQueue[i], Len(taken) + i, Stream, sent)
  <2>1. CASE i <= Len(queue)
    <3>1. i \in 1..Len(queue)
      BY <2>1, <1>1
    <3> QED BY <3>1, <1>6 DEF Placed
  <2>2. CASE i > Len(queue)
    <3>1. i - Len(queue) \in 1..Pushed /\ i = Len(queue) + (i - Len(queue))
      BY <2>2, <1>1, <1>3, <1>6
    <3>2. PaidQueue[i] = Marker
      BY <3>1, <1>6
    <3>3. owed.count > 0 /\ owed.count \in Nat
      BY <3>1, <1>3 DEF Placed
    <3>4. owed.seq = sent /\ sent \in Nat /\ Len(taken) + i <= sent
      BY <3>1, <3>3, <1>1, <1>3 DEF Placed
    <3> QED BY <3>2, <3>4, <1>1 DEF StandsFor, Marker
  <2> QED BY <2>1, <2>2, <1>1
<1> QED BY <1>3, <1>6, <1>7

(* An event or its marker keeps standing for its place as more is published. *)
LEMMA StandsForLater ==
  ASSUME NEW item, NEW i \in Nat, NEW stream, NEW m \in Nat, NEW n \in Nat, m <= n,
         StandsFor(item, i, stream, m)
  PROVE  StandsFor(item, i, stream, n)
BY DEF StandsFor

(* The sequence number of what is published next. *)
LEMMA NextNumber ==
  ASSUME Placed, sent < Len(script)
  PROVE  Stream[sent + 1].seq = sent + 1
<1>1. script \in Seq(Published) /\ sent \in Nat
  BY ScriptsAssumption DEF Placed
<1>2. sent + 1 \in 1..Len(script) /\ DOMAIN script = 1..Len(script)
  BY <1>1
<1>3. Stream[sent + 1] = [script[sent + 1] EXCEPT !.seq = sent + 1]
  BY <1>2 DEF Stream, Numbered
<1>4. script[sent + 1] \in Events
  BY <1>1, <1>2 DEF Published
<1> QED BY <1>3, <1>4 DEF Events

(* Publishing: the event is queued at its place, or its marker is owed. *)
LEMMA PublishPlaced == Placed /\ Publish => Placed'
<1> SUFFICES ASSUME Placed, Publish PROVE Placed'
  OBVIOUS
<1> DEFINE event == Stream[sent + 1]
<1>1. /\ sent' = sent + 1 /\ script' = script /\ taken' = taken
      /\ Offer(event)
      /\ sent < Len(script)
  BY DEF Publish, workerVars
<1>2. /\ sent \in Nat /\ owed.count \in Nat /\ Capacity \in Nat
      /\ IsSeq(taken) /\ Len(taken) \in Nat
      /\ IsSeq(queue) /\ Len(queue) \in Nat
      /\ Len(taken) + Len(queue) + owed.count = sent
      /\ script' \in Scripts
  BY <1>1, CapacityAssumption, AppendPlaces DEF Placed
<1>3. sent' \in Nat /\ sent <= sent' /\ Stream' = Stream
  BY <1>1, <1>2 DEF Stream
<1>4. \A i \in 1..Len(taken') : StandsFor(taken[i], i, Stream, sent)'
  <2> SUFFICES ASSUME NEW i \in 1..Len(taken)
               PROVE  StandsFor(taken[i], i, Stream, sent')
    BY <1>1, <1>3
  <2>1. StandsFor(taken[i], i, Stream, sent)
    BY DEF Placed
  <2> QED BY <2>1, <1>2, <1>3, StandsForLater
<1>5. \A i \in 1..Len(PaidQueue) : StandsFor(PaidQueue[i], Len(taken) + i, Stream, sent')
  <2> TAKE i \in 1..Len(PaidQueue)
  <2>1. StandsFor(PaidQueue[i], Len(taken) + i, Stream, sent) /\ Len(taken) + i \in Nat
    BY <1>2, PaidPlaced
  <2> QED BY <2>1, <1>2, <1>3, StandsForLater
<1>6. /\ Pushed \in Nat /\ Pushed <= owed.count
      /\ IsSeq(PaidQueue) /\ Len(PaidQueue) = Len(queue) + Pushed
      /\ Len(PaidQueue) <= Capacity
      /\ Len(PaidQueue) < Capacity => Pushed = owed.count
  BY PaidPlaced
<1>7. CASE Len(PaidQueue) = Capacity
  <2>1. /\ queue' = PaidQueue
        /\ owed'.count = (owed.count - Pushed) + 1
        /\ owed'.seq = event.seq
        /\ OwedShape'
    BY <1>1, <1>7 DEF Offer, RecordDrop, OwedShape
  <2>2. owed'.seq = sent'
    BY <1>1, <2>1, NextNumber
  <2>3. \A i \in 1..Len(queue') : StandsFor(queue[i], Len(taken) + i, Stream, sent)'
    BY <2>1, <1>1, <1>3, <1>5
  <2>4. Len(taken') + Len(queue') + owed'.count = sent' /\ owed'.count \in Nat
    <3>1. /\ Len(taken') = Len(taken) /\ Len(queue') = Len(queue) + Pushed
          /\ owed'.count = (owed.count - Pushed) + 1 /\ sent' = sent + 1
      BY <1>1, <1>6, <2>1
    <3>2. /\ Len(taken) \in Nat /\ Len(queue) \in Nat /\ owed.count \in Nat
          /\ Pushed \in Nat /\ Pushed <= owed.count
          /\ Len(taken) + Len(queue) + owed.count = sent
      BY <1>2, <1>6
    <3>3. Len(taken) + (Len(queue) + Pushed) + ((owed.count - Pushed) + 1) = sent + 1
          /\ (owed.count - Pushed) + 1 \in Nat
      BY <3>2
    <3> QED BY <3>1, <3>3
  <2>5. IsSeq(taken') /\ IsSeq(queue') /\ Len(queue') <= Capacity
    BY <1>1, <1>2, <1>6, <2>1
  <2> QED BY <1>2, <1>3, <1>4, <2>1, <2>2, <2>3, <2>4, <2>5 DEF Placed
<1>8. CASE Len(PaidQueue) # Capacity
  <2>1. queue' = Append(PaidQueue, event) /\ owed' = [owed EXCEPT !.count = @ - Pushed]
    BY <1>1, <1>8 DEF Offer
  <2>2. Len(PaidQueue) \in Nat /\ Len(PaidQueue) < Capacity /\ Pushed = owed.count
    BY <1>2, <1>6, <1>8
  <2>3. /\ IsSeq(queue') /\ Len(queue') = Len(PaidQueue) + 1
        /\ \A i \in 1..Len(PaidQueue) : queue'[i] = PaidQueue[i]
        /\ queue'[Len(PaidQueue) + 1] = event
    BY <1>6, <2>1, AppendPlaces
  <2>4. \A i \in 1..Len(queue') : StandsFor(queue[i], Len(taken) + i, Stream, sent)'
    <3> SUFFICES ASSUME NEW i \in 1..Len(queue')
                 PROVE  StandsFor(queue'[i], Len(taken) + i, Stream, sent')
      BY <1>1, <1>3
    <3>1. CASE i \in 1..Len(PaidQueue)
      BY <3>1, <2>3, <1>5
    <3>2. CASE i = Len(PaidQueue) + 1
      <4>1. Len(taken) + i = sent + 1
        <5>1. Len(taken) + (Len(queue) + Pushed) = sent
          BY <1>2, <2>2
        <5>2. i = (Len(queue) + Pushed) + 1
          BY <3>2, <1>6
        <5>3. Len(taken) \in Nat /\ Len(queue) \in Nat /\ Pushed \in Nat /\ sent \in Nat
          BY <1>2, <1>6
        <5> QED BY <5>1, <5>2, <5>3
      <4> QED BY <3>2, <4>1, <2>3 DEF StandsFor
    <3> QED BY <3>1, <3>2, <2>2, <2>3
  <2>5. owed'.count = 0 /\ OwedShape'
    BY <2>1, <2>2, <1>2 DEF Placed, OwedShape
  <2>6. Len(taken') + Len(queue') + owed'.count = sent'
    <3>1. Len(taken) + (Len(queue) + Pushed) = sent
      BY <1>2, <2>2
    <3>2. Len(queue') = (Len(queue) + Pushed) + 1
      BY <1>6, <2>3
    <3>3. Len(taken) \in Nat /\ Len(queue) \in Nat /\ Pushed \in Nat /\ sent \in Nat
      BY <1>2, <1>6
    <3> QED BY <3>1, <3>2, <3>3, <2>5, <1>1
  <2>7. IsSeq(taken') /\ IsSeq(queue') /\ Len(queue') <= Capacity
    BY <1>1, <1>2, <2>2, <2>3
  <2> QED BY <1>2, <1>3, <1>4, <2>4, <2>5, <2>6, <2>7 DEF Placed
<1> QED BY <1>7, <1>8

LEMMA TakeEventPlaced == Placed /\ TakeEvent => Placed'
<1> SUFFICES ASSUME Placed, TakeEvent PROVE Placed'
  OBVIOUS
<1>1. /\ queue # <<>> /\ queue' = Tail(queue) /\ taken' = Append(taken, Head(queue))
      /\ owed' = owed /\ sent' = sent /\ script' = script /\ Stream' = Stream
  BY DEF TakeEvent, Stream
<1>2. /\ IsSeq(queue') /\ Len(queue) \in Nat \ {0} /\ Len(queue') = Len(queue) - 1
      /\ Head(queue) = queue[1]
      /\ \A i \in 1..Len(queue') : queue'[i] = queue[i + 1]
  BY <1>1, TailPlaces DEF Placed
<1>3. /\ IsSeq(taken') /\ Len(taken) \in Nat /\ Len(taken') = Len(taken) + 1
      /\ \A i \in 1..Len(taken) : taken'[i] = taken[i]
      /\ taken'[Len(taken) + 1] = Head(queue)
  BY <1>1, AppendPlaces DEF Placed
<1>4. \A i \in 1..Len(taken') : StandsFor(taken'[i], i, Stream, sent)
  <2> TAKE i \in 1..Len(taken')
  <2>1. CASE i \in 1..Len(taken)
    BY <2>1, <1>3 DEF Placed
  <2>2. CASE i = Len(taken) + 1
    <3>1. 1 \in 1..Len(queue)
      BY <1>2
    <3>2. StandsFor(queue[1], Len(taken) + 1, Stream, sent)
      BY <3>1 DEF Placed
    <3> QED BY <2>2, <3>2, <1>2, <1>3
  <2> QED BY <2>1, <2>2, <1>3
<1>5. \A i \in 1..Len(queue') : StandsFor(queue'[i], Len(taken') + i, Stream, sent)
  <2> TAKE i \in 1..Len(queue')
  <2>1. i + 1 \in 1..Len(queue) /\ Len(taken') + i = Len(taken) + (i + 1)
    BY <1>2, <1>3
  <2>2. StandsFor(queue[i + 1], Len(taken) + (i + 1), Stream, sent)
    BY <2>1 DEF Placed
  <2> QED BY <2>1, <2>2, <1>2
<1>6. Len(taken') + Len(queue') + owed.count = sent /\ Len(queue') <= Capacity
  BY <1>2, <1>3, CapacityAssumption DEF Placed
<1> QED BY <1>1, <1>2, <1>3, <1>4, <1>5, <1>6 DEF Placed, OwedShape

LEMMA TakeMarkerPlaced == Placed /\ TakeMarker => Placed'
<1> SUFFICES ASSUME Placed, TakeMarker PROVE Placed'
  OBVIOUS
<1>1. /\ queue = <<>> /\ queue' = queue /\ taken' = Append(taken, Marker)
      /\ owed.count > 0 /\ owed' = [owed EXCEPT !.count = @ - 1]
      /\ sent' = sent /\ script' = script /\ Stream' = Stream
  BY DEF TakeMarker, Stream
<1>2. Len(queue) = 0
  BY <1>1
<1>3. /\ IsSeq(taken') /\ Len(taken) \in Nat /\ Len(taken') = Len(taken) + 1
      /\ \A i \in 1..Len(taken) : taken'[i] = taken[i]
      /\ taken'[Len(taken) + 1] = Marker
  BY <1>1, AppendPlaces DEF Placed
<1>4. owed'.count = owed.count - 1 /\ owed'.seq = owed.seq /\ OwedShape'
  BY <1>1 DEF Placed, OwedShape
<1>5. Len(taken) + 1 <= sent /\ owed.seq = sent /\ sent \in Nat
  BY <1>1, <1>2, <1>3 DEF Placed
<1>6. \A i \in 1..Len(taken') : StandsFor(taken'[i], i, Stream, sent)
  <2> TAKE i \in 1..Len(taken')
  <2>1. CASE i \in 1..Len(taken)
    BY <2>1, <1>3 DEF Placed
  <2>2. CASE i = Len(taken) + 1
    BY <2>2, <1>3, <1>5 DEF StandsFor, Marker
  <2> QED BY <2>1, <2>2, <1>3
<1>7. Len(taken') + Len(queue') + owed'.count = sent /\ owed'.count \in Nat
  BY <1>1, <1>2, <1>3, <1>4 DEF Placed
<1>8. \A i \in 1..Len(queue') : StandsFor(queue'[i], Len(taken') + i, Stream, sent)
  BY <1>1, <1>2
<1> QED BY <1>1, <1>3, <1>4, <1>5, <1>6, <1>7, <1>8 DEF Placed

(* Every other step leaves the pipeline alone. *)
LEMMA StillPlaced ==
  ASSUME Placed, UNCHANGED <<script, sent, queue, owed, taken>>
  PROVE  Placed'
BY DEF Placed, OwedShape, Stream

LEMMA StepPlaced == Placed /\ [Next]_vars => Placed'
<1> SUFFICES ASSUME Placed, [Next]_vars PROVE Placed'
  OBVIOUS
<1>1. CASE Publish
  BY <1>1, PublishPlaced
<1>2. ASSUME NEW name, Enqueue(name) PROVE Placed'
  BY <1>2, StillPlaced DEF Enqueue, transportVars, workerVars
<1>3. CASE Stop
  BY <1>3, StillPlaced DEF Stop, transportVars, workerVars
<1>4. CASE Reconnect
  BY <1>4, StillPlaced DEF Reconnect, transportVars, workerVars
<1>5. CASE TakeCommand
  BY <1>5, StillPlaced DEF TakeCommand, transportVars
<1>6. CASE TakeEvent
  BY <1>6, TakeEventPlaced
<1>7. CASE TakeMarker
  BY <1>7, TakeMarkerPlaced
<1>8. CASE Consume
  BY <1>8, StillPlaced DEF Consume, transportVars
<1>9. CASE BeginReceiving
  BY <1>9, StillPlaced DEF BeginReceiving, Answer, transportVars
<1>10. ASSUME NEW name, FinishReceiving(name) PROVE Placed'
  BY <1>10, StillPlaced DEF FinishReceiving, Answer, transportVars
<1>11. CASE ClearWorkspace
  BY <1>11, StillPlaced DEF ClearWorkspace, Answer, transportVars
<1>12. CASE Exit
  BY <1>12, StillPlaced DEF Exit, transportVars
<1>13. CASE UNCHANGED vars
  BY <1>13, StillPlaced DEF vars, transportVars, workerVars
<1> QED
  BY <1>1, <1>2, <1>3, <1>4, <1>5, <1>6, <1>7, <1>8, <1>9, <1>10, <1>11, <1>12, <1>13
  DEF Next, Worker

(* The parts in order make up the pipeline. *)
LEMMA PlacedPipeline == Placed => EachEventOrItsMarker
<1> SUFFICES ASSUME Placed PROVE EachEventOrItsMarker
  OBVIOUS
<1> DEFINE markers == [i \in 1..owed.count |-> Marker]
<1> DEFINE front == taken \o queue
<1>1. IsSeq(taken) /\ IsSeq(queue) /\ owed.count \in Nat /\ sent \in Nat
  BY DEF Placed
<1>2. IsSeq(markers) /\ Len(markers) = owed.count /\ \A i \in 1..owed.count : markers[i] = Marker
  BY <1>1, RepeatPlaces
<1>3. Pipeline = front \o markers
  BY DEF Pipeline
<1> HIDE DEF markers
<1>9. IsSeq(taken) /\ IsSeq(queue)
  BY <1>1
<1>10. /\ IsSeq(taken \o queue)
       /\ Len(taken) \in Nat /\ Len(queue) \in Nat
       /\ Len(taken \o queue) = Len(taken) + Len(queue)
       /\ \A i \in 1..Len(taken) : (taken \o queue)[i] = taken[i]
       /\ \A i \in 1..Len(queue) : (taken \o queue)[Len(taken) + i] = queue[i]
  BY <1>9, ConcatPlaces
<1>4. /\ IsSeq(front) /\ Len(taken) \in Nat /\ Len(queue) \in Nat
      /\ Len(front) = Len(taken) + Len(queue)
      /\ \A i \in 1..Len(taken) : front[i] = taken[i]
      /\ \A i \in 1..Len(queue) : front[Len(taken) + i] = queue[i]
  BY <1>10
<1> HIDE DEF front
<1>5. IsSeq(front) /\ IsSeq(markers)
  BY <1>2, <1>4
<1>6. /\ Len(front \o markers) = Len(front) + Len(markers)
      /\ \A i \in 1..Len(front) : (front \o markers)[i] = front[i]
      /\ \A i \in 1..Len(markers) : (front \o markers)[Len(front) + i] = markers[i]
  BY <1>5, ConcatPlaces
<1>7. Len(Pipeline) = sent
  BY <1>1, <1>2, <1>3, <1>4, <1>6 DEF Placed
<1>8. ASSUME NEW i \in 1..sent PROVE StandsFor(Pipeline[i], i, Stream, sent)
  <2>1. CASE i \in 1..Len(taken)
    <3>1. i \in 1..Len(front)
      BY <2>1, <1>4
    <3> QED BY <2>1, <3>1, <1>3, <1>4, <1>6 DEF Placed
  <2>2. CASE i > Len(taken) /\ i <= Len(taken) + Len(queue)
    <3> DEFINE j == i - Len(taken)
    <3>1. j \in 1..Len(queue) /\ Len(taken) + j = i /\ i \in 1..Len(front)
      BY <2>2, <1>4
    <3>2. StandsFor(queue[j], Len(taken) + j, Stream, sent)
      BY <3>1 DEF Placed
    <3> HIDE DEF j
    <3> QED BY <3>1, <3>2, <1>3, <1>4, <1>6
  <2>3. CASE i > Len(taken) + Len(queue)
    <3> DEFINE j == i - Len(front)
    <3>1. j \in 1..owed.count /\ Len(front) + j = i
      BY <2>3, <1>1, <1>4 DEF Placed
    <3>2. owed.count > 0
      BY <3>1, <1>1
    <3>3. owed.seq = sent
      BY <3>2 DEF Placed
    <3> HIDE DEF j
    <3>4. Pipeline[i] = Marker
      BY <3>1, <1>2, <1>3, <1>6
    <3> QED BY <3>3, <3>4, <1>1 DEF StandsFor, Marker
  <2> QED BY <2>1, <2>2, <2>3, <1>1, <1>4
<1> QED BY <1>7, <1>8 DEF EachEventOrItsMarker, StandsFor

(* Every event a transport publishes reaches the worker in its place, or a   *)
(* loss marker does, for every capacity and every script.                    *)
THEOREM NoSilentGap == Spec => []EachEventOrItsMarker
<1>1. Init => Placed
  BY InitPlaced
<1>2. Placed /\ [Next]_vars => Placed'
  BY StepPlaced
<1>3. Placed => EachEventOrItsMarker
  BY PlacedPipeline
<1> QED BY <1>1, <1>2, <1>3, PTL DEF Spec

(* stream_events_ never outgrows stream_capacity, whatever is paid back.     *)
THEOREM QueueBounded == Spec => [](Len(queue) <= Capacity)
<1>1. Init => Placed
  BY InitPlaced
<1>2. Placed /\ [Next]_vars => Placed'
  BY StepPlaced
<1>3. Placed => Len(queue) <= Capacity
  BY DEF Placed
<1> QED BY <1>1, <1>2, <1>3, PTL DEF Spec

-----------------------------------------------------------------------------
(* What holds of a worker that has exited: it saw the end of everything, and *)
(* nobody may add to it any more, because stopping_ was set before.  The     *)
(* commands must be known by name: an unknown one might be taken after all.  *)
NamesKnown ==
  /\ job.name \in Commands \cup {"run", "exited"}
  /\ IsSeq(commands)
  /\ \A i \in 1..Len(commands) : commands[i].name \in Commands

Left ==
  job.name = "exited" =>
    /\ stopping
    /\ held = <<>> /\ queue = <<>> /\ owed.count = 0
    /\ commands = <<>>
    /\ ~session.receiving

LEMMA InitLeft == Init => NamesKnown /\ Left
<1>1. IsSeq(<<>>) /\ Len(<<>>) = 0
  BY DEF IsSeq
<1> QED BY <1>1 DEF Init, NamesKnown, Left, Job

(* Commands keep their names in the queue and on their way to the worker.    *)
LEMMA StepNames == NamesKnown /\ [Next]_vars => NamesKnown'
<1> SUFFICES ASSUME NamesKnown, [Next]_vars PROVE NamesKnown'
  OBVIOUS
<1>1. ASSUME NEW name \in Commands, Enqueue(name) PROVE NamesKnown'
  <2> DEFINE added == Job(name, IF name \in Ending THEN sent ELSE 0)
  <2>1. commands' = Append(commands, added) /\ job' = job /\ added.name = name
    BY <1>1 DEF Enqueue, workerVars, Job
  <2> HIDE DEF added
  <2>2. /\ IsSeq(Append(commands, added))
        /\ Len(commands) \in Nat
        /\ Len(Append(commands, added)) = Len(commands) + 1
        /\ \A i \in 1..Len(commands) : Append(commands, added)[i] = commands[i]
        /\ Append(commands, added)[Len(commands) + 1] = added
    BY AppendPlaces DEF NamesKnown
  <2>3. \A i \in 1..Len(commands') : commands'[i].name \in Commands
    <3> TAKE i \in 1..Len(commands')
    <3>1. CASE i \in 1..Len(commands)
      BY <3>1, <2>1, <2>2 DEF NamesKnown
    <3>2. CASE i = Len(commands) + 1
      BY <3>2, <2>1, <2>2
    <3> QED BY <3>1, <3>2, <2>1, <2>2
  <2> QED BY <2>1, <2>2, <2>3 DEF NamesKnown
<1>2. CASE TakeCommand
  <2>1. commands # <<>> /\ job' = Head(commands) /\ commands' = Tail(commands)
    BY <1>2 DEF TakeCommand
  <2>2. /\ IsSeq(Tail(commands))
        /\ Len(commands) \in Nat \ {0}
        /\ Len(Tail(commands)) = Len(commands) - 1
        /\ Head(commands) = commands[1]
        /\ \A i \in 1..Len(Tail(commands)) : Tail(commands)[i] = commands[i + 1]
    BY <2>1, TailPlaces DEF NamesKnown
  <2>3. job'.name \in Commands
    <3>1. 1 \in 1..Len(commands)
      BY <2>2
    <3> QED BY <3>1, <2>1, <2>2 DEF NamesKnown
  <2>4. \A i \in 1..Len(commands') : commands'[i].name \in Commands
    <3> TAKE i \in 1..Len(commands')
    <3>1. i + 1 \in 1..Len(commands)
      BY <2>1, <2>2
    <3> QED BY <3>1, <2>1, <2>2 DEF NamesKnown
  <2> QED BY <2>1, <2>2, <2>3, <2>4 DEF NamesKnown
<1>3. ASSUME UNCHANGED <<commands, job>> PROVE NamesKnown'
  BY <1>3 DEF NamesKnown
<1>4. ASSUME commands' = commands, Answer PROVE NamesKnown'
  BY <1>4 DEF Answer, Job, NamesKnown
<1>5. CASE Publish
  BY <1>5, <1>3 DEF Publish, clientVars, workerVars
<1>6. CASE Stop
  BY <1>6, <1>3 DEF Stop, workerVars
<1>7. CASE Reconnect
  BY <1>7, <1>3 DEF Reconnect, clientVars, workerVars
<1>8. CASE TakeEvent
  BY <1>8, <1>3 DEF TakeEvent, clientVars
<1>9. CASE TakeMarker
  BY <1>9, <1>3 DEF TakeMarker, clientVars
<1>10. CASE Consume
  BY <1>10, <1>3 DEF Consume, clientVars
<1>11. CASE BeginReceiving
  BY <1>11, <1>4 DEF BeginReceiving, Answer, clientVars
<1>12. ASSUME NEW name \in Ending, FinishReceiving(name) PROVE NamesKnown'
  BY <1>12, <1>4 DEF FinishReceiving, Answer, clientVars
<1>13. CASE ClearWorkspace
  BY <1>13, <1>4 DEF ClearWorkspace, Answer, clientVars
<1>14. CASE Exit
  <2>1. job'.name = "exited" /\ commands' = commands
    BY <1>14 DEF Exit, Job, clientVars
  <2> QED BY <2>1 DEF NamesKnown
<1>15. CASE UNCHANGED vars
  BY <1>15, <1>3 DEF vars, clientVars, workerVars
<1> QED
  BY <1>1, <1>2, <1>5, <1>6, <1>7, <1>8, <1>9, <1>10, <1>11, <1>12, <1>13, <1>14, <1>15
  DEF Next, Worker

(* Finishing a capture ends it, whatever it had collected. *)
LEMMA FinishEnds == \A s : ~FinishReceive(s).receiving
BY DEF FinishReceive

(* The worker exits with everything seen, and once it has, no step is left   *)
(* that could bring anything new.                                            *)
LEMMA StepLeft == NamesKnown /\ Left /\ [Next]_vars => Left'
<1> SUFFICES ASSUME NamesKnown, Left, [Next]_vars PROVE Left'
  OBVIOUS
<1>1. ASSUME UNCHANGED <<job, stopping, held, queue, owed, commands, session>> PROVE Left'
  BY <1>1 DEF Left
<1>2. ASSUME job.name # "exited", job' = job PROVE Left'
  BY <1>2 DEF Left
<1>3. ASSUME Answer PROVE Left'
  BY <1>3 DEF Answer, Job, Left
<1>4. CASE Publish
  BY <1>4, <1>2 DEF Publish, workerVars, Left
<1>5. ASSUME NEW name \in Commands, Enqueue(name) PROVE Left'
  BY <1>5, <1>2 DEF Enqueue, workerVars, Left
<1>6. CASE Stop
  BY <1>6, <1>2 DEF Stop, workerVars, Left
<1>7. CASE Reconnect
  BY <1>7, <1>1 DEF Reconnect, transportVars, clientVars, workerVars
<1>8. CASE TakeCommand
  <2>1. commands # <<>> /\ job' = Head(commands)
    BY <1>8 DEF TakeCommand
  <2>2. Len(commands) \in Nat \ {0} /\ Head(commands) = commands[1]
    BY <2>1, TailPlaces DEF NamesKnown
  <2>3. job'.name \in Commands
    <3>1. 1 \in 1..Len(commands)
      BY <2>2
    <3> QED BY <3>1, <2>1, <2>2 DEF NamesKnown
  <2> QED BY <2>3 DEF Left, Commands, Draining, Ending
<1>9. ASSUME MayTakeEvent PROVE job.name # "exited"
  BY <1>9 DEF MayTakeEvent, Draining, Ending
<1>10. CASE TakeEvent
  BY <1>10, <1>2, <1>9 DEF TakeEvent
<1>11. CASE TakeMarker
  BY <1>11, <1>2, <1>9 DEF TakeMarker
<1>12. CASE Consume
  BY <1>12, <1>2 DEF Consume, Free, Left
<1>13. CASE BeginReceiving
  BY <1>13, <1>3 DEF BeginReceiving
<1>14. ASSUME NEW name \in Ending, FinishReceiving(name) PROVE Left'
  BY <1>14, <1>3 DEF FinishReceiving
<1>15. CASE ClearWorkspace
  BY <1>15, <1>3 DEF ClearWorkspace
<1>16. CASE Exit
  <2>1. /\ UNCHANGED <<queue, owed, commands, stopping, held>>
        /\ held = <<>> /\ queue = <<>> /\ owed.count = 0 /\ commands = <<>> /\ stopping
        /\ session' = FinishReceive(session)
    BY <1>16 DEF Exit, Drained, Free, transportVars, clientVars
  <2> QED BY <2>1, FinishEnds DEF Left
<1>17. CASE UNCHANGED vars
  BY <1>17, <1>1 DEF vars, transportVars, clientVars, workerVars
<1> QED
  BY <1>4, <1>5, <1>6, <1>7, <1>8, <1>10, <1>11, <1>12, <1>13, <1>14, <1>15, <1>16, <1>17
  DEF Next, Worker

(* A destroyed worker has executed every command it accepted, has seen every *)
(* event the queue accepted and a marker for every other one, and has ended  *)
(* the capture, for every capacity, every script and any number of commands. *)
THEOREM ExitIsComplete == Spec => []ExitLeavesNothing
<1>1. Init => Placed /\ NamesKnown /\ Left
  BY InitPlaced, InitLeft
<1>2. Placed /\ NamesKnown /\ Left /\ [Next]_vars => Placed' /\ NamesKnown' /\ Left'
  BY StepPlaced, StepNames, StepLeft
<1>3. Placed /\ NamesKnown /\ Left => ExitLeavesNothing
  <2> SUFFICES ASSUME Placed, Left, job.name = "exited" PROVE Len(taken) = sent
    BY DEF Left, ExitLeavesNothing
  <2>1. Len(queue) = 0 /\ owed.count = 0 /\ Len(taken) + Len(queue) + owed.count = sent
    BY DEF Left, Placed
  <2>2. Len(taken) \in Nat
    BY AppendPlaces DEF Placed
  <2> QED BY <2>1, <2>2
<1> QED BY <1>1, <1>2, <1>3, PTL DEF Spec

-----------------------------------------------------------------------------
(* What the capture makes of a stream.  A frame that is being read, and that *)
(* no loss has hit, has been read without a gap up to the place the stream   *)
(* has come to; so it is whole when its end comes.                           *)
Place     == Nat \X Nat
LaneState == [inside : BOOLEAN, pieces : Seq(Place), lost : BOOLEAN, pending : BOOLEAN]
Frame     == [lane : Lanes, status : Statuses, pieces : Seq(Place), affected : BOOLEAN]
Sessions  == [receiving : BOOLEAN, lanes : [Lanes -> LaneState], frames : Seq(Frame)]

IsStream(stream) ==
  /\ stream \in Seq(Events)
  /\ \A i \in 1..Len(stream) : stream[i].seq = i

(* A frame of lane l whose next piece would be the next of l from q on. *)
Started(stream, l, pieces, q) ==
  LET last == Len(pieces) IN
  /\ last > 0
  /\ \A n \in 1..last : PieceOf(stream, l, pieces[n])
  /\ \A n \in 2..last : Adjacent(stream, l, pieces[n - 1], pieces[n])
  /\ KindAt(stream, pieces[1]) = "start"
  /\ \A n \in 2..last : KindAt(stream, pieces[n]) \in {"data", "continuation"}
  /\ Adjacent(stream, l, pieces[last], q)

LaneClean(stream, l, lane, q) ==
  lane.inside /\ ~lane.lost => Started(stream, l, lane.pieces, q)

FrameClean(stream, f) ==
  f.status = "complete" => ~f.affected /\ SentWhole(stream, f.lane, f.pieces)

FramesClean(stream, frames) == \A i \in 1..Len(frames) : FrameClean(stream, frames[i])

Clean(s, stream, q) ==
  /\ s \in Sessions
  /\ FramesClean(stream, s.frames)
  /\ \A l \in Lanes : LaneClean(stream, l, s.lanes[l], q)

(* The lanes: that of the bytes and one for each group. *)
LEMMA LanesKnown ==
  /\ Midi1 \in Lanes /\ Groups \subseteq Lanes /\ Midi1 \notin Groups
  /\ Len(LaneOrder) \in Nat /\ \A i \in 1..Len(LaneOrder) : LaneOrder[i] \in Lanes
  /\ \A l \in Lanes : \E i \in 1..Len(LaneOrder) : l = LaneOrder[i]
<1> DEFINE G == ToSet(GroupOrder)
<1>1. GroupOrder \in Seq(G) /\ IsInjective(<<Midi1>> \o GroupOrder)
  BY LanesDistinct
<1>2. IsSeq(<<Midi1>>) /\ IsSeq(GroupOrder) /\ Len(<<Midi1>>) = 1 /\ <<Midi1>>[1] = Midi1
  <2>1. <<Midi1>> \in Seq({Midi1})
    OBVIOUS
  <2> HIDE DEF G
  <2> QED BY <1>1, <2>1 DEF IsSeq
<1>3. /\ IsSeq(LaneOrder)
      /\ Len(LaneOrder) = 1 + Len(GroupOrder) /\ Len(GroupOrder) \in Nat
      /\ LaneOrder[1] = Midi1
      /\ \A i \in 1..Len(GroupOrder) : LaneOrder[1 + i] = GroupOrder[i]
  <2> DEFINE first == <<Midi1>>
  <2>1. IsSeq(first) /\ Len(first) = 1 /\ first[1] = Midi1
    BY <1>2
  <2>2. LaneOrder = first \o GroupOrder
    BY DEF LaneOrder
  <2> HIDE DEF first
  <2>0. IsSeq(first) /\ IsSeq(GroupOrder)
    BY <1>2, <2>1
  <2>3. /\ IsSeq(first \o GroupOrder)
        /\ Len(GroupOrder) \in Nat
        /\ Len(first \o GroupOrder) = Len(first) + Len(GroupOrder)
        /\ \A i \in 1..Len(first) : (first \o GroupOrder)[i] = first[i]
        /\ \A i \in 1..Len(GroupOrder) : (first \o GroupOrder)[Len(first) + i] = GroupOrder[i]
    BY <2>0, ConcatPlaces
  <2> QED BY <2>1, <2>2, <2>3
<1>4. DOMAIN LaneOrder = 1..Len(LaneOrder) /\ DOMAIN GroupOrder = 1..Len(GroupOrder)
  BY <1>1, <1>3 DEF IsSeq
<1>5. Lanes = {LaneOrder[i] : i \in 1..Len(LaneOrder)}
  BY <1>4 DEF Lanes, ToSet
<1>6. Groups = {GroupOrder[i] : i \in 1..Len(GroupOrder)}
  BY <1>4 DEF Groups, ToSet
<1>7. Midi1 \in Lanes
  <2>1. 1 \in 1..Len(LaneOrder)
    BY <1>3
  <2> QED BY <2>1, <1>3, <1>5
<1>8. ASSUME NEW g \in Groups PROVE g \in Lanes /\ g # Midi1
  <2>1. PICK i \in 1..Len(GroupOrder) : g = GroupOrder[i]
    BY <1>6
  <2>2. 1 + i \in 1..Len(LaneOrder) /\ LaneOrder[1 + i] = g /\ 1 \in 1..Len(LaneOrder) /\ 1 + i # 1
    BY <1>3, <2>1
  <2>3. \A a, b \in 1..Len(LaneOrder) : LaneOrder[a] = LaneOrder[b] => a = b
    BY <1>1, <1>4 DEF IsInjective, LaneOrder
  <2> QED BY <1>3, <1>5, <2>2, <2>3
<1> QED BY <1>3, <1>5, <1>7, <1>8

(* What an event has for a lane stands at numbered offsets. *)
LEMMA OffsetsAreNumbers ==
  ASSUME NEW stream, IsStream(stream), NEW i \in DOMAIN stream, NEW l
  PROVE  OffsetsOf(stream[i], l) \subseteq Nat
<1>1. stream[i] \in Events
  BY DEF IsStream
<1>2. CASE stream[i].type = "loss"
  BY <1>2 DEF OffsetsOf
<1>3. CASE stream[i].type # "loss"
  <2>1. \E S : stream[i].data \in Seq(S)
    BY <1>1, <1>3 DEF Events
  <2>2. DOMAIN stream[i].data \subseteq Nat
    BY <2>1
  <2> QED BY <1>3, <2>2 DEF OffsetsOf
<1> QED BY <1>2, <1>3

(* The next place of an event comes right after this one. *)
LEMMA NextPlace ==
  ASSUME NEW stream, IsStream(stream), NEW l, NEW e \in Nat, NEW k \in Nat
  PROVE  Adjacent(stream, l, <<e, k>>, <<e, k + 1>>)
<1> DEFINE p == <<e, k>>
           q == <<e, k + 1>>
<1>1. p[1] = e /\ p[2] = k /\ q[1] = e /\ q[2] = k + 1
  OBVIOUS
<1>2. DOMAIN stream \subseteq Nat
  BY DEF IsStream
<1>3. ASSUME NEW i \in DOMAIN stream, NEW j \in OffsetsOf(stream[i], l)
      PROVE  ~(Precedes(p, <<i, j>>) /\ Precedes(<<i, j>>, q))
  <2>1. i \in Nat /\ j \in Nat
    BY <1>2, <1>3, OffsetsAreNumbers
  <2> DEFINE x == <<i, j>>
  <2>2. x[1] = i /\ x[2] = j
    OBVIOUS
  <2> HIDE DEF p, q, x
  <2>3. ~(Precedes(p, x) /\ Precedes(x, q))
    BY <1>1, <2>1, <2>2 DEF Precedes
  <2> QED BY <2>3 DEF x
<1>4. Precedes(p, q)
  <2> HIDE DEF p, q
  <2> QED BY <1>1 DEF Precedes
<1> QED BY <1>3, <1>4 DEF Adjacent

(* What is not of the lane may be passed over. *)
LEMMA PassOver ==
  ASSUME NEW stream, IsStream(stream), NEW l, NEW p \in Place, NEW e \in Nat, NEW k \in Nat,
         Adjacent(stream, l, p, <<e, k>>), e \in DOMAIN stream => k \notin OffsetsOf(stream[e], l)
  PROVE  Adjacent(stream, l, p, <<e, k + 1>>)
<1> DEFINE q == <<e, k>>
           r == <<e, k + 1>>
<1>1. q[1] = e /\ q[2] = k /\ r[1] = e /\ r[2] = k + 1
  OBVIOUS
<1>2. DOMAIN stream \subseteq Nat
  BY DEF IsStream
<1>3. p[1] \in Nat /\ p[2] \in Nat
  BY DEF Place
<1>4. Adjacent(stream, l, p, q)
  OBVIOUS
<1> HIDE DEF q, r
<1>5. Precedes(p, r)
  BY <1>1, <1>3, <1>4 DEF Precedes, Adjacent
<1>6. ASSUME NEW i \in DOMAIN stream, NEW j \in OffsetsOf(stream[i], l)
      PROVE  ~(Precedes(p, <<i, j>>) /\ Precedes(<<i, j>>, r))
  <2>1. i \in Nat /\ j \in Nat
    BY <1>2, <1>6, OffsetsAreNumbers
  <2> DEFINE x == <<i, j>>
  <2>2. x[1] = i /\ x[2] = j
    OBVIOUS
  <2>3. ~(Precedes(p, x) /\ Precedes(x, q))
    BY <1>4, <1>6 DEF Adjacent
  <2> HIDE DEF x
  <2>4. i = e => j # k
    BY <1>6
  <2>5. ~(Precedes(p, x) /\ Precedes(x, r))
    BY <1>1, <2>1, <2>2, <2>3, <2>4 DEF Precedes
  <2> QED BY <2>5 DEF x
<1>7. Adjacent(stream, l, p, r)
  BY <1>5, <1>6 DEF Adjacent
<1> QED BY <1>7 DEF r

(* Past the last offset of an event comes the next event. *)
LEMMA NextEvent ==
  ASSUME NEW stream, IsStream(stream), NEW l, NEW p \in Place, NEW e \in Nat, NEW k \in Nat,
         Adjacent(stream, l, p, <<e, k>>),
         e \in DOMAIN stream => \A j \in OffsetsOf(stream[e], l) : j < k
  PROVE  Adjacent(stream, l, p, <<e + 1, 0>>)
<1> DEFINE q == <<e, k>>
           r == <<e + 1, 0>>
<1>1. q[1] = e /\ q[2] = k /\ r[1] = e + 1 /\ r[2] = 0
  OBVIOUS
<1>2. DOMAIN stream \subseteq Nat
  BY DEF IsStream
<1>3. p[1] \in Nat /\ p[2] \in Nat
  BY DEF Place
<1>4. Adjacent(stream, l, p, q)
  OBVIOUS
<1> HIDE DEF q, r
<1>5. Precedes(p, r)
  BY <1>1, <1>3, <1>4 DEF Precedes, Adjacent
<1>6. ASSUME NEW i \in DOMAIN stream, NEW j \in OffsetsOf(stream[i], l)
      PROVE  ~(Precedes(p, <<i, j>>) /\ Precedes(<<i, j>>, r))
  <2>1. i \in Nat /\ j \in Nat
    BY <1>2, <1>6, OffsetsAreNumbers
  <2> DEFINE x == <<i, j>>
  <2>2. x[1] = i /\ x[2] = j
    OBVIOUS
  <2>3. ~(Precedes(p, x) /\ Precedes(x, q))
    BY <1>4, <1>6 DEF Adjacent
  <2> HIDE DEF x
  <2>4. i = e => j < k
    BY <1>6
  <2>5. ~(Precedes(p, x) /\ Precedes(x, r))
    BY <1>1, <2>1, <2>2, <2>3, <2>4 DEF Precedes
  <2> QED BY <2>5 DEF x
<1>7. Adjacent(stream, l, p, r)
  BY <1>5, <1>6 DEF Adjacent
<1> QED BY <1>7 DEF r

LEMMA StartedOn ==
  ASSUME NEW stream, IsStream(stream), NEW l, NEW e \in DOMAIN stream, NEW k \in Nat,
         NEW pieces \in Seq(Place), Started(stream, l, pieces, <<e, k>>),
         k \notin OffsetsOf(stream[e], l)
  PROVE  Started(stream, l, pieces, <<e, k + 1>>)
<1> DEFINE last == Len(pieces)
<1>1. last \in 1..Len(pieces) /\ pieces[last] \in Place
  BY DEF Started
<1>2. e \in Nat
  BY DEF IsStream
<1>3. Adjacent(stream, l, pieces[last], <<e, k>>)
  BY DEF Started
<1>4. Adjacent(stream, l, pieces[last], <<e, k + 1>>)
  BY <1>1, <1>2, <1>3, PassOver
<1> QED BY <1>4 DEF Started

-----------------------------------------------------------------------------
(* What the methods of the capture make of a session. *)

LEMMA Emitted ==
  ASSUME NEW s \in Sessions, NEW l \in Lanes, NEW status \in Statuses,
         NEW pieces \in Seq(Place), NEW affected \in BOOLEAN
  PROVE  /\ Emit(s, l, status, pieces, affected) \in Sessions
         /\ Emit(s, l, status, pieces, affected).receiving = s.receiving
         /\ Emit(s, l, status, pieces, affected).lanes = s.lanes
         /\ Emit(s, l, status, pieces, affected).frames =
              Append(s.frames, [lane |-> l, status |-> status, pieces |-> pieces,
                                affected |-> affected])
<1> DEFINE f == [lane |-> l, status |-> status, pieces |-> pieces, affected |-> affected]
<1>1. f \in Frame
  BY DEF Frame
<1>2. Emit(s, l, status, pieces, affected) = [s EXCEPT !.frames = Append(@, f)]
  BY DEF Emit
<1> HIDE DEF f
<1>3. s.frames \in Seq(Frame)
  BY DEF Sessions
<1>4. Append(s.frames, f) \in Seq(Frame)
  BY <1>1, <1>3
<1> QED BY <1>2, <1>4 DEF Sessions, f

(* Only one lane and the frames have changed. *)
Became(s, t, l, lane, frames) ==
  /\ t \in Sessions /\ t.receiving = s.receiving
  /\ t.lanes[l] = lane /\ \A m \in Lanes \ {l} : t.lanes[m] = s.lanes[m]
  /\ t.frames = frames

LEMMA LaneSet ==
  ASSUME NEW s \in Sessions, NEW l \in Lanes, NEW lane \in LaneState
  PROVE  Became(s, [s EXCEPT !.lanes[l] = lane], l, lane, s.frames)
BY DEF Sessions, Became

LEMMA IdleLane == Idle \in LaneState /\ ~Idle.inside
<1>1. <<>> \in Seq(Place)
  OBVIOUS
<1> QED BY <1>1 DEF Idle, LaneState

LEMMA Closed ==
  ASSUME NEW s \in Sessions, NEW l \in Lanes, NEW status \in Statuses,
         NEW pieces \in Seq(Place), NEW affected \in BOOLEAN
  PROVE  Became(s, Close(s, l, status, pieces, affected), l, Idle,
                Append(s.frames, [lane |-> l, status |-> status, pieces |-> pieces,
                                  affected |-> affected]))
<1> DEFINE t == Emit(s, l, status, pieces, affected)
           u == [t EXCEPT !.lanes[l] = Idle]
<1>1. /\ t \in Sessions /\ t.receiving = s.receiving /\ t.lanes = s.lanes
      /\ t.frames = Append(s.frames, [lane |-> l, status |-> status, pieces |-> pieces,
                                      affected |-> affected])
  BY Emitted
<1>2. Close(s, l, status, pieces, affected) = u
  BY DEF Close
<1> HIDE DEF t
<1>3. Became(t, u, l, Idle, t.frames)
  BY <1>1, IdleLane, LaneSet
<1> HIDE DEF u
<1> QED BY <1>1, <1>2, <1>3 DEF Became

(* One more frame. *)
LEMMA FrameAdded ==
  ASSUME NEW stream, NEW frames \in Seq(Frame), FramesClean(stream, frames),
         NEW f \in Frame, FrameClean(stream, f)
  PROVE  FramesClean(stream, Append(frames, f))
<1> DEFINE more == Append(frames, f)
<1>1. /\ Len(frames) \in Nat /\ Len(more) = Len(frames) + 1
      /\ \A i \in 1..Len(frames) : more[i] = frames[i]
      /\ more[Len(frames) + 1] = f
  OBVIOUS
<1> HIDE DEF more
<1>2. ASSUME NEW i \in 1..Len(more) PROVE FrameClean(stream, more[i])
  <2>1. CASE i \in 1..Len(frames)
    BY <2>1, <1>1 DEF FramesClean
  <2>2. CASE i = Len(frames) + 1
    BY <2>2, <1>1
  <2> QED BY <2>1, <2>2, <1>1
<1> QED BY <1>2 DEF FramesClean, more

(* The frames a method emits. *)
LEMMA EmittedClean ==
  ASSUME NEW stream, NEW s \in Sessions, FramesClean(stream, s.frames), NEW l \in Lanes,
         NEW status \in Statuses, NEW pieces \in Seq(Place), NEW affected \in BOOLEAN,
         status = "complete" => ~affected /\ SentWhole(stream, l, pieces)
  PROVE  /\ FramesClean(stream, Emit(s, l, status, pieces, affected).frames)
         /\ FramesClean(stream, Close(s, l, status, pieces, affected).frames)
<1> DEFINE f == [lane |-> l, status |-> status, pieces |-> pieces, affected |-> affected]
<1>1. f \in Frame /\ f.status = status /\ f.affected = affected /\ f.lane = l /\ f.pieces = pieces
  BY DEF Frame
<1>2. /\ Emit(s, l, status, pieces, affected).frames = Append(s.frames, f)
      /\ Close(s, l, status, pieces, affected).frames = Append(s.frames, f)
  BY Emitted, Closed DEF Became
<1> HIDE DEF f
<1>3. s.frames \in Seq(Frame)
  BY DEF Sessions
<1>4. FrameClean(stream, f)
  BY <1>1 DEF FrameClean
<1> QED BY <1>1, <1>2, <1>3, <1>4, FrameAdded

(* A method that changes one lane, to whom the piece at <<e, k>> belongs. *)
LEMMA OneLane ==
  ASSUME NEW stream, IsStream(stream), NEW e \in DOMAIN stream, NEW k \in Nat,
         NEW s, Clean(s, stream, <<e, k>>),
         NEW l \in Lanes, \A m \in Lanes \ {l} : k \notin OffsetsOf(stream[e], m),
         NEW t \in Sessions, FramesClean(stream, t.frames),
         \A m \in Lanes \ {l} : t.lanes[m] = s.lanes[m],
         LaneClean(stream, l, t.lanes[l], <<e, k + 1>>)
  PROVE  Clean(t, stream, <<e, k + 1>>)
<1>1. ASSUME NEW m \in Lanes \ {l} PROVE LaneClean(stream, m, t.lanes[m], <<e, k + 1>>)
  <2>1. SUFFICES ASSUME s.lanes[m].inside, ~s.lanes[m].lost
                 PROVE  Started(stream, m, s.lanes[m].pieces, <<e, k + 1>>)
    BY DEF LaneClean
  <2>2. Started(stream, m, s.lanes[m].pieces, <<e, k>>)
    BY <2>1 DEF Clean, LaneClean
  <2> QED BY <2>2, StartedOn DEF Clean, Sessions, LaneState
<1>2. \A m \in Lanes : LaneClean(stream, m, t.lanes[m], <<e, k + 1>>)
  BY <1>1
<1> QED BY <1>2 DEF Clean

-----------------------------------------------------------------------------
(* A frame from its start to its end. *)

LEMMA PieceKnown ==
  ASSUME NEW stream, IsStream(stream), NEW l, NEW e, NEW k, PieceOf(stream, l, <<e, k>>)
  PROVE  /\ e \in DOMAIN stream /\ e \in Nat /\ k \in Nat
         /\ stream[e].type # "loss" /\ k \in OffsetsOf(stream[e], l)
         /\ <<e, k>> \in Place
<1>1. e \in DOMAIN stream /\ stream[e].type # "loss" /\ k \in OffsetsOf(stream[e], l)
  BY DEF PieceOf
<1>2. e \in Nat
  BY <1>1 DEF IsStream
<1>3. k \in Nat
  BY <1>1, OffsetsAreNumbers
<1> QED BY <1>1, <1>2, <1>3 DEF Place

LEMMA Begins ==
  ASSUME NEW stream, IsStream(stream), NEW l, NEW e, NEW k, PieceOf(stream, l, <<e, k>>),
         KindAt(stream, <<e, k>>) = "start"
  PROVE  Started(stream, l, <<<<e, k>>>>, <<e, k + 1>>)
<1> DEFINE at == <<e, k>>
           next == <<e, k + 1>>
           pieces == <<at>>
<1>1. Len(pieces) = 1 /\ pieces[1] = at
  OBVIOUS
<1>2. PieceOf(stream, l, at) /\ KindAt(stream, at) = "start"
  OBVIOUS
<1>3. Adjacent(stream, l, at, next)
  BY PieceKnown, NextPlace
<1> HIDE DEF at, next, pieces
<1>4. Started(stream, l, pieces, next)
  BY <1>1, <1>2, <1>3 DEF Started
<1> QED BY <1>4 DEF at, next, pieces

(* What a frame and one more piece of its lane make. *)
LEMMA Grown ==
  ASSUME NEW stream, IsStream(stream), NEW l, NEW e, NEW k, PieceOf(stream, l, <<e, k>>),
         NEW pieces \in Seq(Place), Started(stream, l, pieces, <<e, k>>)
  PROVE  /\ Append(pieces, <<e, k>>) \in Seq(Place)
         /\ KindAt(stream, <<e, k>>) \in {"data", "continuation"} =>
              Started(stream, l, Append(pieces, <<e, k>>), <<e, k + 1>>)
         /\ KindAt(stream, <<e, k>>) = "end" =>
              SentWhole(stream, l, Append(pieces, <<e, k>>))
<1> DEFINE at == <<e, k>>
           next == <<e, k + 1>>
           all == Append(pieces, at)
           last == Len(pieces)
<1>1. at \in Place
  BY PieceKnown
<1>2. Started(stream, l, pieces, at) /\ PieceOf(stream, l, at)
  OBVIOUS
<1>3. Adjacent(stream, l, at, next)
  BY PieceKnown, NextPlace
<1> HIDE DEF at, next
<1>4. /\ all \in Seq(Place)
      /\ last \in Nat /\ last > 0 /\ Len(all) = last + 1
      /\ \A n \in 1..last : all[n] = pieces[n]
      /\ all[last + 1] = at
  BY <1>1, <1>2 DEF Started
<1> HIDE DEF all
<1>5. \A n \in 1..Len(all) : PieceOf(stream, l, all[n])
  <2> TAKE n \in 1..Len(all)
  <2>1. CASE n \in 1..last
    BY <2>1, <1>2, <1>4 DEF Started
  <2>2. CASE n = last + 1
    BY <2>2, <1>2, <1>4
  <2> QED BY <2>1, <2>2, <1>4
<1>6. \A n \in 2..Len(all) : Adjacent(stream, l, all[n - 1], all[n])
  <2> TAKE n \in 2..Len(all)
  <2>1. CASE n \in 2..last
    <3>1. n \in 1..last /\ n - 1 \in 1..last
      BY <2>1, <1>4
    <3> QED BY <2>1, <3>1, <1>2, <1>4 DEF Started
  <2>2. CASE n = last + 1
    <3>1. n - 1 = last /\ last \in 1..last
      BY <2>2, <1>4
    <3> QED BY <2>2, <3>1, <1>2, <1>4 DEF Started
  <2> QED BY <2>1, <2>2, <1>4
<1>7. KindAt(stream, all[1]) = "start"
  <2>1. 1 \in 1..last
    BY <1>4
  <2> QED BY <2>1, <1>2, <1>4 DEF Started
<1>8. \A n \in 2..last : KindAt(stream, all[n]) \in {"data", "continuation"}
  <2> TAKE n \in 2..last
  <2>1. n \in 1..last
    BY <1>4
  <2> QED BY <2>1, <1>2, <1>4 DEF Started
<1>9. ASSUME KindAt(stream, at) \in {"data", "continuation"}
      PROVE  Started(stream, l, all, next)
  <2>1. \A n \in 2..Len(all) : KindAt(stream, all[n]) \in {"data", "continuation"}
    <3> TAKE n \in 2..Len(all)
    <3>1. n \in 2..last \/ n = last + 1
      BY <1>4
    <3> QED BY <3>1, <1>4, <1>8, <1>9
  <2>2. Adjacent(stream, l, all[Len(all)], next)
    BY <1>3, <1>4
  <2> QED BY <1>4, <1>5, <1>6, <1>7, <2>1, <2>2 DEF Started
<1>10. ASSUME KindAt(stream, at) = "end"
       PROVE  SentWhole(stream, l, all)
  <2>1. KindAt(stream, all[Len(all)]) = "end" /\ Len(all) > 0 /\ Len(all) # 1
    BY <1>4, <1>10
  <2>2. \A n \in 2..(Len(all) - 1) : KindAt(stream, all[n]) \in {"data", "continuation"}
    BY <1>4, <1>8
  <2> QED BY <1>5, <1>6, <1>7, <2>1, <2>2 DEF SentWhole
<1> QED BY <1>4, <1>9, <1>10 DEF all, at, next

LEMMA Alone ==
  ASSUME NEW stream, NEW l, NEW e, NEW k, PieceOf(stream, l, <<e, k>>),
         KindAt(stream, <<e, k>>) = "complete"
  PROVE  SentWhole(stream, l, <<<<e, k>>>>)
<1> DEFINE at == <<e, k>>
           pieces == <<at>>
<1>1. Len(pieces) = 1 /\ pieces[1] = at
  OBVIOUS
<1>2. PieceOf(stream, l, at) /\ KindAt(stream, at) = "complete"
  OBVIOUS
<1> HIDE DEF at, pieces
<1>3. SentWhole(stream, l, pieces)
  BY <1>1, <1>2 DEF SentWhole
<1> QED BY <1>3 DEF at, pieces

-----------------------------------------------------------------------------
(* One byte or packet. *)

(* A piece is of one lane. *)
LEMMA OtherLanes ==
  ASSUME NEW stream, NEW l, NEW e, NEW k, PieceOf(stream, l, <<e, k>>)
  PROVE  \A m \in Lanes \ {l} : k \notin OffsetsOf(stream[e], m)
BY DEF PieceOf, OffsetsOf

(* It may be of none. *)
LEMMA NoLane ==
  ASSUME NEW stream, IsStream(stream), NEW e \in DOMAIN stream, NEW k \in Nat,
         NEW s, Clean(s, stream, <<e, k>>),
         \A m \in Lanes : k \notin OffsetsOf(stream[e], m)
  PROVE  Clean(s, stream, <<e, k + 1>>)
<1>1. ASSUME NEW m \in Lanes PROVE LaneClean(stream, m, s.lanes[m], <<e, k + 1>>)
  <2>1. SUFFICES ASSUME s.lanes[m].inside, ~s.lanes[m].lost
                 PROVE  Started(stream, m, s.lanes[m].pieces, <<e, k + 1>>)
    BY DEF LaneClean
  <2>2. Started(stream, m, s.lanes[m].pieces, <<e, k>>)
    BY <2>1 DEF Clean, LaneClean
  <2> QED BY <2>2, StartedOn DEF Clean, Sessions, LaneState
<1> QED BY <1>1 DEF Clean

LEMMA LaneKnown ==
  ASSUME NEW s \in Sessions, NEW l \in Lanes
  PROVE  /\ s.lanes[l] \in LaneState /\ s.lanes[l].pieces \in Seq(Place)
         /\ s.lanes[l].inside \in BOOLEAN /\ s.lanes[l].lost \in BOOLEAN
         /\ s.lanes[l].pending \in BOOLEAN
BY DEF Sessions, LaneState

LEMMA StatusesKnown == Statuses = {"complete", "incomplete", "malformed"}
BY DEF Statuses

(* A new frame interrupts an old one. *)
LEMMA Interrupted ==
  ASSUME NEW stream, NEW s \in Sessions, FramesClean(stream, s.frames), NEW l \in Lanes
  PROVE  /\ Interrupt(s, l) \in Sessions
         /\ Interrupt(s, l).receiving = s.receiving
         /\ FramesClean(stream, Interrupt(s, l).frames)
         /\ ~Interrupt(s, l).lanes[l].inside
         /\ \A m \in Lanes \ {l} : Interrupt(s, l).lanes[m] = s.lanes[m]
<1>1. CASE ~s.lanes[l].inside
  BY <1>1 DEF Interrupt
<1>2. CASE s.lanes[l].inside
  <2> DEFINE t == Close(s, l, "malformed", s.lanes[l].pieces, s.lanes[l].lost)
  <2>1. /\ "malformed" \in Statuses /\ "malformed" # "complete"
        /\ s.lanes[l].pieces \in Seq(Place) /\ s.lanes[l].lost \in BOOLEAN
    BY LaneKnown, StatusesKnown
  <2>2. \E frames : Became(s, t, l, Idle, frames)
    BY <2>1, Closed
  <2>3. FramesClean(stream, t.frames)
    BY <2>1, EmittedClean
  <2>4. Interrupt(s, l) = t
    BY <1>2 DEF Interrupt
  <2> HIDE DEF t
  <2> QED BY <2>2, <2>3, <2>4, IdleLane DEF Became
<1> QED BY <1>1, <1>2

LEMMA StartFrameClean ==
  ASSUME NEW stream, IsStream(stream), NEW e, NEW k, NEW s, Clean(s, stream, <<e, k>>),
         NEW l \in Lanes, PieceOf(stream, l, <<e, k>>), KindAt(stream, <<e, k>>) = "start"
  PROVE  /\ Clean(StartFrame(s, l, <<e, k>>), stream, <<e, k + 1>>)
         /\ StartFrame(s, l, <<e, k>>).receiving = s.receiving
<1> DEFINE t == Interrupt(s, l)
           lane == Opened(t.lanes[l], <<e, k>>)
           u == StartFrame(s, l, <<e, k>>)
<1>1. e \in DOMAIN stream /\ k \in Nat /\ <<e, k>> \in Place
  BY PieceKnown
<1>2. s \in Sessions /\ FramesClean(stream, s.frames)
  BY DEF Clean
<1>3. /\ t \in Sessions /\ t.receiving = s.receiving /\ FramesClean(stream, t.frames)
      /\ \A m \in Lanes \ {l} : t.lanes[m] = s.lanes[m]
  BY <1>2, Interrupted
<1>4. u = [t EXCEPT !.lanes[l] = lane]
  BY DEF StartFrame
<1> HIDE DEF t
<1>5. /\ lane \in LaneState /\ lane.pieces = <<<<e, k>>>>
  <2>1. t.lanes[l].pending \in BOOLEAN
    BY <1>3, LaneKnown
  <2>2. <<<<e, k>>>> \in Seq(Place)
    BY <1>1
  <2> QED BY <2>1, <2>2 DEF Opened, LaneState
<1>6. LaneClean(stream, l, lane, <<e, k + 1>>)
  BY <1>5, Begins DEF LaneClean
<1> HIDE DEF lane
<1> DEFINE v == [t EXCEPT !.lanes[l] = lane]
<1>0. Became(t, v, l, lane, t.frames)
  BY <1>3, <1>5, LaneSet
<1> HIDE DEF v
<1>7. /\ u \in Sessions /\ u.receiving = t.receiving /\ u.frames = t.frames
      /\ u.lanes[l] = lane /\ \A m \in Lanes \ {l} : u.lanes[m] = t.lanes[m]
  <2>1. u = v
    BY <1>4 DEF v
  <2> HIDE DEF u
  <2> QED BY <2>1, <1>0 DEF Became
<1> HIDE DEF u
<1>8. \A m \in Lanes \ {l} : k \notin OffsetsOf(stream[e], m)
  BY OtherLanes
<1>9. Clean(u, stream, <<e, k + 1>>)
  BY <1>1, <1>3, <1>6, <1>7, <1>8, OneLane
<1> QED BY <1>3, <1>7, <1>9 DEF u

LEMMA ExtendClean ==
  ASSUME NEW stream, IsStream(stream), NEW e, NEW k, NEW s, Clean(s, stream, <<e, k>>),
         NEW l \in Lanes, PieceOf(stream, l, <<e, k>>), s.lanes[l].inside,
         KindAt(stream, <<e, k>>) \in {"data", "continuation"}
  PROVE  /\ Clean(Extend(s, l, <<e, k>>), stream, <<e, k + 1>>)
         /\ Extend(s, l, <<e, k>>).receiving = s.receiving
<1> DEFINE lane == [s.lanes[l] EXCEPT !.pieces = Append(@, <<e, k>>)]
           u == Extend(s, l, <<e, k>>)
<1>1. e \in DOMAIN stream /\ k \in Nat /\ <<e, k>> \in Place
  BY PieceKnown
<1>2. s \in Sessions /\ FramesClean(stream, s.frames) /\ LaneClean(stream, l, s.lanes[l], <<e, k>>)
  BY DEF Clean
<1>3. s.lanes[l] \in LaneState /\ s.lanes[l].pieces \in Seq(Place)
  BY <1>2, LaneKnown
<1>4. Append(s.lanes[l].pieces, <<e, k>>) \in Seq(Place)
  BY <1>1, <1>3
<1>5. /\ lane \in LaneState /\ lane.lost = s.lanes[l].lost
      /\ lane.pieces = Append(s.lanes[l].pieces, <<e, k>>)
  BY <1>3, <1>4 DEF LaneState
<1>6. u = [s EXCEPT !.lanes[l] = lane]
  BY <1>2 DEF Extend, Sessions
<1> HIDE DEF lane
<1>7. LaneClean(stream, l, lane, <<e, k + 1>>)
  <2>1. SUFFICES ASSUME ~lane.lost PROVE Started(stream, l, lane.pieces, <<e, k + 1>>)
    BY DEF LaneClean
  <2>2. Started(stream, l, s.lanes[l].pieces, <<e, k>>)
    BY <1>2, <1>5, <2>1 DEF LaneClean
  <2> QED BY <1>3, <1>5, <2>2, Grown
<1> DEFINE v == [s EXCEPT !.lanes[l] = lane]
<1>0. Became(s, v, l, lane, s.frames)
  BY <1>2, <1>5, LaneSet
<1> HIDE DEF v
<1>8. /\ u \in Sessions /\ u.receiving = s.receiving /\ u.frames = s.frames
      /\ u.lanes[l] = lane /\ \A m \in Lanes \ {l} : u.lanes[m] = s.lanes[m]
  <2>1. u = v
    BY <1>6 DEF v
  <2> HIDE DEF u
  <2> QED BY <2>1, <1>0 DEF Became
<1> HIDE DEF u
<1>9. \A m \in Lanes \ {l} : k \notin OffsetsOf(stream[e], m)
  BY OtherLanes
<1>10. Clean(u, stream, <<e, k + 1>>)
  BY <1>1, <1>2, <1>7, <1>8, <1>9, OneLane
<1> QED BY <1>8, <1>10 DEF u

(* The frame ends: whole if it says so. *)
LEMMA CloseClean ==
  ASSUME NEW stream, IsStream(stream), NEW e, NEW k, NEW s, Clean(s, stream, <<e, k>>),
         NEW l \in Lanes, PieceOf(stream, l, <<e, k>>),
         NEW status \in Statuses, NEW pieces \in Seq(Place), NEW affected \in BOOLEAN,
         status = "complete" => ~affected /\ SentWhole(stream, l, pieces)
  PROVE  /\ Clean(Close(s, l, status, pieces, affected), stream, <<e, k + 1>>)
         /\ Close(s, l, status, pieces, affected).receiving = s.receiving
<1> DEFINE u == Close(s, l, status, pieces, affected)
<1>1. e \in DOMAIN stream /\ k \in Nat
  BY PieceKnown
<1>2. s \in Sessions /\ FramesClean(stream, s.frames)
  BY DEF Clean
<1>0. \E frames : Became(s, u, l, Idle, frames)
  BY <1>2, Closed
<1>4. FramesClean(stream, u.frames)
  BY <1>2, EmittedClean
<1> HIDE DEF u
<1>3. /\ u \in Sessions /\ u.receiving = s.receiving /\ u.lanes[l] = Idle
      /\ \A m \in Lanes \ {l} : u.lanes[m] = s.lanes[m]
  BY <1>0 DEF Became
<1>5. \A m \in Lanes \ {l} : k \notin OffsetsOf(stream[e], m)
  BY OtherLanes
<1>6. LaneClean(stream, l, u.lanes[l], <<e, k + 1>>)
  BY <1>3, IdleLane DEF LaneClean
<1>7. Clean(u, stream, <<e, k + 1>>)
  BY <1>1, <1>3, <1>4, <1>5, <1>6, OneLane
<1> QED BY <1>3, <1>7 DEF u

(* No frame is being read in the lane any more. *)
Outside(stream, s, t, l) ==
  /\ t \in Sessions /\ t.receiving = s.receiving
  /\ FramesClean(stream, t.frames)
  /\ ~t.lanes[l].inside
  /\ \A m \in Lanes \ {l} : t.lanes[m] = s.lanes[m]

(* A frame is emitted, and the loss it may answer for is forgotten. *)
EmitsOne(t, u, l, status, pieces, affected) ==
  \/ u = Emit(t, l, status, pieces, affected)
  \/ u = [Emit(t, l, status, pieces, affected) EXCEPT !.lanes[l].pending = FALSE]

(* A piece that is a frame by itself, outside any other. *)
LEMMA SingleClean ==
  ASSUME NEW stream, IsStream(stream), NEW e, NEW k, NEW s, Clean(s, stream, <<e, k>>),
         NEW l \in Lanes, PieceOf(stream, l, <<e, k>>),
         NEW t, Outside(stream, s, t, l),
         NEW status \in Statuses, NEW affected \in BOOLEAN,
         status = "complete" => ~affected /\ SentWhole(stream, l, <<<<e, k>>>>),
         NEW u, EmitsOne(t, u, l, status, <<<<e, k>>>>, affected)
  PROVE  Clean(u, stream, <<e, k + 1>>) /\ u.receiving = s.receiving
<1> DEFINE pieces == <<<<e, k>>>>
           v == Emit(t, l, status, pieces, affected)
           lane == [t.lanes[l] EXCEPT !.pending = FALSE]
           w == [v EXCEPT !.lanes[l] = lane]
<1>1. e \in DOMAIN stream /\ k \in Nat /\ pieces \in Seq(Place)
  BY PieceKnown
<1>2. u = v \/ u = [v EXCEPT !.lanes[l].pending = FALSE]
  BY DEF EmitsOne
<1>3. status = "complete" => ~affected /\ SentWhole(stream, l, pieces)
  OBVIOUS
<1> HIDE DEF pieces
<1>0. t \in Sessions /\ FramesClean(stream, t.frames)
  BY DEF Outside
<1>4. v \in Sessions /\ v.receiving = t.receiving /\ v.lanes = t.lanes
  <2>1. /\ Emit(t, l, status, pieces, affected) \in Sessions
        /\ Emit(t, l, status, pieces, affected).receiving = t.receiving
        /\ Emit(t, l, status, pieces, affected).lanes = t.lanes
    BY <1>0, <1>1, Emitted
  <2> QED BY <2>1
<1>5. FramesClean(stream, v.frames)
  BY <1>0, <1>1, <1>3, EmittedClean
<1> HIDE DEF v
<1>6. lane \in LaneState /\ ~lane.inside
  BY <1>0, LaneKnown DEF LaneState, Outside
<1>7. u = v \/ u = w
  BY <1>2, <1>4 DEF Sessions
<1> HIDE DEF lane
<1>8. Became(v, w, l, lane, v.frames)
  BY <1>4, <1>6, LaneSet
<1> HIDE DEF w
<1>9. /\ u \in Sessions /\ u.receiving = s.receiving /\ u.frames = v.frames
      /\ ~u.lanes[l].inside /\ \A m \in Lanes \ {l} : u.lanes[m] = s.lanes[m]
  BY <1>4, <1>6, <1>7, <1>8 DEF Became, Outside
<1>10. \A m \in Lanes \ {l} : k \notin OffsetsOf(stream[e], m)
  BY OtherLanes
<1>11. LaneClean(stream, l, u.lanes[l], <<e, k + 1>>)
  BY <1>9 DEF LaneClean
<1>12. FramesClean(stream, u.frames)
  BY <1>5, <1>9
<1> QED BY <1>1, <1>9, <1>10, <1>11, <1>12, OneLane

(* The end of the frame that is being read. *)
LEMMA EndClean ==
  ASSUME NEW stream, IsStream(stream), NEW e, NEW k, NEW s, Clean(s, stream, <<e, k>>),
         NEW l \in Lanes, PieceOf(stream, l, <<e, k>>), s.lanes[l].inside,
         NEW status \in Statuses,
         status = "complete" => ~s.lanes[l].lost /\ KindAt(stream, <<e, k>>) = "end",
         NEW u, u = Close(s, l, status, Append(s.lanes[l].pieces, <<e, k>>), s.lanes[l].lost)
  PROVE  Clean(u, stream, <<e, k + 1>>) /\ u.receiving = s.receiving
<1> DEFINE all == Append(s.lanes[l].pieces, <<e, k>>)
<1>1. s \in Sessions /\ LaneClean(stream, l, s.lanes[l], <<e, k>>)
  BY DEF Clean
<1>2. s.lanes[l].pieces \in Seq(Place) /\ s.lanes[l].lost \in BOOLEAN
  BY <1>1, LaneKnown
<1>3. <<e, k>> \in Place
  BY PieceKnown
<1>4. all \in Seq(Place)
  BY <1>2, <1>3
<1>5. status = "complete" => ~s.lanes[l].lost /\ SentWhole(stream, l, all)
  <2>1. SUFFICES ASSUME status = "complete" PROVE SentWhole(stream, l, all)
    OBVIOUS
  <2>2. Started(stream, l, s.lanes[l].pieces, <<e, k>>)
    BY <1>1, <2>1 DEF LaneClean
  <2> QED BY <1>2, <2>1, <2>2, Grown
<1>6. u = Close(s, l, status, all, s.lanes[l].lost)
  OBVIOUS
<1> HIDE DEF all
<1> QED BY <1>2, <1>4, <1>5, <1>6, CloseClean

(* The bytes and packets of an event. *)
LEMMA DataKnown ==
  ASSUME NEW stream, IsStream(stream), NEW e \in DOMAIN stream, stream[e].type # "loss"
  PROVE  /\ stream[e].seq = e /\ e \in Nat
         /\ Len(stream[e].data) \in Nat /\ DOMAIN stream[e].data = 1..Len(stream[e].data)
         /\ stream[e].type \in {"midi1", "ump"}
         /\ \A k \in 1..Len(stream[e].data) :
              /\ stream[e].type = "midi1" =>
                   /\ stream[e].data[k].lane = Midi1
                   /\ stream[e].data[k].kind \in ByteKinds
              /\ stream[e].type = "ump" =>
                   /\ stream[e].data[k].lane \in Groups
                   /\ stream[e].data[k].kind \in PacketKinds
<1>1. stream[e] \in Events /\ stream[e].seq = e /\ e \in Nat
  BY DEF IsStream
<1>2. CASE stream[e].type = "midi1"
  <2>1. stream[e].data \in Seq([lane : {Midi1}, kind : ByteKinds])
    BY <1>1, <1>2 DEF Events
  <2> DEFINE Bytes1 == [lane : {Midi1}, kind : ByteKinds]
             data == stream[e].data
  <2>3. data \in Seq(Bytes1)
    BY <2>1
  <2> HIDE DEF Bytes1, data
  <2>4. \A k \in 1..Len(data) : data[k] \in Bytes1
    BY <2>3
  <2>2. \A k \in 1..Len(stream[e].data) : stream[e].data[k] \in [lane : {Midi1}, kind : ByteKinds]
    BY <2>4 DEF Bytes1, data
  <2> QED BY <1>1, <1>2, <2>1, <2>2
<1>3. CASE stream[e].type # "midi1"
  <2>0. stream[e].type = "ump"
    BY <1>1, <1>3 DEF Events
  <2>1. stream[e].data \in Seq([lane : Groups, kind : PacketKinds])
    BY <1>1, <2>0 DEF Events
  <2> DEFINE Packets == [lane : Groups, kind : PacketKinds]
             data == stream[e].data
  <2>3. data \in Seq(Packets)
    BY <2>1
  <2> HIDE DEF Packets, data
  <2>4. \A k \in 1..Len(data) : data[k] \in Packets
    BY <2>3
  <2>2. \A k \in 1..Len(stream[e].data) : stream[e].data[k] \in [lane : Groups, kind : PacketKinds]
    BY <2>4 DEF Packets, data
  <2> QED BY <1>1, <2>0, <2>1, <2>2
<1> QED BY <1>2, <1>3

LEMMA ByteClean ==
  ASSUME NEW stream, IsStream(stream), NEW e \in DOMAIN stream, stream[e].type = "midi1",
         NEW k \in 1..Len(stream[e].data), NEW s, Clean(s, stream, <<e, k>>),
         NEW u, u = ConsumeByte(s, stream[e].data[k].kind, <<e, k>>)
  PROVE  Clean(u, stream, <<e, k + 1>>) /\ u.receiving = s.receiving
<1> DEFINE kind == stream[e].data[k].kind
           at == <<e, k>>
           lane == s.lanes[Midi1]
<1>1. stream[e].data[k].lane = Midi1 /\ kind \in ByteKinds /\ k \in Nat
      /\ k \in DOMAIN stream[e].data /\ Midi1 \in Lanes
  BY DataKnown, LanesKnown
<1>2. KindAt(stream, at) = kind
  BY DEF KindAt
<1>3. kind # "realtime" => PieceOf(stream, Midi1, at)
  BY <1>1 DEF PieceOf, OffsetsOf, ByteKinds
<1>4. s \in Sessions /\ FramesClean(stream, s.frames)
  BY DEF Clean
<1>5. lane.lost \in BOOLEAN /\ lane.inside \in BOOLEAN
  BY <1>1, <1>4, LaneKnown
<1>6. {"complete", "malformed"} \subseteq Statuses
  BY StatusesKnown
<1>7. u = ConsumeByte(s, kind, at) /\ Clean(s, stream, at)
  OBVIOUS
<1> HIDE DEF kind, at
<1>8. CASE kind = "realtime"
  <2>1. \A m \in Lanes : k \notin OffsetsOf(stream[e], m)
    BY <1>8 DEF OffsetsOf, kind
  <2>2. u = s
    BY <1>7, <1>8 DEF ConsumeByte
  <2> QED BY <1>1, <2>1, <2>2, NoLane
<1>9. CASE kind = "start"
  <2>1. u = StartFrame(s, Midi1, <<e, k>>) /\ PieceOf(stream, Midi1, <<e, k>>)
        /\ KindAt(stream, <<e, k>>) = "start"
    BY <1>2, <1>3, <1>7, <1>9 DEF ConsumeByte, at
  <2> QED BY <1>1, <2>1, StartFrameClean
<1>10. CASE kind \in {"data", "end", "status"} /\ ~lane.inside
  <2>0. PICK status, affected : status = "malformed" /\ affected = FALSE
    OBVIOUS
  <2>1. EmitsOne(s, u, Midi1, status, <<<<e, k>>>>, affected)
    BY <1>7, <1>10, <2>0 DEF ConsumeByte, EmitsOne, at
  <2>2. PieceOf(stream, Midi1, <<e, k>>)
    BY <1>3, <1>10 DEF at
  <2>3. status # "complete" /\ affected \in BOOLEAN /\ status \in Statuses
    BY <1>6, <2>0
  <2>4. Outside(stream, s, s, Midi1)
    BY <1>4, <1>10 DEF Outside
  <2>5. Clean(s, stream, <<e, k>>)
    OBVIOUS
  <2> QED BY <1>1, <2>1, <2>2, <2>3, <2>4, <2>5, SingleClean
<1>11. CASE kind = "data" /\ lane.inside
  <2>1. u = Extend(s, Midi1, <<e, k>>) /\ PieceOf(stream, Midi1, <<e, k>>)
        /\ KindAt(stream, <<e, k>>) \in {"data", "continuation"}
    BY <1>2, <1>3, <1>7, <1>11 DEF ConsumeByte, at
  <2> QED BY <1>1, <1>11, <2>1, ExtendClean
<1>12. CASE kind = "end" /\ lane.inside
  <2> DEFINE status == Judged("complete", lane.lost)
  <2>1. /\ u = Close(s, Midi1, status, Append(s.lanes[Midi1].pieces, <<e, k>>), s.lanes[Midi1].lost)
        /\ PieceOf(stream, Midi1, <<e, k>>) /\ KindAt(stream, <<e, k>>) = "end"
    BY <1>2, <1>3, <1>7, <1>12 DEF ConsumeByte, at
  <2>2. status \in Statuses /\ (status = "complete" => ~s.lanes[Midi1].lost)
    BY <1>5, <1>6 DEF Judged
  <2> HIDE DEF status
  <2> QED BY <1>1, <1>12, <2>1, <2>2, EndClean
<1>13. CASE kind = "status" /\ lane.inside
  <2>1. /\ u = Close(s, Midi1, "malformed", Append(s.lanes[Midi1].pieces, <<e, k>>), s.lanes[Midi1].lost)
        /\ PieceOf(stream, Midi1, <<e, k>>)
    BY <1>3, <1>7, <1>13 DEF ConsumeByte, at
  <2>2. "malformed" # "complete" /\ "malformed" \in Statuses
    BY <1>6
  <2> QED BY <1>1, <1>13, <2>1, <2>2, EndClean
<1> QED BY <1>1, <1>8, <1>9, <1>10, <1>11, <1>12, <1>13 DEF ByteKinds

LEMMA PacketClean ==
  ASSUME NEW stream, IsStream(stream), NEW e \in DOMAIN stream, stream[e].type = "ump",
         NEW k \in 1..Len(stream[e].data), NEW s, Clean(s, stream, <<e, k>>),
         NEW u, u = ConsumePacket(s, stream[e].data[k].lane, stream[e].data[k].kind, <<e, k>>)
  PROVE  Clean(u, stream, <<e, k + 1>>) /\ u.receiving = s.receiving
<1> DEFINE kind == stream[e].data[k].kind
           g == stream[e].data[k].lane
           at == <<e, k>>
           lane == s.lanes[g]
<1>1. g \in Groups /\ g \in Lanes /\ kind \in PacketKinds /\ k \in Nat
      /\ k \in DOMAIN stream[e].data
  BY DataKnown, LanesKnown
<1>2. KindAt(stream, at) = kind
  BY DEF KindAt
<1>3. kind # "other" => PieceOf(stream, g, at)
  BY <1>1 DEF PieceOf, OffsetsOf, PacketKinds
<1>4. s \in Sessions /\ FramesClean(stream, s.frames)
  BY DEF Clean
<1>5. lane.lost \in BOOLEAN /\ lane.inside \in BOOLEAN /\ lane.pending \in BOOLEAN
      /\ lane.pieces \in Seq(Place)
  BY <1>1, <1>4, LaneKnown
<1>6. {"complete", "malformed"} \subseteq Statuses
  BY StatusesKnown
<1>7. u = ConsumePacket(s, g, kind, at) /\ Clean(s, stream, at)
  OBVIOUS
<1> HIDE DEF kind, at
<1>8. CASE kind = "other"
  <2>1. \A m \in Lanes : k \notin OffsetsOf(stream[e], m)
    BY <1>8 DEF OffsetsOf, kind
  <2>2. u = s
    BY <1>7, <1>8 DEF ConsumePacket
  <2> QED BY <1>1, <2>1, <2>2, NoLane
<1> HIDE DEF g
<1>9. CASE kind = "start"
  <2>1. u = StartFrame(s, g, <<e, k>>) /\ PieceOf(stream, g, <<e, k>>)
        /\ KindAt(stream, <<e, k>>) = "start"
    BY <1>2, <1>3, <1>7, <1>9 DEF ConsumePacket, at
  <2> QED BY <1>1, <2>1, StartFrameClean
<1>10. CASE kind = "invalid"
  <2>0. PICK status, affected : status = "malformed" /\ affected = (lane.lost \/ lane.pending)
    OBVIOUS
  <2>1. u = Close(s, g, status, lane.pieces, affected) /\ PieceOf(stream, g, <<e, k>>)
    BY <1>3, <1>7, <1>10, <2>0 DEF ConsumePacket, at
  <2>2. status # "complete" /\ affected \in BOOLEAN /\ status \in Statuses
    BY <1>6, <2>0
  <2> QED BY <1>1, <1>5, <2>1, <2>2, CloseClean
<1>11. CASE kind = "complete"
  <2> DEFINE t == Interrupt(s, g)
             affected == t.lanes[g].pending
  <2>0. PICK status : status = Judged("complete", affected)
    OBVIOUS
  <2>1. Outside(stream, s, t, g)
    BY <1>1, <1>4, Interrupted DEF Outside
  <2>2. EmitsOne(t, u, g, status, <<<<e, k>>>>, affected)
    BY <1>7, <1>11, <2>0 DEF ConsumePacket, ConsumePacketAlone, EmitsOne, at
  <2> HIDE DEF t
  <2>3. affected \in BOOLEAN
    BY <1>1, <2>1, LaneKnown DEF Outside
  <2>4. PieceOf(stream, g, <<e, k>>) /\ KindAt(stream, <<e, k>>) = "complete"
    BY <1>2, <1>3, <1>11 DEF at
  <2>5. SentWhole(stream, g, <<<<e, k>>>>)
    BY <2>4, Alone
  <2>6. status \in Statuses /\ (status = "complete" => ~affected)
    BY <1>6, <2>0, <2>3 DEF Judged
  <2>7. Clean(s, stream, <<e, k>>)
    OBVIOUS
  <2> HIDE DEF affected
  <2> QED BY <1>1, <2>1, <2>2, <2>3, <2>4, <2>5, <2>6, <2>7, SingleClean
<1>12. CASE kind \in {"continuation", "end"} /\ ~lane.inside
  <2> DEFINE affected == lane.pending
  <2>0. PICK status : status = "malformed"
    OBVIOUS
  <2>1. EmitsOne(s, u, g, status, <<<<e, k>>>>, affected)
    BY <1>7, <1>12, <2>0 DEF ConsumePacket, ConsumePacketStray, EmitsOne, at
  <2>2. PieceOf(stream, g, <<e, k>>)
    BY <1>3, <1>12 DEF at
  <2>3. status # "complete" /\ affected \in BOOLEAN /\ status \in Statuses
    BY <1>5, <1>6, <2>0
  <2>4. Outside(stream, s, s, g)
    BY <1>4, <1>12 DEF Outside
  <2>5. Clean(s, stream, <<e, k>>)
    OBVIOUS
  <2> HIDE DEF affected
  <2> QED BY <1>1, <2>1, <2>2, <2>3, <2>4, <2>5, SingleClean
<1>13. CASE kind = "continuation" /\ lane.inside
  <2>1. u = Extend(s, g, <<e, k>>) /\ PieceOf(stream, g, <<e, k>>)
        /\ KindAt(stream, <<e, k>>) \in {"data", "continuation"}
    BY <1>2, <1>3, <1>7, <1>13 DEF ConsumePacket, at
  <2> QED BY <1>1, <1>13, <2>1, ExtendClean
<1>14. CASE kind = "end" /\ lane.inside
  <2> DEFINE status == Judged("complete", lane.lost)
  <2>1. /\ u = Close(s, g, status, Append(s.lanes[g].pieces, <<e, k>>), s.lanes[g].lost)
        /\ PieceOf(stream, g, <<e, k>>) /\ KindAt(stream, <<e, k>>) = "end"
    BY <1>2, <1>3, <1>7, <1>14 DEF ConsumePacket, at
  <2>2. status \in Statuses /\ (status = "complete" => ~s.lanes[g].lost)
    BY <1>5, <1>6 DEF Judged
  <2> HIDE DEF status
  <2> QED BY <1>1, <1>14, <2>1, <2>2, EndClean
<1> QED BY <1>1, <1>8, <1>9, <1>10, <1>11, <1>12, <1>13, <1>14 DEF PacketKinds

LEMMA PieceClean ==
  ASSUME NEW stream, IsStream(stream), NEW e \in DOMAIN stream, stream[e].type # "loss",
         NEW k \in 1..Len(stream[e].data), NEW s, Clean(s, stream, <<e, k>>),
         NEW u, u = ConsumePiece(s, stream[e], k)
  PROVE  Clean(u, stream, <<e, k + 1>>) /\ u.receiving = s.receiving
<1>1. stream[e].seq = e /\ stream[e].type \in {"midi1", "ump"}
  BY DataKnown
<1>2. CASE stream[e].type = "midi1"
  <2>1. u = ConsumeByte(s, stream[e].data[k].kind, <<e, k>>)
    BY <1>1, <1>2 DEF ConsumePiece
  <2> QED BY <1>2, <2>1, ByteClean
<1>3. CASE stream[e].type = "ump"
  <2>1. u = ConsumePacket(s, stream[e].data[k].lane, stream[e].data[k].kind, <<e, k>>)
    BY <1>1, <1>3 DEF ConsumePiece
  <2> QED BY <1>3, <2>1, PacketClean
<1> QED BY <1>1, <1>2, <1>3

-----------------------------------------------------------------------------
(* What is done to a session piece by piece, or lane by lane. *)

LEMMA Smallest ==
  ASSUME NEW T \in SUBSET Nat, T # {}
  PROVE  \E x \in T : \A y \in T : x <= y
<1> DEFINE Less == {pair \in Nat \X Nat : pair[1] < pair[2]}
<1>1. IsWellFoundedOn(Less, Nat)
  BY NatLessThanWellFounded DEF OpToRel
<1>2. PICK x \in T : \A y \in T : <<y, x>> \notin Less
  <2> HIDE DEF Less
  <2> QED BY <1>1, WFMin
<1>3. ASSUME NEW y \in T PROVE x <= y
  <2>1. x \in Nat /\ y \in Nat /\ <<y, x>> \notin Less
    BY <1>2
  <2>2. y < x => <<y, x>> \in Less
    <3> SUFFICES ASSUME y < x PROVE <<y, x>> \in Less
      OBVIOUS
    <3> DEFINE pair == <<y, x>>
    <3>1. pair \in Nat \X Nat /\ pair[1] = y /\ pair[2] = x
      BY <2>1
    <3> QED BY <3>1
  <2> HIDE DEF Less
  <2> QED BY <2>1, <2>2
<1> QED BY <1>3

(* What is true at a and passes from each place to the next is true up to b. *)
LEMMA Upward ==
  ASSUME NEW f, NEW a \in Nat, NEW b \in Nat, f[a] = TRUE,
         \A i \in a..b : i < b /\ f[i] = TRUE => f[i + 1] = TRUE
  PROVE  \A i \in a..b : f[i] = TRUE
<1> DEFINE T == {i \in a..b : f[i] # TRUE}
<1> SUFFICES ASSUME T # {} PROVE FALSE
  OBVIOUS
<1>1. T \in SUBSET Nat
  <2>1. \A i \in a..b : i \in Nat
    OBVIOUS
  <2> QED BY <2>1
<1>2. PICK x \in T : \A y \in T : x <= y
  <2> HIDE DEF T
  <2> QED BY <1>1, Smallest
<1>3. x \in a..b /\ f[x] # TRUE /\ x # a
  OBVIOUS
<1>4. x - 1 \in a..b /\ x - 1 < b /\ (x - 1) + 1 = x /\ ~(x <= x - 1)
  BY <1>3
<1>5. f[x - 1] = TRUE
  BY <1>2, <1>4
<1> QED BY <1>3, <1>4, <1>5

(* The i-th thing that is done, by an event or by the end of a capture. *)
Done(what, event, s, i) ==
  IF what = "consume" THEN ConsumePiece(s, event, i) ELSE FinishLane(s, LaneOrder[i])

Doing(what, event, s, n, f) ==
  f = [i \in 0..n |-> IF i = 0 THEN s ELSE Done(what, event, f[i - 1], i)]

(* Each place is defined by the one before, so there is such a function. *)
LEMMA DoingExists ==
  ASSUME NEW what, NEW event, NEW s, NEW N \in Nat
  PROVE  \E f : Doing(what, event, s, N, f)
<1> DEFINE T == {n \in Nat : ~\E f : Doing(what, event, s, n, f)}
<1> SUFFICES ASSUME T # {} PROVE FALSE
  OBVIOUS
<1>1. PICK n \in T : \A m \in T : n <= m
  <2>1. T \in SUBSET Nat
    OBVIOUS
  <2> HIDE DEF T
  <2> QED BY <2>1, Smallest
<1>2. n \in Nat /\ ~\E f : Doing(what, event, s, n, f)
  OBVIOUS
<1>3. CASE n = 0
  <2> DEFINE f == [i \in 0..n |-> s]
  <2>1. f = [i \in 0..n |-> IF i = 0 THEN s ELSE Done(what, event, f[i - 1], i)]
    <3>1. \A i \in 0..n : i = 0
      BY <1>3
    <3> QED BY <3>1
  <2>2. Doing(what, event, s, n, f)
    BY <2>1 DEF Doing
  <2> HIDE DEF f
  <2> QED BY <1>2, <2>2
<1>4. CASE n # 0
  <2>1. n - 1 \in Nat /\ ~(n <= n - 1)
    BY <1>2, <1>4
  <2>2. PICK g : Doing(what, event, s, n - 1, g)
    BY <1>1, <2>1
  <2>3. \A i \in 0..(n - 1) : g[i] = IF i = 0 THEN s ELSE Done(what, event, g[i - 1], i)
    BY <2>2 DEF Doing
  <2> DEFINE last == Done(what, event, g[n - 1], n)
             f == [i \in 0..n |-> IF i = n THEN last ELSE g[i]]
  <2>4. ASSUME NEW i \in 0..n
        PROVE  (IF i = n THEN last ELSE g[i]) =
                 IF i = 0 THEN s ELSE Done(what, event, f[i - 1], i)
    <3> HIDE DEF last
    <3>1. CASE i = n
      <4>1. i # 0 /\ i - 1 \in 0..n /\ i - 1 # n /\ i - 1 = n - 1
        BY <1>2, <1>4, <3>1
      <4>2. f[i - 1] = g[n - 1]
        BY <4>1
      <4> QED BY <3>1, <4>1, <4>2 DEF last
    <3>2. CASE i # n
      <4>1. i \in 0..(n - 1)
        BY <1>2, <3>2
      <4>2. i # 0 => f[i - 1] = g[i - 1]
        <5>1. i # 0 => i - 1 \in 0..n /\ i - 1 # n
          BY <1>2, <3>2
        <5> QED BY <5>1
      <4> HIDE DEF f
      <4> QED BY <2>3, <3>2, <4>1, <4>2
    <3> QED BY <3>1, <3>2
  <2>5. f = [i \in 0..n |-> IF i = 0 THEN s ELSE Done(what, event, f[i - 1], i)]
    <3> HIDE DEF last
    <3>1. f = [i \in 0..n |-> IF i = n THEN last ELSE g[i]]
      OBVIOUS
    <3> HIDE DEF f
    <3> QED BY <2>4, <3>1
  <2>6. Doing(what, event, s, n, f)
    BY <2>5 DEF Doing
  <2> HIDE DEF f
  <2> QED BY <1>2, <2>6
<1> QED BY <1>3, <1>4

(* An event is consumed from its first piece to its last. *)
LEMMA DataClean ==
  ASSUME NEW stream, IsStream(stream), NEW e \in DOMAIN stream, stream[e].type # "loss",
         NEW s, Clean(s, stream, <<e, 0>>),
         NEW u, u = ConsumeData(s, stream[e])
  PROVE  Clean(u, stream, <<e + 1, 0>>) /\ u.receiving = s.receiving
<1> DEFINE N == Len(stream[e].data)
           after[i \in 0..Len(stream[e].data)] ==
             IF i = 0 THEN s ELSE ConsumePiece(after[i - 1], stream[e], i)
<1>1. /\ N \in Nat /\ DOMAIN stream[e].data = 1..N
      /\ e \in Nat
  BY DataKnown
<1>2. u = after[Len(stream[e].data)]
  BY DEF ConsumeData
<1>3. after = [i \in 0..Len(stream[e].data) |->
                 IF i = 0 THEN s ELSE ConsumePiece(after[i - 1], stream[e], i)]
  <2>0. PICK what : what = "consume"
    OBVIOUS
  <2>2. PICK f : Doing(what, stream[e], s, Len(stream[e].data), f)
    BY <1>1, DoingExists
  <2>3. f = [i \in 0..Len(stream[e].data) |->
               IF i = 0 THEN s ELSE ConsumePiece(f[i - 1], stream[e], i)]
    BY <2>0, <2>2 DEF Doing, Done
  <2>1. \E g : g = [i \in 0..Len(stream[e].data) |->
                      IF i = 0 THEN s ELSE ConsumePiece(g[i - 1], stream[e], i)]
    BY <2>3
  <2> QED BY <2>1, Zenon
<1> HIDE DEF after
<1>4. after[0] = s /\ \A i \in 1..N : after[i] = ConsumePiece(after[i - 1], stream[e], i)
  <2>1. 0 \in 0..N /\ \A i \in 1..N : i \in 0..N /\ i # 0
    BY <1>1
  <2>2. after[0] = s
    BY <1>3, <2>1
  <2>3. \A i \in 1..N : after[i] = ConsumePiece(after[i - 1], stream[e], i)
    BY <1>3, <2>1
  <2> QED BY <2>2, <2>3
<1> DEFINE Fine(i) == Clean(after[i], stream, <<e, i + 1>>) /\ after[i].receiving = s.receiving
           fine == [i \in 0..N |-> IF Fine(i) THEN TRUE ELSE FALSE]
<1>5. Fine(0)
  <2>1. \A m \in Lanes : 0 \notin OffsetsOf(stream[e], m)
    BY <1>1 DEF OffsetsOf
  <2>2. Clean(s, stream, <<e, 0 + 1>>)
    BY <2>1, NoLane
  <2> QED BY <1>4, <2>2
<1>6. ASSUME NEW i \in 0..N, i < N, Fine(i) PROVE Fine(i + 1)
  <2>1. i + 1 \in 1..N /\ (i + 1) - 1 = i
    BY <1>1, <1>6
  <2>2. after[i + 1] = ConsumePiece(after[i], stream[e], i + 1)
    BY <1>4, <2>1
  <2>3. Clean(after[i], stream, <<e, i + 1>>)
    BY <1>6
  <2>4. Clean(after[i + 1], stream, <<e, (i + 1) + 1>>) /\ after[i + 1].receiving = after[i].receiving
    BY <2>1, <2>2, <2>3, PieceClean
  <2> QED BY <1>6, <2>4
<1>7. Fine(N)
  <2> HIDE DEF Fine
  <2>1. fine[0] = TRUE
    BY <1>1, <1>5
  <2>2. \A i \in 0..N : i < N /\ fine[i] = TRUE => fine[i + 1] = TRUE
    BY <1>1, <1>6
  <2>3. \A i \in 0..N : fine[i] = TRUE
    <3> HIDE DEF fine
    <3> QED BY <1>1, <2>1, <2>2, Upward
  <2>4. N \in 0..N
    BY <1>1
  <2>5. fine[N] = TRUE /\ fine[N] = IF Fine(N) THEN TRUE ELSE FALSE
    BY <2>3, <2>4
  <2> QED BY <2>5
<1>8. Clean(u, stream, <<e, N + 1>>) /\ u.receiving = s.receiving
  BY <1>2, <1>7
<1>9. \A l \in Lanes : \A j \in OffsetsOf(stream[e], l) : j < N + 1
  BY <1>1 DEF OffsetsOf
<1> HIDE DEF N
<1>10. N + 1 \in Nat
  BY <1>1 DEF N
<1>11. ASSUME NEW l \in Lanes PROVE LaneClean(stream, l, u.lanes[l], <<e + 1, 0>>)
  <2>1. SUFFICES ASSUME u.lanes[l].inside, ~u.lanes[l].lost
                 PROVE  Started(stream, l, u.lanes[l].pieces, <<e + 1, 0>>)
    BY DEF LaneClean
  <2> DEFINE pieces == u.lanes[l].pieces
  <2>2. Started(stream, l, pieces, <<e, N + 1>>)
    BY <1>8, <2>1 DEF Clean, LaneClean
  <2>3. pieces \in Seq(Place)
    BY <1>8, LaneKnown DEF Clean
  <2> HIDE DEF pieces
  <2>4. pieces[Len(pieces)] \in Place /\ Adjacent(stream, l, pieces[Len(pieces)], <<e, N + 1>>)
    BY <2>2, <2>3 DEF Started
  <2>5. Adjacent(stream, l, pieces[Len(pieces)], <<e + 1, 0>>)
    BY <1>1, <1>9, <1>10, <2>4, NextEvent
  <2>6. Started(stream, l, pieces, <<e + 1, 0>>)
    BY <2>2, <2>5 DEF Started
  <2> QED BY <2>6 DEF pieces
<1> QED BY <1>8, <1>11 DEF Clean

-----------------------------------------------------------------------------
(* Losses, whole events, and the end of a capture. *)

(* What the worker takes for an event: itself, or a marker with its address. *)
Covers(item, event) ==
  \/ item = event
  \/ /\ item.type = "loss" /\ item.affects
     /\ item.backend = AddressOf(event).backend /\ item.group = AddressOf(event).group

LEMMA EventKnown ==
  ASSUME NEW event \in Published
  PROVE  /\ event.backend \in Backends
         /\ \/ event.type = "loss" /\ event.group \in Lanes /\ event.affects \in BOOLEAN
            \/ /\ event.type = "midi1" /\ event.backend # "wms"
               /\ \A k \in DOMAIN event.data : event.data[k].lane = Midi1
            \/ /\ event.type = "ump" /\ event.backend # "winmm"
               /\ Head(event.data).lane \in Groups
               /\ \A k \in DOMAIN event.data : event.data[k].lane = Head(event.data).lane
<1>1. event \in Events /\ (event.type = "midi1" => event.backend # "wms")
      /\ (event.type = "ump" => event.backend # "winmm" /\ Len(event.data) = 1)
  BY DEF Published
<1>2. CASE event \in [type : {"midi1"}, seq : Nat, backend : Backends,
                      data : Seq([lane : {Midi1}, kind : ByteKinds])]
  <2> DEFINE R == [lane : {Midi1}, kind : ByteKinds]
             data == event.data
  <2>1. data \in Seq(R) /\ \A r \in R : r.lane = Midi1
    BY <1>2
  <2>2. event.type = "midi1" /\ event.backend \in Backends
    BY <1>2
  <2> HIDE DEF R, data
  <2>3. \A k \in DOMAIN data : data[k] \in R
    BY <2>1
  <2>4. \A k \in DOMAIN data : data[k].lane = Midi1
    BY <2>1, <2>3
  <2> QED BY <1>1, <2>2, <2>4 DEF data
<1>3. CASE event \in [type : {"ump"}, seq : Nat, backend : Backends,
                      data : Seq([lane : Groups, kind : PacketKinds])]
  <2> DEFINE R == [lane : Groups, kind : PacketKinds]
             data == event.data
  <2>1. data \in Seq(R) /\ \A r \in R : r.lane \in Groups
    BY <1>3
  <2>2. event.type = "ump" /\ event.backend \in Backends /\ Len(data) = 1
    BY <1>1, <1>3
  <2> HIDE DEF R, data
  <2>3. DOMAIN data = {1} /\ Head(data) = data[1] /\ data[1] \in R
    BY <2>1, <2>2
  <2>4. Head(data).lane \in Groups /\ \A k \in DOMAIN data : data[k].lane = Head(data).lane
    BY <2>1, <2>3
  <2> QED BY <1>1, <2>2, <2>4 DEF data
<1>4. CASE event \in [type : {"loss"}, seq : Nat, backend : Backends, group : Lanes,
                      affects : BOOLEAN]
  BY <1>4
<1> QED BY <1>1, <1>2, <1>3, <1>4 DEF Events

(* A marker taints every lane the event has anything for.                    *)
LEMMA MarkerTaints ==
  ASSUME NEW event \in Published, NEW item, item.affects, item.type = "loss",
         item.backend = AddressOf(event).backend, item.group = AddressOf(event).group,
         NEW l \in Lanes, l \notin Tainted(item)
  PROVE  OffsetsOf(event, l) = {}
<1>1. item.backend = event.backend /\ event.backend \in Backends
  BY EventKnown DEF AddressOf
<1>2. CASE event.type = "loss" /\ event.group \in Lanes /\ event.affects \in BOOLEAN
  <2>1. item.group = event.group
    BY <1>2 DEF AddressOf
  <2>2. l \notin Tainted(event)
    BY <1>1, <1>2, <2>1 DEF Tainted, Backends
  <2> QED BY <1>2, <2>2 DEF OffsetsOf
<1>3. CASE /\ event.type = "midi1" /\ event.backend # "wms"
           /\ \A k \in DOMAIN event.data : event.data[k].lane = Midi1
  <2>1. item.group = Midi1
    BY <1>3 DEF AddressOf
  <2>2. l # Midi1
    BY <1>1, <1>3, <2>1 DEF Tainted, Backends
  <2> QED BY <1>3, <2>2 DEF OffsetsOf
<1>4. CASE /\ event.type = "ump" /\ event.backend # "winmm"
           /\ Head(event.data).lane \in Groups
           /\ \A k \in DOMAIN event.data : event.data[k].lane = Head(event.data).lane
  <2>1. item.group = Head(event.data).lane /\ item.group # Midi1
    BY <1>4, LanesKnown DEF AddressOf
  <2>2. l # item.group
    BY <1>1, <1>4, <2>1 DEF Tainted, Backends
  <2> QED BY <1>4, <2>1, <2>2 DEF OffsetsOf
<1> QED BY <1>2, <1>3, <1>4, EventKnown

LEMMA LossClean ==
  ASSUME NEW stream, IsStream(stream), NEW e \in DOMAIN stream,
         NEW s, Clean(s, stream, <<e, 0>>),
         NEW T, \A l \in Lanes : l \notin T => OffsetsOf(stream[e], l) = {},
         NEW u, u = NotifyLoss(s, T)
  PROVE  Clean(u, stream, <<e + 1, 0>>) /\ u.receiving = s.receiving
<1>1. s \in Sessions /\ FramesClean(stream, s.frames) /\ e \in Nat
  BY DEF Clean, IsStream
<1>2. \A l \in Lanes :
        u.lanes[l] = IF l \notin T THEN s.lanes[l]
                     ELSE IF s.lanes[l].inside THEN [s.lanes[l] EXCEPT !.lost = TRUE]
                     ELSE [s.lanes[l] EXCEPT !.pending = TRUE]
  BY <1>1 DEF NotifyLoss, Sessions
<1>3. /\ u.receiving = s.receiving /\ u.frames = s.frames
      /\ u = [receiving |-> u.receiving, lanes |-> u.lanes, frames |-> u.frames]
      /\ u.lanes = [l \in Lanes |-> u.lanes[l]]
  BY <1>1 DEF NotifyLoss, Sessions
<1>4. ASSUME NEW l \in Lanes
      PROVE  u.lanes[l] \in LaneState /\ LaneClean(stream, l, u.lanes[l], <<e + 1, 0>>)
  <2>1. s.lanes[l] \in LaneState /\ s.lanes[l].pieces \in Seq(Place)
    BY <1>1, LaneKnown
  <2>2. CASE l \in T /\ s.lanes[l].inside
    <3>1. u.lanes[l] = [s.lanes[l] EXCEPT !.lost = TRUE]
      BY <1>2, <2>2
    <3>2. u.lanes[l] \in LaneState /\ u.lanes[l].lost
      BY <2>1, <3>1 DEF LaneState
    <3> QED BY <3>2 DEF LaneClean
  <2>3. CASE l \in T /\ ~s.lanes[l].inside
    <3>1. u.lanes[l] = [s.lanes[l] EXCEPT !.pending = TRUE]
      BY <1>2, <2>3
    <3>2. u.lanes[l] \in LaneState /\ ~u.lanes[l].inside
      BY <2>1, <2>3, <3>1 DEF LaneState
    <3> QED BY <3>2 DEF LaneClean
  <2>4. CASE l \notin T
    <3>1. u.lanes[l] = s.lanes[l]
      BY <1>2, <2>4
    <3> DEFINE pieces == s.lanes[l].pieces
    <3>2. SUFFICES ASSUME s.lanes[l].inside, ~s.lanes[l].lost
                   PROVE  Started(stream, l, pieces, <<e + 1, 0>>)
      BY <2>1, <3>1 DEF LaneClean
    <3>3. Started(stream, l, pieces, <<e, 0>>)
      BY <3>2 DEF Clean, LaneClean
    <3>4. pieces \in Seq(Place)
      BY <2>1
    <3> HIDE DEF pieces
    <3>5. pieces[Len(pieces)] \in Place /\ Adjacent(stream, l, pieces[Len(pieces)], <<e, 0>>)
      BY <3>3, <3>4 DEF Started
    <3>6. \A j \in OffsetsOf(stream[e], l) : j < 0
      BY <2>4
    <3>7. Adjacent(stream, l, pieces[Len(pieces)], <<e + 1, 0>>)
      BY <1>1, <3>5, <3>6, NextEvent
    <3> QED BY <3>3, <3>7 DEF Started
  <2> QED BY <2>2, <2>3, <2>4
<1>5. u \in Sessions
  <2>1. u.lanes \in [Lanes -> LaneState]
    BY <1>3, <1>4
  <2>2. u.receiving \in BOOLEAN /\ u.frames \in Seq(Frame)
    BY <1>1, <1>3 DEF Sessions
  <2> QED BY <1>3, <2>1, <2>2 DEF Sessions
<1> QED BY <1>1, <1>3, <1>4, <1>5 DEF Clean

(* The worker consumes what it took for the e-th event.                      *)
LEMMA EventClean ==
  ASSUME NEW stream, IsStream(stream), NEW e \in DOMAIN stream,
         NEW s, Clean(s, stream, <<e, 0>>),
         NEW item, Covers(item, stream[e]), item = stream[e] \/ stream[e] \in Published,
         NEW u, u = IF item.type = "loss" THEN NotifyLoss(s, Tainted(item))
                    ELSE ConsumeData(s, item)
  PROVE  Clean(u, stream, <<e + 1, 0>>) /\ u.receiving = s.receiving
<1>2. CASE item.type = "loss"
  <2>1. u = NotifyLoss(s, Tainted(item))
    BY <1>2
  <2>2. ASSUME NEW l \in Lanes, l \notin Tainted(item) PROVE OffsetsOf(stream[e], l) = {}
    <3>1. CASE item = stream[e]
      BY <1>2, <2>2, <3>1 DEF OffsetsOf
    <3>2. CASE item # stream[e]
      BY <2>2, <3>2, MarkerTaints DEF Covers
    <3> QED BY <3>1, <3>2
  <2>3. Clean(u, stream, <<e + 1, 0>>) /\ u.receiving = s.receiving
    BY <2>1, <2>2, LossClean
  <2> QED BY <2>3
<1>3. CASE item.type # "loss"
  <2>1. u = ConsumeData(s, stream[e]) /\ stream[e].type # "loss"
    BY <1>3 DEF Covers
  <2>2. Clean(u, stream, <<e + 1, 0>>) /\ u.receiving = s.receiving
    BY <2>1, DataClean
  <2> QED BY <2>2
<1> QED BY <1>2, <1>3

(* What no method but a running capture's may undo. *)
Kept(stream, s) == s \in Sessions /\ FramesClean(stream, s.frames)

LEMMA FinishLaneKept ==
  ASSUME NEW stream, NEW s, Kept(stream, s), NEW l \in Lanes
  PROVE  Kept(stream, FinishLane(s, l))
<1> DEFINE lane == s.lanes[l]
<1>1. s \in Sessions /\ FramesClean(stream, s.frames)
  BY DEF Kept
<1>2. lane.lost \in BOOLEAN /\ lane.pieces \in Seq(Place)
  BY <1>1, LaneKnown
<1>3. CASE lane.inside
  <2> DEFINE u == Close(s, l, Judged("incomplete", lane.lost), lane.pieces, lane.lost)
  <2>1. PICK status : status = Judged("incomplete", lane.lost)
    OBVIOUS
  <2>2. status \in Statuses /\ status # "complete"
    BY <1>2, <2>1, StatusesKnown DEF Judged
  <2>3. u = Close(s, l, status, lane.pieces, lane.lost)
    BY <2>1
  <2> HIDE DEF u
  <2>4. \E frames : Became(s, u, l, Idle, frames)
    BY <1>1, <1>2, <2>2, <2>3, Closed
  <2>5. FramesClean(stream, u.frames)
    BY <1>1, <1>2, <2>2, <2>3, EmittedClean
  <2>6. FinishLane(s, l) = u
    BY <1>3 DEF FinishLane, u
  <2> QED BY <2>4, <2>5, <2>6 DEF Became, Kept
<1>4. CASE ~lane.inside /\ lane.pending
  <2> DEFINE u == Close(s, l, "malformed", <<>>, TRUE)
  <2>1. PICK status, pieces, affected :
          status = "malformed" /\ pieces = <<>> /\ affected = TRUE
    OBVIOUS
  <2>2. /\ status \in Statuses /\ status # "complete"
        /\ pieces \in Seq(Place) /\ affected \in BOOLEAN
    BY <2>1, StatusesKnown
  <2>3. u = Close(s, l, status, pieces, affected)
    BY <2>1
  <2> HIDE DEF u
  <2>4. \E frames : Became(s, u, l, Idle, frames)
    BY <1>1, <2>2, <2>3, Closed
  <2>5. FramesClean(stream, u.frames)
    BY <1>1, <2>2, <2>3, EmittedClean
  <2>6. FinishLane(s, l) = u
    BY <1>4 DEF FinishLane, u
  <2> QED BY <2>4, <2>5, <2>6 DEF Became, Kept
<1>5. CASE ~lane.inside /\ ~lane.pending
  BY <1>5 DEF FinishLane
<1> QED BY <1>3, <1>4, <1>5

(* finish_receive(): the lanes one after another; nothing becomes whole.     *)
LEMMA FinishKept ==
  ASSUME NEW stream, NEW s, Kept(stream, s), NEW u, u = FinishReceive(s)
  PROVE  Kept(stream, u) /\ ~u.receiving
<1> DEFINE N == Len(LaneOrder)
           finished[i \in 0..Len(LaneOrder)] ==
             IF i = 0 THEN s ELSE FinishLane(finished[i - 1], LaneOrder[i])
<1>1. N \in Nat /\ \A i \in 1..N : LaneOrder[i] \in Lanes
  BY LanesKnown
<1>2. u = IF s.receiving THEN [finished[Len(LaneOrder)] EXCEPT !.receiving = FALSE] ELSE s
  BY DEF FinishReceive
<1>3. finished = [i \in 0..Len(LaneOrder) |->
                    IF i = 0 THEN s ELSE FinishLane(finished[i - 1], LaneOrder[i])]
  <2>0. PICK what : what = "finish"
    OBVIOUS
  <2>2. PICK f : Doing(what, s, s, Len(LaneOrder), f)
    BY <1>1, DoingExists
  <2>3. f = [i \in 0..Len(LaneOrder) |->
               IF i = 0 THEN s ELSE FinishLane(f[i - 1], LaneOrder[i])]
    BY <2>0, <2>2 DEF Doing, Done
  <2>1. \E g : g = [i \in 0..Len(LaneOrder) |->
                      IF i = 0 THEN s ELSE FinishLane(g[i - 1], LaneOrder[i])]
    BY <2>3
  <2> QED BY <2>1, Zenon
<1> HIDE DEF finished
<1>4. finished[0] = s /\ \A i \in 1..N : finished[i] = FinishLane(finished[i - 1], LaneOrder[i])
  <2>1. 0 \in 0..N /\ \A i \in 1..N : i \in 0..N /\ i # 0
    BY <1>1
  <2>2. finished[0] = s
    BY <1>3, <2>1
  <2>3. \A i \in 1..N : finished[i] = FinishLane(finished[i - 1], LaneOrder[i])
    BY <1>3, <2>1
  <2> QED BY <2>2, <2>3
<1> DEFINE fine == [i \in 0..N |-> IF Kept(stream, finished[i]) THEN TRUE ELSE FALSE]
<1>5. \A i \in 0..N : i < N /\ Kept(stream, finished[i]) => Kept(stream, finished[i + 1])
  <2> SUFFICES ASSUME NEW i \in 0..N, i < N, Kept(stream, finished[i])
               PROVE  Kept(stream, finished[i + 1])
    OBVIOUS
  <2>1. i + 1 \in 1..N /\ (i + 1) - 1 = i
    BY <1>1
  <2>2. finished[i + 1] = FinishLane(finished[i], LaneOrder[i + 1])
    BY <1>4, <2>1
  <2> QED BY <1>1, <2>1, <2>2, FinishLaneKept
<1>6. Kept(stream, finished[N])
  <2>1. fine[0] = TRUE
    BY <1>1, <1>4
  <2>2. \A i \in 0..N : i < N /\ fine[i] = TRUE => fine[i + 1] = TRUE
    BY <1>1, <1>5
  <2>3. \A i \in 0..N : fine[i] = TRUE
    <3> HIDE DEF fine
    <3> QED BY <1>1, <2>1, <2>2, Upward
  <2>4. N \in 0..N
    BY <1>1
  <2>5. fine[N] = TRUE /\ fine[N] = IF Kept(stream, finished[N]) THEN TRUE ELSE FALSE
    BY <2>3, <2>4
  <2> QED BY <2>5
<1>7. CASE s.receiving
  <2>1. PICK t : t = finished[N]
    OBVIOUS
  <2>2. u = [t EXCEPT !.receiving = FALSE] /\ Kept(stream, t)
    BY <1>2, <1>6, <1>7, <2>1
  <2> QED BY <2>2 DEF Kept, Sessions
<1>8. CASE ~s.receiving
  BY <1>2, <1>8
<1> QED BY <1>7, <1>8

(* begin_receive(): every lane is as new. *)
LEMMA BeginClean ==
  ASSUME NEW stream, NEW q, NEW u, u = [NewSession EXCEPT !.receiving = TRUE]
  PROVE  Clean(u, stream, q)
<1>1. /\ u.receiving = TRUE /\ u.lanes = [l \in Lanes |-> Idle] /\ u.frames = <<>>
      /\ u = [receiving |-> u.receiving, lanes |-> u.lanes, frames |-> u.frames]
  BY DEF NewSession, EmptyLanes
<1>2. <<>> \in Seq(Frame) /\ FramesClean(stream, <<>>)
  BY DEF FramesClean
<1>3. u \in Sessions
  <2>1. u.lanes \in [Lanes -> LaneState] /\ u.frames \in Seq(Frame) /\ u.receiving \in BOOLEAN
    BY <1>1, <1>2, IdleLane, ZenonT(40)
  <2> QED BY <1>1, <2>1 DEF Sessions
<1>4. \A l \in Lanes : LaneClean(stream, l, u.lanes[l], q)
  BY <1>1, IdleLane DEF LaneClean
<1> QED BY <1>1, <1>2, <1>3, <1>4 DEF Clean

-----------------------------------------------------------------------------
(* The inductive invariant.  What waits for the worker has the address of    *)
(* the event it stands for, unless an owed address was overwritten; and the  *)
(* capture is clean up to the event the worker consumes next.                *)
HeldKnown ==
  /\ sent <= Len(script)
  /\ blurred \in BOOLEAN
  /\ held # <<>> => held = <<Head(held)>> /\ Len(taken) > 0

Addressed ==
  /\ \A i \in 1..Len(queue) : Covers(queue[i], Stream[Len(taken) + i])
  /\ \A i \in 1..sent :
       i > Len(taken) + Len(queue) =>
         /\ owed.backend = AddressOf(Stream[i]).backend
         /\ owed.group = AddressOf(Stream[i]).group
  /\ held # <<>> => Covers(Head(held), Stream[Len(taken)])

Consumed == IF held = <<>> THEN Len(taken) ELSE Len(taken) - 1

CaptureClean ==
  /\ Kept(Stream, session)
  /\ session.receiving => Clean(session, Stream, <<Consumed + 1, 0>>)

Whole == HeldKnown /\ (blurred \/ (Addressed /\ CaptureClean))

LEMMA NumberedKnown ==
  ASSUME NEW x \in Events, NEW i \in Nat
  PROVE  /\ Numbered(x, i) \in Events /\ Numbered(x, i).seq = i
         /\ x \in Published => Numbered(x, i) \in Published
<1> DEFINE y == [x EXCEPT !.seq = i]
<1>2. CASE x \in [type : {"midi1"}, seq : Nat, backend : Backends,
                  data : Seq([lane : {Midi1}, kind : ByteKinds])]
  <2> DEFINE D == Seq([lane : {Midi1}, kind : ByteKinds])
  <2>1. x \in [type : {"midi1"}, seq : Nat, backend : Backends, data : D]
    BY <1>2
  <2> HIDE DEF D
  <2>2. y \in [type : {"midi1"}, seq : Nat, backend : Backends, data : D]
    BY <2>1
  <2>3. y.seq = i /\ y.type = x.type /\ y.backend = x.backend /\ y.data = x.data
    BY <2>1
  <2>4. y \in Events
    BY <2>2 DEF Events, D
  <2>5. y = Numbered(x, i)
    BY DEF Numbered
  <2> HIDE DEF y
  <2> QED BY <2>3, <2>4, <2>5 DEF Published
<1>3. CASE x \in [type : {"ump"}, seq : Nat, backend : Backends,
                  data : Seq([lane : Groups, kind : PacketKinds])]
  <2> DEFINE D == Seq([lane : Groups, kind : PacketKinds])
  <2>1. x \in [type : {"ump"}, seq : Nat, backend : Backends, data : D]
    BY <1>3
  <2> HIDE DEF D
  <2>2. y \in [type : {"ump"}, seq : Nat, backend : Backends, data : D]
    BY <2>1
  <2>3. y.seq = i /\ y.type = x.type /\ y.backend = x.backend /\ y.data = x.data
    BY <2>1
  <2>4. y \in Events
    BY <2>2 DEF Events, D
  <2>5. y = Numbered(x, i)
    BY DEF Numbered
  <2> HIDE DEF y
  <2> QED BY <2>3, <2>4, <2>5 DEF Published
<1>4. CASE x \in [type : {"loss"}, seq : Nat, backend : Backends, group : Lanes,
                  affects : BOOLEAN]
  <2>1. /\ y \in [type : {"loss"}, seq : Nat, backend : Backends, group : Lanes,
                  affects : BOOLEAN]
        /\ y.seq = i /\ y.type = "loss"
    BY <1>4
  <2>2. y \in Events
    BY <2>1 DEF Events
  <2>3. y = Numbered(x, i)
    BY DEF Numbered
  <2> HIDE DEF y
  <2> QED BY <2>1, <2>2, <2>3 DEF Published
<1> QED BY <1>2, <1>3, <1>4 DEF Events

LEMMA StreamKnown ==
  ASSUME Placed
  PROVE  /\ IsStream(Stream) /\ DOMAIN Stream = 1..Len(script) /\ Len(script) \in Nat
         /\ \A i \in DOMAIN Stream : Stream[i] \in Published
<1>1. script \in Seq(Published)
  BY ScriptsAssumption DEF Placed
<1>2. DOMAIN script = 1..Len(script) /\ Len(script) \in Nat
  BY <1>1
<1>3. ASSUME NEW i \in 1..Len(script)
      PROVE  Numbered(script[i], i) \in Published /\ Numbered(script[i], i).seq = i
  <2>1. script[i] \in Published /\ script[i] \in Events /\ i \in Nat
    BY <1>1 DEF Published
  <2> QED BY <2>1, NumberedKnown
<1>4. Stream = [i \in 1..Len(script) |-> Numbered(script[i], i)]
  BY <1>2 DEF Stream
<1>5. Stream \in Seq(Events) /\ Len(Stream) = Len(script)
  <2>1. Stream \in [1..Len(script) -> Events]
    BY <1>3, <1>4 DEF Published
  <2>2. Stream \in Seq(Events)
    BY <1>2, <2>1
  <2> QED BY <1>2, <2>1, <2>2
<1>6. \A i \in 1..Len(Stream) : Stream[i].seq = i
  BY <1>3, <1>4, <1>5
<1> QED BY <1>2, <1>3, <1>4, <1>5, <1>6 DEF IsStream

LEMMA InitWhole == Init => Whole
<1> SUFFICES ASSUME Init PROVE Whole
  OBVIOUS
<1>1. Placed
  BY InitPlaced
<1>2. Len(script) \in Nat
  BY <1>1, StreamKnown
<1>3. HeldKnown
  <2>1. sent <= Len(script)
    BY <1>2 DEF Init
  <2>2. blurred \in BOOLEAN /\ ~(held # <<>>)
    BY DEF Init
  <2> QED BY <2>1, <2>2 DEF HeldKnown
<1>4. Addressed
  <2>1. queue = <<>> /\ Len(queue) = 0 /\ sent = 0 /\ held = <<>>
    BY DEF Init
  <2> QED BY <2>1 DEF Addressed
<1>5. CaptureClean
  <2>1. session = NewSession /\ session.receiving = FALSE /\ session.frames = <<>>
        /\ session.lanes = [l \in Lanes |-> Idle]
    BY DEF Init, NewSession, EmptyLanes
  <2>2. <<>> \in Seq(Frame) /\ FramesClean(Stream, <<>>)
    BY DEF FramesClean
  <2>3. NewSession \in Sessions
    BY <2>2, IdleLane DEF NewSession, EmptyLanes, Sessions
  <2> QED BY <2>1, <2>2, <2>3 DEF CaptureClean, Kept
<1> QED BY <1>3, <1>4, <1>5 DEF Whole

(* The markers that are paid back carry the address they are owed for. *)
LEMMA PaidAddressed ==
  ASSUME Placed, HeldKnown, Addressed
  PROVE  \A i \in 1..Len(PaidQueue) : Covers(PaidQueue[i], Stream[Len(taken) + i])
<1> DEFINE markers == [i \in 1..Pushed |-> Marker]
<1>1. /\ Pushed \in Nat /\ Pushed <= owed.count
      /\ Len(PaidQueue) = Len(queue) + Pushed
  BY PaidPlaced
<1>2. IsSeq(queue) /\ Len(queue) \in Nat /\ Len(taken) \in Nat /\ owed.count \in Nat
      /\ sent \in Nat /\ Len(taken) + Len(queue) + owed.count = sent
  BY AppendPlaces DEF Placed
<1>3. IsSeq(markers) /\ Len(markers) = Pushed /\ \A i \in 1..Pushed : markers[i] = Marker
  BY <1>1, RepeatPlaces
<1>4. PaidQueue = queue \o markers
  BY DEF PaidQueue
<1> HIDE DEF markers
<1>5. /\ \A i \in 1..Len(queue) : PaidQueue[i] = queue[i]
      /\ \A i \in 1..Pushed : PaidQueue[Len(queue) + i] = Marker
  BY <1>2, <1>3, <1>4, ConcatPlaces
<1> TAKE i \in 1..Len(PaidQueue)
<1>6. CASE i \in 1..Len(queue)
  BY <1>5, <1>6 DEF Addressed
<1>7. CASE i > Len(queue)
  <2>1. i - Len(queue) \in 1..Pushed /\ i = Len(queue) + (i - Len(queue))
    BY <1>1, <1>2, <1>7
  <2>2. PaidQueue[i] = Marker
    BY <1>5, <2>1
  <2>3. Len(taken) + i \in 1..sent /\ Len(taken) + i > Len(taken) + Len(queue)
    BY <1>1, <1>2, <1>7, <2>1
  <2>4. /\ owed.backend = AddressOf(Stream[Len(taken) + i]).backend
        /\ owed.group = AddressOf(Stream[Len(taken) + i]).group
    BY <2>3 DEF Addressed
  <2>5. Marker.type = "loss" /\ Marker.affects /\ Marker.backend = owed.backend
        /\ Marker.group = owed.group
    BY DEF Marker
  <2> HIDE DEF Marker
  <2> QED BY <2>2, <2>4, <2>5 DEF Covers
<1> QED BY <1>1, <1>2, <1>6, <1>7

(* What is published is queued, or leaves its address behind. *)
LEMMA PublishWhole == Placed /\ Whole /\ Publish => Whole'
<1> SUFFICES ASSUME Placed, Whole, Publish PROVE Whole'
  OBVIOUS
<1> DEFINE event == Stream[sent + 1]
<1>1. /\ sent' = sent + 1 /\ script' = script /\ taken' = taken /\ held' = held
      /\ session' = session
      /\ Offer(event)
      /\ sent < Len(script)
  BY DEF Publish, workerVars
<1>2. /\ sent \in Nat /\ owed.count \in Nat /\ Capacity \in Nat
      /\ Len(taken) \in Nat /\ IsSeq(queue) /\ Len(queue) \in Nat
      /\ Len(taken) + Len(queue) + owed.count = sent
      /\ Len(script) \in Nat
  BY CapacityAssumption, AppendPlaces, StreamKnown DEF Placed
<1>3. Stream' = Stream
  BY <1>1 DEF Stream
<1>4. blurred \in BOOLEAN /\ blurred' \in BOOLEAN /\ (blurred => blurred')
  BY <1>1 DEF Whole, HeldKnown, Offer, RecordDrop
<1>5. HeldKnown'
  BY <1>1, <1>2, <1>4 DEF Whole, HeldKnown
<1>6. SUFFICES ASSUME ~blurred' PROVE Addressed' /\ CaptureClean'
  BY <1>5 DEF Whole
<1>7. HeldKnown /\ Addressed /\ CaptureClean
  BY <1>4, <1>6 DEF Whole
<1>8. CaptureClean'
  BY <1>1, <1>3, <1>7 DEF CaptureClean, Consumed
<1>9. /\ Pushed \in Nat /\ Pushed <= owed.count
      /\ IsSeq(PaidQueue)
      /\ Len(PaidQueue) = Len(queue) + Pushed
      /\ Len(PaidQueue) <= Capacity
      /\ Len(PaidQueue) < Capacity => Pushed = owed.count
  BY PaidPlaced
<1>10. \A i \in 1..Len(PaidQueue) : Covers(PaidQueue[i], Stream[Len(taken) + i])
  BY <1>7, PaidAddressed
<1>11. held' # <<>> => Covers(Head(held'), Stream[Len(taken')])
  BY <1>1, <1>7 DEF Addressed
<1> HIDE DEF event
<1>12. ASSUME Len(PaidQueue) = Capacity PROVE Addressed'
  <2>1. /\ queue' = PaidQueue
        /\ owed'.backend = AddressOf(event).backend /\ owed'.group = AddressOf(event).group
    BY <1>1, <1>12 DEF Offer, RecordDrop
  <2>2. owed.count - Pushed > 0 =>
          owed.backend = AddressOf(event).backend /\ owed.group = AddressOf(event).group
    <3> DEFINE address == [backend |-> owed.backend, group |-> owed.group]
    <3>1. blurred' <=> blurred \/ (owed.count - Pushed > 0 /\ AddressOf(event) # address)
      BY <1>1, <1>12 DEF Offer, RecordDrop
    <3>2. owed.count - Pushed > 0 => AddressOf(event) = address
      BY <1>6, <3>1
    <3>3. address.backend = owed.backend /\ address.group = owed.group
      OBVIOUS
    <3> HIDE DEF address
    <3> QED BY <3>2, <3>3
  <2>3. ASSUME NEW i \in 1..sent', i > Len(taken) + Len(PaidQueue)
        PROVE  /\ owed'.backend = AddressOf(Stream[i]).backend
               /\ owed'.group = AddressOf(Stream[i]).group
    <3>1. CASE i = sent + 1
      BY <2>1, <3>1 DEF event
    <3>2. CASE i # sent + 1
      <4>1. i \in 1..sent /\ i > Len(taken) + Len(queue) /\ owed.count - Pushed > 0
        BY <1>1, <1>2, <1>9, <2>3, <3>2
      <4> QED BY <1>7, <2>1, <2>2, <4>1 DEF Addressed
    <3> QED BY <3>1, <3>2
  <2> QED BY <1>1, <1>3, <1>10, <1>11, <2>1, <2>3 DEF Addressed
<1>13. ASSUME Len(PaidQueue) # Capacity PROVE Addressed'
  <2>1. queue' = Append(PaidQueue, event) /\ Pushed = owed.count
    BY <1>1, <1>2, <1>9, <1>13 DEF Offer
  <2>2. /\ Len(Append(PaidQueue, event)) = Len(PaidQueue) + 1
        /\ \A i \in 1..Len(PaidQueue) : Append(PaidQueue, event)[i] = PaidQueue[i]
        /\ Append(PaidQueue, event)[Len(PaidQueue) + 1] = event
    BY <1>9, AppendPlaces
  <2>3. Len(taken) + Len(PaidQueue) = sent
    BY <1>2, <1>9, <2>1
  <2>4. ASSUME NEW i \in 1..Len(queue') PROVE Covers(queue'[i], Stream[Len(taken) + i])
    <3>1. CASE i \in 1..Len(PaidQueue)
      BY <1>10, <2>1, <2>2, <3>1
    <3>2. CASE i = Len(PaidQueue) + 1
      <4>1. Len(taken) + i = sent + 1
        BY <1>2, <1>9, <2>3, <3>2
      <4> QED BY <2>1, <2>2, <3>2, <4>1 DEF Covers, event
    <3>3. Len(PaidQueue) \in Nat /\ Len(queue') = Len(PaidQueue) + 1
      BY <1>2, <1>9, <2>1, <2>2
    <3>4. i \in 1..Len(PaidQueue) \/ i = Len(PaidQueue) + 1
      BY <2>4, <3>3
    <3> QED BY <3>1, <3>2, <3>4
  <2>5. \A i \in 1..sent' : ~(i > Len(taken') + Len(queue'))
    <3>1. sent' = sent + 1 /\ taken' = taken /\ Len(queue') = Len(PaidQueue) + 1
      BY <1>1, <2>1, <2>2
    <3>2. sent \in Nat /\ Len(taken) \in Nat /\ Len(PaidQueue) \in Nat
      BY <1>2, <1>9
    <3> QED BY <2>3, <3>1, <3>2
  <2> QED BY <1>1, <1>3, <1>11, <2>4, <2>5 DEF Addressed
<1> QED BY <1>8, <1>12, <1>13

LEMMA TakeEventWhole == Placed /\ Whole /\ TakeEvent => Whole'
<1> SUFFICES ASSUME Placed, Whole, TakeEvent PROVE Whole'
  OBVIOUS
<1>1. /\ held = <<>> /\ queue # <<>>
      /\ held' = <<Head(queue)>> /\ taken' = Append(taken, Head(queue)) /\ queue' = Tail(queue)
      /\ UNCHANGED <<script, sent, owed, blurred, session>>
  BY DEF TakeEvent, MayTakeEvent, Free
<1>2. /\ Len(taken) \in Nat /\ Len(taken') = Len(taken) + 1
      /\ Len(queue) \in Nat \ {0} /\ Len(queue') = Len(queue) - 1 /\ Head(queue) = queue[1]
      /\ \A i \in 1..Len(queue') : queue'[i] = queue[i + 1]
      /\ sent \in Nat
  BY <1>1, AppendPlaces, TailPlaces DEF Placed
<1>3. Stream' = Stream
  BY <1>1 DEF Stream
<1>4. held' # <<>> /\ Head(held') = queue[1] /\ held' = <<Head(held')>>
  <2> DEFINE item == Head(queue)
  <2>1. held' = <<item>>
    BY <1>1
  <2>2. <<item>> # <<>> /\ Head(<<item>>) = item
    OBVIOUS
  <2> QED BY <1>2, <2>1, <2>2
<1>5. HeldKnown'
  BY <1>1, <1>2, <1>4 DEF Whole, HeldKnown
<1>6. SUFFICES ASSUME ~blurred PROVE Addressed' /\ CaptureClean'
  BY <1>1, <1>5 DEF Whole
<1>7. Addressed /\ CaptureClean
  BY <1>6 DEF Whole
<1>8. Consumed' = Consumed
  BY <1>1, <1>2, <1>4 DEF Consumed
<1>9. CaptureClean'
  BY <1>1, <1>3, <1>7, <1>8 DEF CaptureClean
<1>10. ASSUME NEW i \in 1..Len(queue') PROVE Covers(queue'[i], Stream[Len(taken') + i])
  <2>1. i + 1 \in 1..Len(queue) /\ Len(taken') + i = Len(taken) + (i + 1)
    BY <1>2
  <2> QED BY <1>2, <1>7, <2>1 DEF Addressed
<1>11. Covers(queue[1], Stream[Len(taken')])
  <2>1. 1 \in 1..Len(queue)
    BY <1>2
  <2> QED BY <1>2, <1>7, <2>1 DEF Addressed
<1>12. \A i \in 1..sent : i > Len(taken') + Len(queue') => i > Len(taken) + Len(queue)
  BY <1>2
<1> QED BY <1>1, <1>3, <1>4, <1>7, <1>9, <1>10, <1>11, <1>12 DEF Addressed

LEMMA TakeMarkerWhole == Placed /\ Whole /\ TakeMarker => Whole'
<1> SUFFICES ASSUME Placed, Whole, TakeMarker PROVE Whole'
  OBVIOUS
<1>1. /\ held = <<>> /\ queue = <<>> /\ owed.count > 0
      /\ held' = <<Marker>> /\ taken' = Append(taken, Marker)
      /\ owed' = [owed EXCEPT !.count = @ - 1]
      /\ UNCHANGED <<script, sent, queue, blurred, session>>
  BY DEF TakeMarker, MayTakeEvent, Free
<1>2. /\ Len(taken) \in Nat /\ Len(taken') = Len(taken) + 1
      /\ Len(queue) = 0 /\ owed.count \in Nat /\ sent \in Nat
      /\ Len(taken) + Len(queue) + owed.count = sent
  BY <1>1, AppendPlaces DEF Placed
<1>3. Stream' = Stream
  BY <1>1 DEF Stream
<1>4. held' # <<>> /\ Head(held') = Marker /\ held' = <<Head(held')>>
  <2> DEFINE item == Marker
  <2>1. held' = <<item>>
    BY <1>1
  <2> HIDE DEF item
  <2>2. <<item>> # <<>> /\ Head(<<item>>) = item
    OBVIOUS
  <2> QED BY <2>1, <2>2 DEF item
<1>5. HeldKnown'
  BY <1>1, <1>2, <1>4 DEF Whole, HeldKnown
<1>6. SUFFICES ASSUME ~blurred PROVE Addressed' /\ CaptureClean'
  BY <1>1, <1>5 DEF Whole
<1>7. Addressed /\ CaptureClean
  BY <1>6 DEF Whole
<1>8. Consumed' = Consumed
  BY <1>1, <1>2, <1>4 DEF Consumed
<1>9. CaptureClean'
  BY <1>1, <1>3, <1>7, <1>8 DEF CaptureClean
<1>10. owed'.backend = owed.backend /\ owed'.group = owed.group
  BY <1>1 DEF Placed, OwedShape
<1>11. Covers(Marker, Stream[Len(taken')])
  <2>1. Len(taken') \in 1..sent /\ Len(taken') > Len(taken) + Len(queue)
    BY <1>1, <1>2
  <2>2. /\ owed.backend = AddressOf(Stream[Len(taken')]).backend
        /\ owed.group = AddressOf(Stream[Len(taken')]).group
    BY <1>7, <2>1 DEF Addressed
  <2>3. Marker.type = "loss" /\ Marker.affects /\ Marker.backend = owed.backend
        /\ Marker.group = owed.group
    BY DEF Marker
  <2> HIDE DEF Marker
  <2> QED BY <2>2, <2>3 DEF Covers
<1>12. \A i \in 1..sent : i > Len(taken') + Len(queue') => i > Len(taken) + Len(queue)
  BY <1>1, <1>2
<1>13. \A i \in 1..Len(queue') : FALSE
  BY <1>1, <1>2
<1> QED BY <1>1, <1>3, <1>4, <1>7, <1>9, <1>10, <1>11, <1>12, <1>13 DEF Addressed

(* What is held is consumed: the capture is clean one place further. *)
LEMMA ConsumeWhole == Placed /\ Whole /\ Consume => Whole'
<1> SUFFICES ASSUME Placed, Whole, Consume PROVE Whole'
  OBVIOUS
<1>1. /\ held # <<>> /\ held' = <<>>
      /\ session' = ConsumeEvent(session, Head(held))
      /\ UNCHANGED <<script, sent, queue, owed, blurred, taken>>
  BY DEF Consume, Free, transportVars
<1>2. Stream' = Stream
  BY <1>1 DEF Stream
<1>3. HeldKnown'
  BY <1>1 DEF Whole, HeldKnown
<1>4. SUFFICES ASSUME ~blurred PROVE Addressed' /\ CaptureClean'
  BY <1>1, <1>3 DEF Whole
<1>5. HeldKnown /\ Addressed /\ CaptureClean
  BY <1>4 DEF Whole
<1>6. Addressed'
  BY <1>1, <1>2, <1>5 DEF Addressed
<1> DEFINE e == Len(taken)
<1>7. /\ e \in DOMAIN Stream /\ e \in Nat /\ IsStream(Stream)
      /\ Consumed + 1 = e /\ Consumed' = e
  <2>1. Len(taken) \in Nat /\ Len(queue) \in Nat /\ owed.count \in Nat /\ sent \in Nat
        /\ Len(taken) + Len(queue) + owed.count = sent
    BY AppendPlaces DEF Placed
  <2>2. Len(taken) > 0 /\ sent <= Len(script)
    BY <1>1, <1>5 DEF HeldKnown
  <2>3. e \in 1..Len(script)
    BY <2>1, <2>2, StreamKnown
  <2> QED BY <1>1, <2>1, <2>3, StreamKnown DEF Consumed
<1>8. Covers(Head(held), Stream[e])
  BY <1>1, <1>5 DEF Addressed
<1>9. Kept(Stream, session) /\ (session.receiving => Clean(session, Stream, <<e, 0>>))
  <2>1. PICK c : c = Consumed + 1
    OBVIOUS
  <2>2. session.receiving => Clean(session, Stream, <<c, 0>>)
    BY <1>5, <2>1 DEF CaptureClean
  <2> QED BY <1>5, <1>7, <2>1, <2>2 DEF CaptureClean
<1> HIDE DEF e
<1>10. CASE ~session.receiving
  <2>1. session' = session
    BY <1>1, <1>10 DEF ConsumeEvent
  <2>2. CaptureClean'
    BY <1>2, <1>9, <1>10, <2>1 DEF CaptureClean
  <2> QED BY <1>6, <2>2
<1>11. CASE session.receiving
  <2>1. PICK item, u : item = Head(held) /\ u = session'
    OBVIOUS
  <2>2. u = IF item.type = "loss" THEN NotifyLoss(session, Tainted(item))
            ELSE ConsumeData(session, item)
    BY <1>1, <1>11, <2>1 DEF ConsumeEvent
  <2>3. Clean(session, Stream, <<e, 0>>) /\ Covers(item, Stream[e])
    BY <1>8, <1>9, <1>11, <2>1
  <2>4. Clean(u, Stream, <<e + 1, 0>>)
    BY <1>7, <2>2, <2>3, EventClean, StreamKnown
  <2>5. Kept(Stream, u)
    BY <2>4 DEF Clean, Kept
  <2>6. Clean(session', Stream', <<Consumed' + 1, 0>>)
    BY <1>2, <1>7, <2>1, <2>4
  <2>7. CaptureClean'
    BY <1>2, <2>1, <2>5, <2>6 DEF CaptureClean
  <2> QED BY <1>6, <2>7
<1> QED BY <1>10, <1>11

(* The commands of the interface and the end of the worker. *)
LEMMA CommandWhole ==
  ASSUME Placed, Whole, UNCHANGED <<script, sent, queue, owed, blurred, taken, held>>,
         \/ session' = session
         \/ held = <<>> /\ session' = BeginReceive(session)
         \/ session' = FinishReceive(session)
         \/ session' = ClearDocument(session)
  PROVE  Whole'
<1>1. Stream' = Stream /\ HeldKnown' /\ Consumed' = Consumed
  BY DEF Stream, Whole, HeldKnown, Consumed
<1>2. SUFFICES ASSUME ~blurred PROVE Addressed' /\ CaptureClean'
  BY <1>1 DEF Whole
<1>3. Addressed /\ CaptureClean
  BY <1>2 DEF Whole
<1>4. Addressed'
  BY <1>1, <1>3 DEF Addressed
<1>5. ASSUME session' = session PROVE CaptureClean'
  BY <1>1, <1>3, <1>5 DEF CaptureClean
<1>6. PICK u : u = session'
  OBVIOUS
<1>7. Kept(Stream, session)
  BY <1>3 DEF CaptureClean
<1>8. CASE session' = BeginReceive(session)
  <2>1. CASE session.receiving
    BY <1>4, <1>5, <1>8, <2>1 DEF BeginReceive
  <2>2. CASE ~session.receiving
    <3>1. u = [NewSession EXCEPT !.receiving = TRUE]
      BY <1>6, <1>8, <2>2 DEF BeginReceive
    <3>2. \A q : Clean(u, Stream, q)
      BY <3>1, BeginClean
    <3>3. Kept(Stream, u)
      BY <3>2 DEF Clean, Kept
    <3>4. CaptureClean'
      BY <1>1, <1>6, <3>2, <3>3 DEF CaptureClean
    <3> QED BY <1>4, <3>4
  <2> QED BY <2>1, <2>2
<1>9. CASE session' = FinishReceive(session)
  <2>1. Kept(Stream, u) /\ ~u.receiving
    BY <1>6, <1>7, <1>9, FinishKept
  <2>2. CaptureClean'
    BY <1>1, <1>6, <2>1 DEF CaptureClean
  <2> QED BY <1>4, <2>2
<1>10. CASE session' = ClearDocument(session)
  <2>1. CASE session.receiving
    BY <1>4, <1>5, <1>10, <2>1 DEF ClearDocument
  <2>2. CASE ~session.receiving
    <3>1. u = [session EXCEPT !.frames = <<>>]
      BY <1>6, <1>10, <2>2 DEF ClearDocument
    <3>2. <<>> \in Seq(Frame) /\ FramesClean(Stream, <<>>)
      BY DEF FramesClean
    <3>3. Kept(Stream, u) /\ ~u.receiving
      BY <1>7, <2>2, <3>1, <3>2 DEF Kept, Sessions
    <3>4. CaptureClean'
      BY <1>1, <1>6, <3>3 DEF CaptureClean
    <3> QED BY <1>4, <3>4
  <2> QED BY <2>1, <2>2
<1> QED BY <1>4, <1>5, <1>8, <1>9, <1>10

LEMMA StepWhole == Placed /\ Whole /\ [Next]_vars => Whole'
<1> SUFFICES ASSUME Placed, Whole, [Next]_vars PROVE Whole'
  OBVIOUS
<1>1. CASE Publish
  BY <1>1, PublishWhole
<1>2. ASSUME NEW name \in Commands, Enqueue(name) PROVE Whole'
  BY <1>2, CommandWhole DEF Enqueue, transportVars, workerVars
<1>3. CASE Stop
  BY <1>3, CommandWhole DEF Stop, transportVars, workerVars
<1>4. CASE Reconnect
  BY <1>4, CommandWhole DEF Reconnect, transportVars, workerVars
<1>5. CASE TakeCommand
  BY <1>5, CommandWhole DEF TakeCommand, transportVars
<1>6. CASE TakeEvent
  BY <1>6, TakeEventWhole
<1>7. CASE TakeMarker
  BY <1>7, TakeMarkerWhole
<1>8. CASE Consume
  BY <1>8, ConsumeWhole
<1>9. CASE BeginReceiving
  BY <1>9, CommandWhole DEF BeginReceiving, Drained, Free, Answer, transportVars
<1>10. ASSUME NEW name \in Ending, FinishReceiving(name) PROVE Whole'
  BY <1>10, CommandWhole DEF FinishReceiving, Answer, transportVars
<1>11. CASE ClearWorkspace
  BY <1>11, CommandWhole DEF ClearWorkspace, Answer, transportVars
<1>12. CASE Exit
  BY <1>12, CommandWhole DEF Exit, transportVars
<1>13. CASE UNCHANGED vars
  BY <1>13, CommandWhole DEF vars, transportVars, workerVars
<1> QED
  BY <1>1, <1>2, <1>3, <1>4, <1>5, <1>6, <1>7, <1>8, <1>9, <1>10, <1>11, <1>12, <1>13
  DEF Next, Worker

(* What the document calls complete, the device sent whole: for every queue  *)
(* capacity, every stream of bytes and packets, wherever the queue overflows *)
(* and whatever the interface asks for in between.                           *)
THEOREM CompleteIsWhole == Spec => []WholeUnlessBlurred
<1>1. Init => Placed /\ Whole
  BY InitPlaced, InitWhole
<1>2. Placed /\ Whole /\ [Next]_vars => Placed' /\ Whole'
  BY StepPlaced, StepWhole
<1>3. Whole => WholeUnlessBlurred
  <2> SUFFICES ASSUME Whole, ~blurred PROVE OnlyWholeFrames
    BY DEF WholeUnlessBlurred
  <2>1. Kept(Stream, session)
    BY DEF Whole, CaptureClean
  <2>2. session.frames \in Seq(Frame)
    BY <2>1 DEF Kept, Sessions
  <2>3. DOMAIN session.frames = 1..Len(session.frames)
    BY <2>2
  <2> QED BY <2>1, <2>3 DEF Kept, FramesClean, FrameClean, OnlyWholeFrames
<1> QED BY <1>1, <1>2, <1>3, PTL DEF Spec

-----------------------------------------------------------------------------
(* What a longer stream leaves as it was: frames that are whole stay whole.  *)

LEMMA LongerStream ==
  ASSUME NEW stream, IsStream(stream), NEW event \in Events, event.seq = Len(stream) + 1,
         NEW longer, longer = Append(stream, event)
  PROVE  /\ IsStream(longer) /\ Len(longer) = Len(stream) + 1
         /\ Len(longer) \in DOMAIN longer /\ longer[Len(longer)] = event
<1>1. /\ stream \in Seq(Events) /\ Len(stream) \in Nat
      /\ \A i \in 1..Len(stream) : stream[i].seq = i
  BY DEF IsStream
<1>2. /\ longer \in Seq(Events) /\ Len(longer) = Len(stream) + 1
      /\ DOMAIN longer = 1..(Len(stream) + 1)
      /\ \A i \in 1..Len(stream) : longer[i] = stream[i]
      /\ longer[Len(stream) + 1] = event
  BY <1>1
<1> QED BY <1>1, <1>2 DEF IsStream

LEMMA AdjacentLonger ==
  ASSUME NEW stream, IsStream(stream), NEW event \in Events,
         NEW longer, longer = Append(stream, event),
         NEW l, NEW p, NEW q \in Place, q[1] <= Len(stream),
         Adjacent(stream, l, p, q)
  PROVE  Adjacent(longer, l, p, q)
<1>1. /\ Len(stream) \in Nat /\ DOMAIN stream = 1..Len(stream)
      /\ DOMAIN longer = 1..(Len(stream) + 1)
      /\ \A i \in 1..Len(stream) : longer[i] = stream[i]
  BY DEF IsStream
<1>2. ASSUME NEW i \in DOMAIN longer, NEW k \in OffsetsOf(longer[i], l),
             Precedes(p, <<i, k>>), Precedes(<<i, k>>, q)
      PROVE  FALSE
  <2>1. i <= q[1] /\ q[1] \in Nat
    BY <1>1, <1>2 DEF Precedes, Place
  <2>2. i \in DOMAIN stream /\ longer[i] = stream[i]
    BY <1>1, <2>1
  <2> QED BY <1>2, <2>2 DEF Adjacent
<1> QED BY <1>2 DEF Adjacent

LEMMA PieceLonger ==
  ASSUME NEW stream, IsStream(stream), NEW event \in Events,
         NEW longer, longer = Append(stream, event),
         NEW l, NEW p \in Place, PieceOf(stream, l, p)
  PROVE  /\ PieceOf(longer, l, p) /\ KindAt(longer, p) = KindAt(stream, p)
         /\ p[1] <= Len(stream)
<1>1. /\ Len(stream) \in Nat /\ DOMAIN stream = 1..Len(stream)
      /\ DOMAIN longer = 1..(Len(stream) + 1)
      /\ \A i \in 1..Len(stream) : longer[i] = stream[i]
  BY DEF IsStream
<1>2. p[1] \in 1..Len(stream)
  BY <1>1 DEF PieceOf
<1>3. longer[p[1]] = stream[p[1]] /\ p[1] \in DOMAIN longer /\ p[1] <= Len(stream)
  BY <1>1, <1>2
<1> QED BY <1>3 DEF PieceOf, KindAt

LEMMA SentWholeLonger ==
  ASSUME NEW stream, IsStream(stream), NEW event \in Events,
         NEW longer, longer = Append(stream, event),
         NEW l, NEW pieces \in Seq(Place), SentWhole(stream, l, pieces)
  PROVE  SentWhole(longer, l, pieces)
<1> DEFINE last == Len(pieces)
<1>1. last \in Nat /\ \A n \in 1..last : pieces[n] \in Place
  OBVIOUS
<1>2. \A n \in 1..last :
        /\ PieceOf(longer, l, pieces[n]) /\ KindAt(longer, pieces[n]) = KindAt(stream, pieces[n])
        /\ pieces[n][1] <= Len(stream)
  BY <1>1, PieceLonger DEF SentWhole
<1>3. ASSUME NEW n \in 2..last PROVE Adjacent(longer, l, pieces[n - 1], pieces[n])
  <2>1. n \in 1..last /\ Adjacent(stream, l, pieces[n - 1], pieces[n])
    BY <1>1 DEF SentWhole
  <2> QED BY <1>1, <1>2, <2>1, AdjacentLonger
<1>4. last > 0 /\ 1 \in 1..last /\ last \in 1..last /\ \A n \in 2..(last - 1) : n \in 1..last
  BY <1>1 DEF SentWhole
<1> HIDE DEF last
<1>5. IF last = 1 THEN KindAt(longer, pieces[1]) = "complete"
      ELSE /\ KindAt(longer, pieces[1]) = "start"
           /\ KindAt(longer, pieces[last]) = "end"
           /\ \A n \in 2..(last - 1) : KindAt(longer, pieces[n]) \in {"data", "continuation"}
  BY <1>2, <1>4 DEF SentWhole, last
<1> QED BY <1>2, <1>3, <1>4, <1>5 DEF SentWhole, last

LEMMA FramesLonger ==
  ASSUME NEW stream, IsStream(stream), NEW event \in Events,
         NEW longer, longer = Append(stream, event),
         NEW frames \in Seq(Frame), FramesClean(stream, frames)
  PROVE  FramesClean(longer, frames)
<1>1. ASSUME NEW i \in 1..Len(frames), frames[i].status = "complete"
      PROVE  ~frames[i].affected /\ SentWhole(longer, frames[i].lane, frames[i].pieces)
  <2>1. frames[i] \in Frame
    OBVIOUS
  <2>2. frames[i].pieces \in Seq(Place)
    BY <2>1 DEF Frame
  <2>3. ~frames[i].affected /\ SentWhole(stream, frames[i].lane, frames[i].pieces)
    BY <1>1 DEF FramesClean, FrameClean
  <2> QED BY <2>2, <2>3, SentWholeLonger
<1> QED BY <1>1 DEF FramesClean, FrameClean

(* The next event has nothing before its first place, so a running capture   *)
(* that is clean up to there, or to an earlier place, stays so when the event *)
(* is there to be heard.                                                     *)
LEMMA CleanLonger ==
  ASSUME NEW stream, IsStream(stream), NEW event \in Events, event.seq = Len(stream) + 1,
         NEW longer, longer = Append(stream, event),
         NEW c \in Nat, c <= Len(stream) + 1, NEW q, q = <<c, 0>>,
         NEW s, Clean(s, stream, q)
  PROVE  Clean(s, longer, q)
<1>1. /\ Len(stream) \in Nat /\ DOMAIN stream = 1..Len(stream)
      /\ DOMAIN longer = 1..(Len(stream) + 1)
      /\ \A i \in 1..Len(stream) : longer[i] = stream[i]
  BY DEF IsStream
<1>2. s \in Sessions /\ FramesClean(stream, s.frames) /\ s.frames \in Seq(Frame)
  BY DEF Clean, Sessions
<1>3. FramesClean(longer, s.frames)
  BY <1>2, FramesLonger
<1>4. ASSUME NEW l \in Lanes, s.lanes[l].inside, ~s.lanes[l].lost
      PROVE  Started(longer, l, s.lanes[l].pieces, q)
  <2> DEFINE pieces == s.lanes[l].pieces
             last == Len(pieces)
  <2>1. Started(stream, l, pieces, q)
    BY <1>4 DEF Clean, LaneClean
  <2>2. pieces \in Seq(Place)
    BY <1>2, LaneKnown
  <2> HIDE DEF pieces
  <2>3. last \in Nat /\ last > 0 /\ \A n \in 1..last : pieces[n] \in Place
    BY <2>1, <2>2 DEF Started
  <2>4. \A n \in 1..last :
          /\ PieceOf(longer, l, pieces[n]) /\ KindAt(longer, pieces[n]) = KindAt(stream, pieces[n])
          /\ pieces[n][1] <= Len(stream)
    BY <2>1, <2>3, PieceLonger DEF Started
  <2>5. ASSUME NEW n \in 2..last PROVE Adjacent(longer, l, pieces[n - 1], pieces[n])
    <3>1. n \in 1..last /\ Adjacent(stream, l, pieces[n - 1], pieces[n])
      BY <2>1, <2>3 DEF Started
    <3> QED BY <2>3, <2>4, <3>1, AdjacentLonger
  <2>6. Adjacent(longer, l, pieces[last], q)
    <3>1. Adjacent(stream, l, pieces[last], q)
      BY <2>1 DEF Started
    <3>2. ASSUME NEW i \in DOMAIN longer, NEW k \in OffsetsOf(longer[i], l),
                 Precedes(pieces[last], <<i, k>>), Precedes(<<i, k>>, q)
          PROVE  FALSE
      <4>1. CASE i \in DOMAIN stream
        BY <1>1, <3>1, <3>2, <4>1 DEF Adjacent
      <4>2. CASE i = Len(stream) + 1
        <5>1. IsStream(longer) /\ OffsetsOf(longer[i], l) \subseteq Nat
          BY LongerStream, OffsetsAreNumbers
        <5>2. k \in Nat /\ i = Len(stream) + 1 /\ c <= i
          BY <3>2, <4>2, <5>1
        <5> QED BY <1>1, <3>2, <5>2 DEF Precedes
      <4> QED BY <1>1, <4>1, <4>2
    <3> QED BY <3>1, <3>2 DEF Adjacent
  <2>7. 1 \in 1..last /\ \A n \in 2..last : n \in 1..last
    BY <2>3
  <2>8. /\ KindAt(longer, pieces[1]) = "start"
        /\ \A n \in 2..last : KindAt(longer, pieces[n]) \in {"data", "continuation"}
    BY <2>1, <2>4, <2>7 DEF Started
  <2> QED BY <2>3, <2>4, <2>5, <2>6, <2>8 DEF Started, pieces
<1> QED BY <1>2, <1>3, <1>4 DEF Clean, LaneClean

-----------------------------------------------------------------------------
(* What the capture remembers of losses.  A lane that has been told of one   *)
(* keeps a flag until it emits a frame that is marked as affected.  Nothing  *)
(* would be remembered by the flag of the other case: inside a frame a loss  *)
(* is recorded against it, outside for the next one.                         *)
FlaggedLane(lane) == lane.lost \/ lane.pending

SoundLane(lane) == IF lane.inside THEN ~lane.pending ELSE ~lane.lost

Sound(s) == s \in Sessions /\ \A l \in Lanes : SoundLane(s.lanes[l])

AffectedAfter(frames, n, l) ==
  \E k \in (n + 1)..Len(frames) : frames[k].lane = l /\ frames[k].affected

(* From s to t: frames are only added, and each flag is kept or answered.    *)
Remembers(s, t) ==
  /\ Len(s.frames) <= Len(t.frames)
  /\ \A k \in 1..Len(s.frames) : t.frames[k] = s.frames[k]
  /\ \A l \in Lanes : FlaggedLane(s.lanes[l]) =>
       FlaggedLane(t.lanes[l]) \/ AffectedAfter(t.frames, Len(s.frames), l)

GoesOn(s, t) == Sound(t) /\ Remembers(s, t)

LEMMA CountFrames == ASSUME NEW s, Sound(s) PROVE Len(s.frames) \in Nat
<1>1. s.frames \in Seq(Frame)
  BY DEF Sound, Sessions
<1> QED BY <1>1

LEMMA RemembersItself == ASSUME NEW s, Sound(s) PROVE GoesOn(s, s)
BY CountFrames DEF GoesOn, Remembers

LEMMA RemembersOn ==
  ASSUME NEW s, Sound(s), NEW t, GoesOn(s, t), NEW u, GoesOn(t, u)
  PROVE  GoesOn(s, u)
<1>1. Len(s.frames) \in Nat /\ Len(t.frames) \in Nat /\ Len(u.frames) \in Nat
  BY CountFrames DEF GoesOn
<1>2. Len(s.frames) <= Len(t.frames) /\ Len(t.frames) <= Len(u.frames)
  BY DEF GoesOn, Remembers
<1>3. \A k \in 1..Len(s.frames) : k \in 1..Len(t.frames)
  BY <1>1, <1>2
<1>4. \A k \in 1..Len(s.frames) : u.frames[k] = s.frames[k]
  BY <1>3 DEF GoesOn, Remembers
<1>5. ASSUME NEW l \in Lanes, AffectedAfter(t.frames, Len(s.frames), l)
      PROVE  AffectedAfter(u.frames, Len(s.frames), l)
  <2>1. PICK k \in (Len(s.frames) + 1)..Len(t.frames) : t.frames[k].lane = l /\ t.frames[k].affected
    BY <1>5 DEF AffectedAfter
  <2>2. k \in 1..Len(t.frames) /\ k \in (Len(s.frames) + 1)..Len(u.frames)
    BY <1>1, <1>2
  <2>3. u.frames[k] = t.frames[k]
    BY <2>2 DEF GoesOn, Remembers
  <2> QED BY <2>1, <2>2, <2>3 DEF AffectedAfter
<1>6. ASSUME NEW l \in Lanes, AffectedAfter(u.frames, Len(t.frames), l)
      PROVE  AffectedAfter(u.frames, Len(s.frames), l)
  <2>1. PICK k \in (Len(t.frames) + 1)..Len(u.frames) : u.frames[k].lane = l /\ u.frames[k].affected
    BY <1>6 DEF AffectedAfter
  <2>2. k \in (Len(s.frames) + 1)..Len(u.frames)
    BY <1>1, <1>2
  <2> QED BY <2>1, <2>2 DEF AffectedAfter
<1>7. ASSUME NEW l \in Lanes, FlaggedLane(s.lanes[l])
      PROVE  FlaggedLane(u.lanes[l]) \/ AffectedAfter(u.frames, Len(s.frames), l)
  BY <1>5, <1>6, <1>7 DEF GoesOn, Remembers
<1> QED BY <1>1, <1>2, <1>4, <1>7 DEF GoesOn, Remembers

(* A method that changes one lane and emits nothing.                         *)
LEMMA LaneGoesOn ==
  ASSUME NEW s, Sound(s), NEW l \in Lanes, NEW lane, SoundLane(lane),
         FlaggedLane(s.lanes[l]) => FlaggedLane(lane),
         NEW t, Became(s, t, l, lane, s.frames)
  PROVE  GoesOn(s, t)
<1>1. Sound(t)
  BY DEF Sound, Became
<1>2. t.frames = s.frames /\ Len(s.frames) \in Nat
  BY CountFrames DEF Became
<1>3. \A m \in Lanes : FlaggedLane(s.lanes[m]) => FlaggedLane(t.lanes[m])
  BY DEF Became
<1> QED BY <1>1, <1>2, <1>3 DEF GoesOn, Remembers

(* One that changes one lane and emits a frame of it, which answers for the  *)
(* loss that the lane forgets.                                               *)
LEMMA FrameGoesOn ==
  ASSUME NEW s, Sound(s), NEW l \in Lanes, NEW lane, SoundLane(lane),
         NEW f \in Frame, f.lane = l,
         FlaggedLane(s.lanes[l]) => FlaggedLane(lane) \/ f.affected,
         NEW t, Became(s, t, l, lane, Append(s.frames, f))
  PROVE  GoesOn(s, t)
<1>1. Sound(t)
  BY DEF Sound, Became
<1>2. s.frames \in Seq(Frame)
  BY DEF Sound, Sessions
<1>3. /\ Len(s.frames) \in Nat /\ Len(t.frames) = Len(s.frames) + 1
      /\ \A k \in 1..Len(s.frames) : t.frames[k] = s.frames[k]
      /\ t.frames[Len(s.frames) + 1] = f
  <2> DEFINE more == Append(s.frames, f)
  <2>1. /\ Len(s.frames) \in Nat /\ Len(more) = Len(s.frames) + 1
        /\ \A k \in 1..Len(s.frames) : more[k] = s.frames[k]
        /\ more[Len(s.frames) + 1] = f
    BY <1>2
  <2>2. t.frames = more
    BY DEF Became
  <2> HIDE DEF more
  <2> QED BY <2>1, <2>2
<1>4. ASSUME NEW m \in Lanes, FlaggedLane(s.lanes[m])
      PROVE  FlaggedLane(t.lanes[m]) \/ AffectedAfter(t.frames, Len(s.frames), m)
  <2>1. CASE m # l
    BY <1>4, <2>1 DEF Became
  <2>2. CASE m = l /\ f.affected
    <3>1. Len(s.frames) + 1 \in (Len(s.frames) + 1)..Len(t.frames)
      BY <1>3
    <3> QED BY <1>3, <2>2, <3>1 DEF AffectedAfter
  <2>3. CASE m = l /\ ~f.affected
    BY <1>4, <2>3 DEF Became
  <2> QED BY <2>1, <2>2, <2>3
<1> QED BY <1>1, <1>3, <1>4 DEF GoesOn, Remembers

-----------------------------------------------------------------------------
(* Each method of the capture keeps the flags or answers them.               *)

LEMMA IdleSound == SoundLane(Idle) /\ ~FlaggedLane(Idle)
BY DEF Idle, SoundLane, FlaggedLane

LEMMA CloseGoesOn ==
  ASSUME NEW s, Sound(s), NEW l \in Lanes, NEW status \in Statuses,
         NEW pieces \in Seq(Place), NEW affected \in BOOLEAN,
         FlaggedLane(s.lanes[l]) => affected,
         NEW u, u = Close(s, l, status, pieces, affected)
  PROVE  GoesOn(s, u) /\ ~u.lanes[l].inside /\ ~FlaggedLane(u.lanes[l])
<1> DEFINE f == [lane |-> l, status |-> status, pieces |-> pieces, affected |-> affected]
<1>1. f \in Frame /\ f.lane = l /\ f.affected = affected
  BY DEF Frame
<1>2. Became(s, u, l, Idle, Append(s.frames, f))
  BY Closed DEF Sound
<1> HIDE DEF f
<1>3. GoesOn(s, u)
  BY <1>1, <1>2, IdleSound, FrameGoesOn
<1>4. u.lanes[l] = Idle
  BY <1>2 DEF Became
<1> QED BY <1>3, <1>4, IdleSound, IdleLane

LEMMA InterruptGoesOn ==
  ASSUME NEW s, Sound(s), NEW l \in Lanes, NEW t, t = Interrupt(s, l)
  PROVE  GoesOn(s, t) /\ ~t.lanes[l].inside
<1>1. CASE ~s.lanes[l].inside
  BY <1>1, RemembersItself DEF Interrupt
<1>2. CASE s.lanes[l].inside
  <2>1. PICK status, affected : status = "malformed" /\ affected = s.lanes[l].lost
    OBVIOUS
  <2>2. status \in Statuses /\ affected \in BOOLEAN /\ s.lanes[l].pieces \in Seq(Place)
    BY <2>1, StatusesKnown, LaneKnown DEF Sound
  <2>3. t = Close(s, l, status, s.lanes[l].pieces, affected)
    BY <1>2, <2>1 DEF Interrupt
  <2>4. FlaggedLane(s.lanes[l]) => affected
    BY <1>2, <2>1 DEF Sound, SoundLane, FlaggedLane
  <2> QED BY <2>2, <2>3, <2>4, CloseGoesOn
<1> QED BY <1>1, <1>2

LEMMA StartFrameGoesOn ==
  ASSUME NEW s, Sound(s), NEW l \in Lanes, NEW at \in Place, NEW u, u = StartFrame(s, l, at)
  PROVE  GoesOn(s, u)
<1>1. PICK t : t = Interrupt(s, l)
  OBVIOUS
<1>2. GoesOn(s, t) /\ ~t.lanes[l].inside
  BY <1>1, InterruptGoesOn
<1>3. t \in Sessions /\ SoundLane(t.lanes[l]) /\ Sound(t)
  BY <1>2 DEF GoesOn, Sound
<1> DEFINE lane == Opened(t.lanes[l], at)
<1>4. lane \in LaneState
  <2>1. t.lanes[l].pending \in BOOLEAN
    BY <1>3, LaneKnown
  <2>2. <<at>> \in Seq(Place)
    OBVIOUS
  <2> QED BY <2>1, <2>2 DEF Opened, LaneState
<1>5. SoundLane(lane) /\ (FlaggedLane(t.lanes[l]) => FlaggedLane(lane))
  BY <1>2, <1>3 DEF Opened, SoundLane, FlaggedLane
<1>6. u = [t EXCEPT !.lanes[l] = lane]
  BY <1>1, <1>3 DEF StartFrame
<1> HIDE DEF lane
<1>7. Became(t, u, l, lane, t.frames)
  BY <1>3, <1>4, <1>6, LaneSet
<1>8. GoesOn(t, u)
  BY <1>3, <1>5, <1>7, LaneGoesOn
<1> QED BY <1>2, <1>8, RemembersOn

LEMMA ExtendGoesOn ==
  ASSUME NEW s, Sound(s), NEW l \in Lanes, NEW at \in Place, NEW u, u = Extend(s, l, at)
  PROVE  GoesOn(s, u)
<1> DEFINE old == s.lanes[l]
           lane == [old EXCEPT !.pieces = Append(@, at)]
<1>1. s \in Sessions /\ old \in LaneState /\ old.pieces \in Seq(Place) /\ SoundLane(old)
  BY LaneKnown DEF Sound
<1>2. u = [s EXCEPT !.lanes[l] = lane]
  BY <1>1 DEF Extend, Sessions
<1> HIDE DEF old
<1>3. Append(old.pieces, at) \in Seq(Place)
  BY <1>1
<1>4. /\ lane \in LaneState /\ lane.lost = old.lost /\ lane.pending = old.pending
      /\ lane.inside = old.inside
  BY <1>1, <1>3 DEF LaneState
<1> HIDE DEF lane
<1>5. Became(s, u, l, lane, s.frames)
  BY <1>1, <1>2, <1>4, LaneSet
<1>6. SoundLane(lane) /\ (FlaggedLane(s.lanes[l]) => FlaggedLane(lane))
  BY <1>1, <1>4 DEF SoundLane, FlaggedLane, old
<1> QED BY <1>5, <1>6, LaneGoesOn

(* A piece outside any frame: what is emitted for it answers for the lane,   *)
(* or leaves the lane as it is.                                              *)
StrayEnds(s, v, u, l, affected) ==
  \/ u = v
  \/ affected = s.lanes[l].pending /\ u = [v EXCEPT !.lanes[l].pending = FALSE]

LEMMA StrayGoesOn ==
  ASSUME NEW s, Sound(s), NEW l \in Lanes, ~s.lanes[l].inside, NEW status \in Statuses,
         NEW pieces \in Seq(Place), NEW affected \in BOOLEAN,
         NEW v, v = Emit(s, l, status, pieces, affected),
         NEW u, StrayEnds(s, v, u, l, affected)
  PROVE  GoesOn(s, u)
<1> DEFINE f == [lane |-> l, status |-> status, pieces |-> pieces, affected |-> affected]
           old == s.lanes[l]
           lane == [old EXCEPT !.pending = FALSE]
<1>1. f \in Frame /\ f.lane = l /\ f.affected = affected
  BY DEF Frame
<1>2. s \in Sessions /\ old \in LaneState /\ SoundLane(old)
  BY LaneKnown DEF Sound
<1>3. v \in Sessions /\ v.receiving = s.receiving /\ v.lanes = s.lanes
      /\ v.frames = Append(s.frames, f)
  BY <1>2, Emitted
<1>4. u = v \/ (affected = old.pending /\ u = [v EXCEPT !.lanes[l] = lane])
  BY <1>3 DEF Sessions, StrayEnds
<1>5. ~old.inside /\ ~old.lost
  BY <1>2 DEF SoundLane
<1> HIDE DEF f
<1>6. CASE u = v
  <2>1. Became(s, u, l, old, Append(s.frames, f))
    BY <1>3, <1>6 DEF Became
  <2>2. FlaggedLane(s.lanes[l]) => FlaggedLane(old)
    OBVIOUS
  <2> HIDE DEF old
  <2> QED BY <1>1, <1>2, <2>1, <2>2, FrameGoesOn
<1>7. CASE affected = old.pending /\ u = [v EXCEPT !.lanes[l] = lane]
  <2>1. FlaggedLane(s.lanes[l]) => affected
    BY <1>5, <1>7 DEF FlaggedLane
  <2> HIDE DEF old
  <2>2. lane \in LaneState /\ SoundLane(lane)
    BY <1>2, <1>5 DEF LaneState, SoundLane
  <2> HIDE DEF lane
  <2>3. Became(v, u, l, lane, v.frames)
    BY <1>3, <1>7, <2>2, LaneSet
  <2>4. Became(s, u, l, lane, Append(s.frames, f))
    BY <1>3, <2>3 DEF Became
  <2> QED BY <1>1, <2>1, <2>2, <2>4, FrameGoesOn
<1> QED BY <1>4, <1>6, <1>7

LEMMA ByteGoesOn ==
  ASSUME NEW s, Sound(s), NEW kind \in ByteKinds, NEW at \in Place,
         NEW u, u = ConsumeByte(s, kind, at)
  PROVE  GoesOn(s, u)
<1> DEFINE lane == s.lanes[Midi1]
           all == Append(lane.pieces, at)
<1>1. Midi1 \in Lanes /\ s \in Sessions /\ SoundLane(lane)
  BY LanesKnown DEF Sound
<1>2. /\ lane.lost \in BOOLEAN /\ lane.inside \in BOOLEAN /\ lane.pieces \in Seq(Place)
      /\ all \in Seq(Place)
  BY <1>1, LaneKnown
<1>3. lane.inside => (FlaggedLane(lane) => lane.lost)
  BY <1>1 DEF SoundLane, FlaggedLane
<1>4. CASE kind = "realtime"
  BY <1>4, RemembersItself DEF ConsumeByte
<1>5. CASE kind = "start"
  <2>1. u = StartFrame(s, Midi1, at)
    BY <1>5 DEF ConsumeByte
  <2> QED BY <1>1, <2>1, StartFrameGoesOn
<1>6. CASE kind \in {"data", "end", "status"} /\ ~lane.inside
  <2>1. PICK status, affected, pieces :
          status = "malformed" /\ affected = FALSE /\ pieces = <<at>>
    OBVIOUS
  <2>2. u = Emit(s, Midi1, status, pieces, affected)
    BY <1>6, <2>1 DEF ConsumeByte
  <2>3. <<at>> \in Seq(Place)
    OBVIOUS
  <2>4. status \in Statuses /\ affected \in BOOLEAN /\ pieces \in Seq(Place)
    BY <2>1, <2>3, StatusesKnown
  <2>5. StrayEnds(s, u, u, Midi1, affected)
    BY DEF StrayEnds
  <2> QED BY <1>1, <1>6, <2>2, <2>4, <2>5, StrayGoesOn
<1>7. CASE kind = "data" /\ lane.inside
  <2>1. u = Extend(s, Midi1, at)
    BY <1>7 DEF ConsumeByte
  <2> QED BY <1>1, <2>1, ExtendGoesOn
<1>8. CASE kind \in {"end", "status"} /\ lane.inside
  <2>1. PICK status, affected :
          /\ affected = lane.lost
          /\ status = IF kind = "end" THEN Judged("complete", lane.lost) ELSE "malformed"
    OBVIOUS
  <2>2. u = Close(s, Midi1, status, all, affected)
    BY <1>8, <2>1 DEF ConsumeByte
  <2>3. status \in Statuses /\ affected \in BOOLEAN
    BY <1>2, <2>1, StatusesKnown DEF Judged
  <2> HIDE DEF all
  <2>4. FlaggedLane(s.lanes[Midi1]) => affected
    BY <1>3, <1>8, <2>1
  <2> QED BY <1>1, <1>2, <2>2, <2>3, <2>4, CloseGoesOn
<1> QED BY <1>2, <1>4, <1>5, <1>6, <1>7, <1>8 DEF ByteKinds

LEMMA PacketGoesOn ==
  ASSUME NEW s, Sound(s), NEW g \in Lanes, NEW kind \in PacketKinds, NEW at \in Place,
         NEW u, u = ConsumePacket(s, g, kind, at)
  PROVE  GoesOn(s, u)
<1> DEFINE lane == s.lanes[g]
           all == Append(lane.pieces, at)
<1>1. s \in Sessions /\ SoundLane(lane)
  BY DEF Sound
<1>2. /\ lane.lost \in BOOLEAN /\ lane.inside \in BOOLEAN /\ lane.pending \in BOOLEAN
      /\ lane.pieces \in Seq(Place) /\ all \in Seq(Place)
  BY <1>1, LaneKnown
<1>3. <<at>> \in Seq(Place)
  OBVIOUS
<1>4. CASE kind = "other"
  BY <1>4, RemembersItself DEF ConsumePacket
<1>5. CASE kind = "invalid"
  <2>1. PICK status, affected : status = "malformed" /\ affected = (lane.lost \/ lane.pending)
    OBVIOUS
  <2>2. u = Close(s, g, status, lane.pieces, affected)
    BY <1>5, <2>1 DEF ConsumePacket
  <2>3. /\ status \in Statuses /\ affected \in BOOLEAN
        /\ FlaggedLane(s.lanes[g]) => affected
    BY <1>2, <2>1, StatusesKnown DEF FlaggedLane
  <2> QED BY <1>2, <2>2, <2>3, CloseGoesOn
<1>6. CASE kind = "complete"
  <2>1. PICK t, status, affected, pieces, v :
          /\ t = Interrupt(s, g) /\ affected = t.lanes[g].pending /\ pieces = <<at>>
          /\ status = Judged("complete", affected)
          /\ v = Emit(t, g, status, pieces, affected)
    OBVIOUS
  <2>2. u = [v EXCEPT !.lanes[g].pending = FALSE]
    BY <1>6, <2>1 DEF ConsumePacket, ConsumePacketAlone
  <2>3. GoesOn(s, t) /\ ~t.lanes[g].inside /\ Sound(t)
    BY <2>1, InterruptGoesOn DEF GoesOn
  <2>4. affected \in BOOLEAN
    BY <2>1, <2>3, LaneKnown DEF Sound
  <2>5. status \in Statuses /\ pieces \in Seq(Place)
    BY <1>3, <2>1, <2>4, StatusesKnown DEF Judged
  <2>6. StrayEnds(t, v, u, g, affected)
    BY <2>1, <2>2 DEF StrayEnds
  <2>7. GoesOn(t, u)
    BY <2>1, <2>3, <2>4, <2>5, <2>6, StrayGoesOn
  <2> QED BY <2>3, <2>7, RemembersOn
<1>7. CASE kind = "start"
  <2>1. u = StartFrame(s, g, at)
    BY <1>7 DEF ConsumePacket
  <2> QED BY <2>1, StartFrameGoesOn
<1>8. CASE kind \in {"continuation", "end"} /\ ~lane.inside
  <2>1. PICK status, affected, pieces, v :
          /\ status = "malformed" /\ affected = s.lanes[g].pending /\ pieces = <<at>>
          /\ v = Emit(s, g, status, pieces, affected)
    OBVIOUS
  <2>2. u = [v EXCEPT !.lanes[g].pending = FALSE]
    BY <1>8, <2>1 DEF ConsumePacket, ConsumePacketStray
  <2>3. status \in Statuses /\ affected \in BOOLEAN /\ pieces \in Seq(Place)
    BY <1>2, <1>3, <2>1, StatusesKnown
  <2>4. StrayEnds(s, v, u, g, affected)
    BY <2>1, <2>2 DEF StrayEnds
  <2> QED BY <1>8, <2>1, <2>3, <2>4, StrayGoesOn
<1>9. CASE kind = "continuation" /\ lane.inside
  <2>1. u = Extend(s, g, at)
    BY <1>9 DEF ConsumePacket
  <2> QED BY <2>1, ExtendGoesOn
<1>10. CASE kind = "end" /\ lane.inside
  <2>1. PICK status, affected : affected = lane.lost /\ status = Judged("complete", lane.lost)
    OBVIOUS
  <2>2. u = Close(s, g, status, all, affected)
    BY <1>10, <2>1 DEF ConsumePacket
  <2>3. status \in Statuses /\ affected \in BOOLEAN
    BY <1>2, <2>1, StatusesKnown DEF Judged
  <2> HIDE DEF all
  <2>4. FlaggedLane(s.lanes[g]) => affected
    BY <1>1, <1>10, <2>1 DEF SoundLane, FlaggedLane
  <2> QED BY <1>2, <2>2, <2>3, <2>4, CloseGoesOn
<1> QED BY <1>2, <1>4, <1>5, <1>6, <1>7, <1>8, <1>9, <1>10 DEF PacketKinds

LEMMA PieceGoesOn ==
  ASSUME NEW stream, IsStream(stream), NEW e \in DOMAIN stream, stream[e].type # "loss",
         NEW k \in 1..Len(stream[e].data), NEW s, Sound(s),
         NEW u, u = ConsumePiece(s, stream[e], k)
  PROVE  GoesOn(s, u)
<1>1. /\ stream[e].seq = e /\ stream[e].type \in {"midi1", "ump"}
      /\ stream[e].type = "midi1" => stream[e].data[k].kind \in ByteKinds
      /\ stream[e].type = "ump" =>
           stream[e].data[k].lane \in Lanes /\ stream[e].data[k].kind \in PacketKinds
  BY DataKnown, LanesKnown
<1>2. PICK at : at = <<e, k>>
  OBVIOUS
<1>3. at \in Place
  BY <1>2, DataKnown DEF Place
<1>4. CASE stream[e].type = "midi1"
  <2>1. u = ConsumeByte(s, stream[e].data[k].kind, at)
    BY <1>1, <1>2, <1>4 DEF ConsumePiece
  <2> QED BY <1>1, <1>3, <1>4, <2>1, ByteGoesOn
<1>5. CASE stream[e].type = "ump"
  <2>1. u = ConsumePacket(s, stream[e].data[k].lane, stream[e].data[k].kind, at)
    BY <1>1, <1>2, <1>5 DEF ConsumePiece
  <2> QED BY <1>1, <1>3, <1>5, <2>1, PacketGoesOn
<1> QED BY <1>1, <1>4, <1>5

LEMMA DataGoesOn ==
  ASSUME NEW stream, IsStream(stream), NEW e \in DOMAIN stream, stream[e].type # "loss",
         NEW s, Sound(s), NEW u, u = ConsumeData(s, stream[e])
  PROVE  GoesOn(s, u)
<1> DEFINE N == Len(stream[e].data)
           after[i \in 0..Len(stream[e].data)] ==
             IF i = 0 THEN s ELSE ConsumePiece(after[i - 1], stream[e], i)
<1>1. N \in Nat
  BY DataKnown
<1>2. u = after[Len(stream[e].data)]
  BY DEF ConsumeData
<1>3. after = [i \in 0..Len(stream[e].data) |->
                 IF i = 0 THEN s ELSE ConsumePiece(after[i - 1], stream[e], i)]
  <2>1. PICK what : what = "consume"
    OBVIOUS
  <2>2. PICK f : Doing(what, stream[e], s, Len(stream[e].data), f)
    BY <1>1, DoingExists
  <2>3. f = [i \in 0..Len(stream[e].data) |->
               IF i = 0 THEN s ELSE ConsumePiece(f[i - 1], stream[e], i)]
    BY <2>1, <2>2 DEF Doing, Done
  <2>4. \E g : g = [i \in 0..Len(stream[e].data) |->
                      IF i = 0 THEN s ELSE ConsumePiece(g[i - 1], stream[e], i)]
    BY <2>3
  <2> QED BY <2>4, Zenon
<1> HIDE DEF after
<1>4. after[0] = s /\ \A i \in 1..N : after[i] = ConsumePiece(after[i - 1], stream[e], i)
  <2>1. 0 \in 0..N /\ \A i \in 1..N : i \in 0..N /\ i # 0
    BY <1>1
  <2>2. after[0] = s
    BY <1>3, <2>1
  <2>3. \A i \in 1..N : after[i] = ConsumePiece(after[i - 1], stream[e], i)
    BY <1>3, <2>1
  <2> QED BY <2>2, <2>3
<1> DEFINE fine == [i \in 0..N |-> IF GoesOn(s, after[i]) THEN TRUE ELSE FALSE]
<1>5. ASSUME NEW i \in 0..N, i < N, GoesOn(s, after[i]) PROVE GoesOn(s, after[i + 1])
  <2>1. i + 1 \in 1..N /\ (i + 1) - 1 = i
    BY <1>1, <1>5
  <2>2. after[i + 1] = ConsumePiece(after[i], stream[e], i + 1)
    BY <1>4, <2>1
  <2>3. GoesOn(after[i], after[i + 1])
    BY <1>5, <2>1, <2>2, PieceGoesOn DEF GoesOn
  <2> QED BY <1>5, <2>3, RemembersOn
<1>6. fine[0] = TRUE
  BY <1>1, <1>4, RemembersItself
<1>7. \A i \in 0..N : i < N /\ fine[i] = TRUE => fine[i + 1] = TRUE
  BY <1>1, <1>5
<1>8. \A i \in 0..N : fine[i] = TRUE
  <2> HIDE DEF fine
  <2> QED BY <1>1, <1>6, <1>7, Upward
<1>9. N \in 0..N
  BY <1>1
<1>10. fine[N] = TRUE /\ fine[N] = IF GoesOn(s, after[N]) THEN TRUE ELSE FALSE
  BY <1>8, <1>9
<1> QED BY <1>2, <1>10

(* A loss raises the flag of every lane it is about. *)
LEMMA LossGoesOn ==
  ASSUME NEW s, Sound(s), NEW T, NEW u, u = NotifyLoss(s, T)
  PROVE  GoesOn(s, u) /\ \A l \in Lanes \cap T : FlaggedLane(u.lanes[l])
<1>1. s \in Sessions
  BY DEF Sound
<1>2. \A l \in Lanes :
        u.lanes[l] = IF l \notin T THEN s.lanes[l]
                     ELSE IF s.lanes[l].inside THEN [s.lanes[l] EXCEPT !.lost = TRUE]
                     ELSE [s.lanes[l] EXCEPT !.pending = TRUE]
  BY <1>1 DEF NotifyLoss, Sessions
<1>3. /\ u.receiving = s.receiving /\ u.frames = s.frames
      /\ u = [receiving |-> u.receiving, lanes |-> u.lanes, frames |-> u.frames]
      /\ u.lanes = [l \in Lanes |-> u.lanes[l]]
  BY <1>1 DEF NotifyLoss, Sessions
<1>4. ASSUME NEW l \in Lanes
      PROVE  /\ u.lanes[l] \in LaneState /\ SoundLane(u.lanes[l])
             /\ FlaggedLane(s.lanes[l]) => FlaggedLane(u.lanes[l])
             /\ l \in T => FlaggedLane(u.lanes[l])
  <2>1. s.lanes[l] \in LaneState /\ SoundLane(s.lanes[l])
    BY <1>1, LaneKnown DEF Sound
  <2>2. CASE l \notin T
    BY <1>2, <2>1, <2>2
  <2>3. CASE l \in T /\ s.lanes[l].inside
    <3>1. u.lanes[l] = [s.lanes[l] EXCEPT !.lost = TRUE]
      BY <1>2, <2>3
    <3> QED BY <2>1, <2>3, <3>1 DEF LaneState, SoundLane, FlaggedLane
  <2>4. CASE l \in T /\ ~s.lanes[l].inside
    <3>1. u.lanes[l] = [s.lanes[l] EXCEPT !.pending = TRUE]
      BY <1>2, <2>4
    <3> QED BY <2>1, <2>4, <3>1 DEF LaneState, SoundLane, FlaggedLane
  <2> QED BY <2>2, <2>3, <2>4
<1>5. u \in Sessions
  <2>1. u.lanes \in [Lanes -> LaneState]
    BY <1>3, <1>4
  <2>2. u.receiving \in BOOLEAN /\ u.frames \in Seq(Frame)
    BY <1>1, <1>3 DEF Sessions
  <2> QED BY <1>3, <2>1, <2>2 DEF Sessions
<1>6. Len(u.frames) \in Nat /\ Sound(u)
  BY <1>3, <1>4, <1>5, CountFrames DEF Sound
<1> QED BY <1>3, <1>4, <1>6 DEF GoesOn, Remembers

(* finish_receive(): every lane that has a flag emits a frame that is marked. *)
LEMMA FinishLaneGoesOn ==
  ASSUME NEW s, Sound(s), NEW l \in Lanes, NEW u, u = FinishLane(s, l)
  PROVE  /\ GoesOn(s, u) /\ ~FlaggedLane(u.lanes[l])
         /\ \A m \in Lanes : ~FlaggedLane(s.lanes[m]) => ~FlaggedLane(u.lanes[m])
<1> DEFINE lane == s.lanes[l]
<1>1. s \in Sessions /\ SoundLane(lane)
  BY DEF Sound
<1>2. lane.lost \in BOOLEAN /\ lane.inside \in BOOLEAN /\ lane.pieces \in Seq(Place)
  BY <1>1, LaneKnown
<1>3. ASSUME NEW status \in Statuses, NEW pieces \in Seq(Place), NEW affected \in BOOLEAN,
             FlaggedLane(lane) => affected, u = Close(s, l, status, pieces, affected)
      PROVE  /\ GoesOn(s, u) /\ ~FlaggedLane(u.lanes[l])
             /\ \A m \in Lanes : ~FlaggedLane(s.lanes[m]) => ~FlaggedLane(u.lanes[m])
  <2>1. GoesOn(s, u) /\ ~FlaggedLane(u.lanes[l])
    BY <1>3, CloseGoesOn
  <2>2. \E frames : Became(s, u, l, Idle, frames)
    BY <1>1, <1>3, Closed
  <2>3. \A m \in Lanes \ {l} : u.lanes[m] = s.lanes[m]
    BY <2>2 DEF Became
  <2> QED BY <2>1, <2>3
<1>4. CASE lane.inside
  <2>1. PICK status, affected : status = Judged("incomplete", lane.lost) /\ affected = lane.lost
    OBVIOUS
  <2>2. status \in Statuses /\ affected \in BOOLEAN
    BY <1>2, <2>1, StatusesKnown DEF Judged
  <2>3. u = Close(s, l, status, lane.pieces, affected)
    BY <1>4, <2>1 DEF FinishLane
  <2>4. FlaggedLane(lane) => affected
    BY <1>1, <1>4, <2>1 DEF SoundLane, FlaggedLane
  <2> QED BY <1>2, <1>3, <2>2, <2>3, <2>4
<1>5. CASE ~lane.inside /\ lane.pending
  <2>1. PICK status, pieces, affected :
          status = "malformed" /\ pieces = <<>> /\ affected = TRUE
    OBVIOUS
  <2>2. status \in Statuses /\ affected \in BOOLEAN
    BY <2>1, StatusesKnown
  <2>3. pieces \in Seq(Place) /\ (FlaggedLane(lane) => affected)
    BY <2>1
  <2>4. u = Close(s, l, status, pieces, affected)
    BY <1>5, <2>1 DEF FinishLane
  <2> QED BY <1>3, <2>2, <2>3, <2>4
<1>6. CASE ~lane.inside /\ ~lane.pending
  <2>1. u = s
    BY <1>6 DEF FinishLane
  <2>2. ~FlaggedLane(lane)
    BY <1>1, <1>6 DEF SoundLane, FlaggedLane
  <2> QED BY <2>1, <2>2, RemembersItself
<1> QED BY <1>4, <1>5, <1>6

LEMMA FinishGoesOn ==
  ASSUME NEW s, Sound(s), s.receiving, NEW u, u = FinishReceive(s)
  PROVE  GoesOn(s, u) /\ \A l \in Lanes : ~FlaggedLane(u.lanes[l])
<1> DEFINE N == Len(LaneOrder)
           finished[i \in 0..Len(LaneOrder)] ==
             IF i = 0 THEN s ELSE FinishLane(finished[i - 1], LaneOrder[i])
<1>1. N \in Nat /\ \A i \in 1..N : LaneOrder[i] \in Lanes
  BY LanesKnown
<1>2. u = [finished[Len(LaneOrder)] EXCEPT !.receiving = FALSE]
  BY DEF FinishReceive
<1>3. finished = [i \in 0..Len(LaneOrder) |->
                    IF i = 0 THEN s ELSE FinishLane(finished[i - 1], LaneOrder[i])]
  <2>1. PICK what : what = "finish"
    OBVIOUS
  <2>2. PICK f : Doing(what, s, s, Len(LaneOrder), f)
    BY <1>1, DoingExists
  <2>3. f = [i \in 0..Len(LaneOrder) |->
               IF i = 0 THEN s ELSE FinishLane(f[i - 1], LaneOrder[i])]
    BY <2>1, <2>2 DEF Doing, Done
  <2>4. \E g : g = [i \in 0..Len(LaneOrder) |->
                      IF i = 0 THEN s ELSE FinishLane(g[i - 1], LaneOrder[i])]
    BY <2>3
  <2> QED BY <2>4, Zenon
<1> HIDE DEF finished
<1>4. finished[0] = s /\ \A i \in 1..N : finished[i] = FinishLane(finished[i - 1], LaneOrder[i])
  <2>1. 0 \in 0..N /\ \A i \in 1..N : i \in 0..N /\ i # 0
    BY <1>1
  <2>2. finished[0] = s
    BY <1>3, <2>1
  <2>3. \A i \in 1..N : finished[i] = FinishLane(finished[i - 1], LaneOrder[i])
    BY <1>3, <2>1
  <2> QED BY <2>2, <2>3
<1> DEFINE Fine(i) == /\ GoesOn(s, finished[i])
                      /\ \A j \in 1..i : ~FlaggedLane(finished[i].lanes[LaneOrder[j]])
           fine == [i \in 0..N |-> IF Fine(i) THEN TRUE ELSE FALSE]
<1>5. Fine(0)
  BY <1>4, RemembersItself
<1>6. ASSUME NEW i \in 0..N, i < N, Fine(i) PROVE Fine(i + 1)
  <2>1. i + 1 \in 1..N /\ (i + 1) - 1 = i /\ i \in Nat
    BY <1>1, <1>6
  <2>2. finished[i + 1] = FinishLane(finished[i], LaneOrder[i + 1])
    BY <1>4, <2>1
  <2>3. /\ GoesOn(finished[i], finished[i + 1])
        /\ ~FlaggedLane(finished[i + 1].lanes[LaneOrder[i + 1]])
        /\ \A m \in Lanes : ~FlaggedLane(finished[i].lanes[m]) => ~FlaggedLane(finished[i + 1].lanes[m])
    <3>1. Sound(finished[i]) /\ LaneOrder[i + 1] \in Lanes
      BY <1>1, <1>6, <2>1 DEF GoesOn
    <3> QED BY <2>2, <3>1, FinishLaneGoesOn
  <2>4. GoesOn(s, finished[i + 1])
    BY <1>6, <2>3, RemembersOn
  <2>5. \A j \in 1..i : LaneOrder[j] \in Lanes
    BY <1>1, <2>1
  <2>6. \A j \in 1..i : ~FlaggedLane(finished[i + 1].lanes[LaneOrder[j]])
    BY <1>6, <2>3, <2>5
  <2>7. \A j \in 1..(i + 1) : j \in 1..i \/ j = i + 1
    BY <2>1
  <2> QED BY <2>3, <2>4, <2>6, <2>7
<1>7. Fine(N)
  <2> HIDE DEF Fine
  <2>1. fine[0] = TRUE
    BY <1>1, <1>5
  <2>2. \A i \in 0..N : i < N /\ fine[i] = TRUE => fine[i + 1] = TRUE
    BY <1>1, <1>6
  <2>3. \A i \in 0..N : fine[i] = TRUE
    <3> HIDE DEF fine
    <3> QED BY <1>1, <2>1, <2>2, Upward
  <2>4. N \in 0..N
    BY <1>1
  <2>5. fine[N] = TRUE /\ fine[N] = IF Fine(N) THEN TRUE ELSE FALSE
    BY <2>3, <2>4
  <2> QED BY <2>5
<1>8. \A l \in Lanes : \E j \in 1..N : l = LaneOrder[j]
  BY LanesKnown
<1>9. PICK t : t = finished[N]
  OBVIOUS
<1>10. GoesOn(s, t) /\ \A l \in Lanes : ~FlaggedLane(t.lanes[l])
  BY <1>7, <1>8, <1>9
<1>11. t \in Sessions /\ Sound(t)
  BY <1>10 DEF GoesOn, Sound
<1>12. u = [t EXCEPT !.receiving = FALSE]
  BY <1>2, <1>9
<1>13. u \in Sessions /\ u.lanes = t.lanes /\ u.frames = t.frames
  BY <1>11, <1>12 DEF Sessions
<1> QED BY <1>10, <1>11, <1>13 DEF GoesOn, Remembers, Sound

-----------------------------------------------------------------------------
(* The inductive invariant of the capture.  What was heard is a stream, the  *)
(* frames are clean, a running capture is clean up to the event it hears     *)
(* next, and each loss is remembered or was answered.                        *)
Listening ==
  /\ feed \in Feeds
  /\ IsStream(heard)
  /\ Sound(receiver)
  /\ Kept(heard, receiver)
  /\ receiver.receiving => Clean(receiver, heard, <<Len(heard) + 1, 0>>)
  /\ before \in Seq(Nat) /\ Len(before) = Len(heard)
  /\ \A i \in 1..Len(before) : before[i] <= Len(receiver.frames)

Remembered ==
  \A i \in 1..Len(heard) : heard[i].type = "loss" =>
    \A l \in Tainted(heard[i]) :
      \/ receiver.receiving /\ FlaggedLane(receiver.lanes[l])
      \/ AffectedAfter(receiver.frames, before[i], l)

LEMMA TaintedLanes ==
  ASSUME NEW event \in Events, event.type = "loss"
  PROVE  Tainted(event) \subseteq Lanes
<1>1. event.group \in Lanes /\ event.affects \in BOOLEAN /\ event.backend \in Backends
  BY DEF Events
<1> QED BY <1>1, LanesKnown DEF Tainted, Backends

LEMMA StillReported ==
  ASSUME NEW s, Sound(s), NEW u, GoesOn(s, u), NEW n \in Nat, n <= Len(s.frames),
         NEW l \in Lanes, FlaggedLane(s.lanes[l]) \/ AffectedAfter(s.frames, n, l)
  PROVE  FlaggedLane(u.lanes[l]) \/ AffectedAfter(u.frames, n, l)
<1>1. Len(s.frames) \in Nat /\ Len(u.frames) \in Nat /\ Len(s.frames) <= Len(u.frames)
      /\ \A k \in 1..Len(s.frames) : u.frames[k] = s.frames[k]
  BY CountFrames DEF GoesOn, Remembers
<1>2. CASE AffectedAfter(s.frames, n, l)
  <2>1. PICK k \in (n + 1)..Len(s.frames) : s.frames[k].lane = l /\ s.frames[k].affected
    BY <1>2 DEF AffectedAfter
  <2>2. k \in 1..Len(s.frames) /\ k \in (n + 1)..Len(u.frames)
    BY <1>1
  <2> QED BY <1>1, <2>1, <2>2 DEF AffectedAfter
<1>3. CASE AffectedAfter(u.frames, Len(s.frames), l)
  <2>1. PICK k \in (Len(s.frames) + 1)..Len(u.frames) : u.frames[k].lane = l /\ u.frames[k].affected
    BY <1>3 DEF AffectedAfter
  <2>2. k \in (n + 1)..Len(u.frames)
    BY <1>1
  <2> QED BY <2>1, <2>2 DEF AffectedAfter
<1>4. FlaggedLane(s.lanes[l]) => FlaggedLane(u.lanes[l]) \/ AffectedAfter(u.frames, Len(s.frames), l)
  BY DEF GoesOn, Remembers
<1> QED BY <1>2, <1>3, <1>4

(* A session that has no frames and a new capture, if any. *)
LEMMA AsNew ==
  /\ NewSession.receiving = FALSE /\ NewSession.frames = <<>> /\ NewSession \in Sessions
  /\ \A l \in Lanes : NewSession.lanes[l] = Idle
<1>1. <<>> \in Seq(Frame)
  OBVIOUS
<1>2. /\ NewSession.receiving = FALSE /\ NewSession.frames = <<>>
      /\ NewSession.lanes = [l \in Lanes |-> Idle]
  BY DEF NewSession, EmptyLanes
<1>3. NewSession \in Sessions
  BY <1>1, IdleLane DEF NewSession, EmptyLanes, Sessions
<1> QED BY <1>2, <1>3

(* Nothing was heard yet. *)
LEMMA NothingHeard ==
  ASSUME feed' \in Feeds, heard' = <<>>, before' = <<>>, Sound(receiver'),
         receiver'.frames = <<>>,
         receiver'.receiving => \A l \in Lanes : ~receiver'.lanes[l].inside
  PROVE  Listening' /\ Remembered'
<1>1. <<>> \in Seq(Events) /\ <<>> \in Seq(Nat) /\ Len(<<>>) = 0
  OBVIOUS
<1>2. IsStream(heard') /\ before' \in Seq(Nat) /\ Len(heard') = 0 /\ Len(before') = 0
  BY <1>1 DEF IsStream
<1>3. FramesClean(heard', receiver'.frames)
  BY DEF FramesClean
<1>4. Kept(heard', receiver')
  BY <1>3 DEF Kept, Sound
<1>5. receiver'.receiving => Clean(receiver', heard', <<Len(heard') + 1, 0>>)
  BY <1>3 DEF Clean, LaneClean, Sound
<1> QED BY <1>2, <1>4, <1>5 DEF Listening, Remembered

LEMMA InitListening == CaptureInit => Listening /\ Remembered
<1> SUFFICES ASSUME CaptureInit PROVE Listening /\ Remembered
  OBVIOUS
<1>1. feed \in Feeds /\ heard = <<>> /\ before = <<>> /\ receiver = NewSession
  BY DEF CaptureInit
<1>2. <<>> \in Seq(Events) /\ <<>> \in Seq(Nat) /\ Len(<<>>) = 0
  OBVIOUS
<1>3. IsStream(heard) /\ before \in Seq(Nat) /\ Len(heard) = 0 /\ Len(before) = 0
  BY <1>1, <1>2 DEF IsStream
<1>4. Sound(receiver) /\ FramesClean(heard, receiver.frames) /\ ~receiver.receiving
  BY <1>1, AsNew, IdleSound DEF FramesClean, Sound
<1>5. Kept(heard, receiver)
  BY <1>4 DEF Kept, Sound
<1> QED BY <1>1, <1>3, <1>4, <1>5 DEF Listening, Remembered

LEMMA BeginListening == Listening /\ BeginCapture => Listening' /\ Remembered'
<1> SUFFICES ASSUME Listening, BeginCapture PROVE Listening' /\ Remembered'
  OBVIOUS
<1>1. /\ feed' \in Feeds /\ heard' = <<>> /\ before' = <<>>
      /\ receiver' = [NewSession EXCEPT !.receiving = TRUE]
  BY DEF Listening, BeginCapture, BeginReceive
<1>2. /\ receiver' \in Sessions /\ receiver'.frames = <<>>
      /\ \A l \in Lanes : receiver'.lanes[l] = Idle
  BY <1>1, AsNew DEF Sessions
<1> QED BY <1>1, <1>2, IdleLane, IdleSound, NothingHeard DEF Sound

LEMMA ClearListening == Listening /\ ClearCapture => Listening' /\ Remembered'
<1> SUFFICES ASSUME Listening, ClearCapture PROVE Listening' /\ Remembered'
  OBVIOUS
<1>1. /\ feed' \in Feeds /\ heard' = <<>> /\ before' = <<>> /\ ~receiver.receiving
      /\ receiver' = [receiver EXCEPT !.frames = <<>>]
  BY DEF Listening, ClearCapture, ClearDocument
<1>2. <<>> \in Seq(Frame) /\ receiver \in Sessions
  BY DEF Listening, Sound
<1>3. /\ receiver' \in Sessions /\ receiver'.frames = <<>> /\ ~receiver'.receiving
      /\ receiver'.lanes = receiver.lanes
  BY <1>1, <1>2 DEF Sessions
<1>4. Sound(receiver')
  BY <1>3 DEF Listening, Sound
<1> QED BY <1>1, <1>3, <1>4, NothingHeard

LEMMA FinishListening == Listening /\ Remembered /\ FinishCapture => Listening' /\ Remembered'
<1> SUFFICES ASSUME Listening, Remembered, FinishCapture PROVE Listening' /\ Remembered'
  OBVIOUS
<1>1. PICK s, u : s = receiver /\ u = receiver'
  OBVIOUS
<1>2. /\ s.receiving /\ u = FinishReceive(s) /\ Sound(s) /\ Kept(heard, s)
      /\ UNCHANGED <<feed, heard, before>>
  BY <1>1 DEF FinishCapture, Listening
<1>3. GoesOn(s, u) /\ \A l \in Lanes : ~FlaggedLane(u.lanes[l])
  BY <1>2, FinishGoesOn
<1>4. Kept(heard, u) /\ ~u.receiving
  BY <1>2, FinishKept
<1>5. /\ Len(s.frames) \in Nat /\ Len(u.frames) \in Nat /\ Len(s.frames) <= Len(u.frames)
      /\ Sound(u)
  BY <1>2, <1>3, CountFrames DEF GoesOn, Remembers
<1>6. before \in Seq(Nat) /\ Len(before) = Len(heard) /\ Len(heard) \in Nat
      /\ \A i \in 1..Len(before) : before[i] \in Nat /\ before[i] <= Len(s.frames)
  BY <1>1 DEF Listening
<1>7. Listening'
  BY <1>1, <1>2, <1>4, <1>5, <1>6 DEF Listening
<1>8. ASSUME NEW i \in 1..Len(heard), heard[i].type = "loss", NEW l \in Tainted(heard[i])
      PROVE  AffectedAfter(u.frames, before[i], l)
  <2>1. heard[i] \in Events
    BY DEF Listening, IsStream
  <2>2. l \in Lanes
    BY <1>8, <2>1, TaintedLanes
  <2>3. FlaggedLane(s.lanes[l]) \/ AffectedAfter(s.frames, before[i], l)
    BY <1>1, <1>8 DEF Remembered
  <2>4. before[i] \in Nat /\ before[i] <= Len(s.frames)
    BY <1>6
  <2> QED BY <1>2, <1>3, <2>2, <2>3, <2>4, StillReported
<1>9. Remembered'
  BY <1>1, <1>2, <1>8 DEF Remembered
<1> QED BY <1>7, <1>9

LEMMA HearListening ==
  ASSUME Listening, Remembered, NEW input \in feed.inputs, Hear(input)
  PROVE  Listening' /\ Remembered'
<1>1. PICK s, u, event, longer :
        /\ s = receiver /\ u = receiver' /\ event = Numbered(input, Len(heard) + 1)
        /\ longer = Append(heard, event)
  OBVIOUS
<1>2. /\ s.receiving /\ u = ConsumeEvent(s, event) /\ heard' = longer
      /\ before' = Append(before, Len(s.frames)) /\ feed' = feed
  BY <1>1 DEF Hear
<1>3. /\ IsStream(heard) /\ Sound(s) /\ Kept(heard, s)
      /\ Clean(s, heard, <<Len(heard) + 1, 0>>) /\ feed \in Feeds
  BY <1>1, <1>2 DEF Listening
<1>4. Len(heard) \in Nat /\ Len(s.frames) \in Nat
  BY <1>3, CountFrames DEF IsStream
<1>5. event \in Events /\ event.seq = Len(heard) + 1
  <2>1. input \in Events /\ Len(heard) + 1 \in Nat
    BY <1>3, <1>4, FeedsAssumption
  <2> QED BY <1>1, <2>1, NumberedKnown
<1>6. PICK e : e = Len(heard) + 1
  OBVIOUS
<1>7. /\ IsStream(longer) /\ Len(longer) = e /\ e \in DOMAIN longer /\ longer[e] = event
      /\ e \in Nat /\ \A i \in 1..Len(heard) : longer[i] = heard[i]
  <2>1. /\ IsStream(longer) /\ Len(longer) = Len(heard) + 1
        /\ Len(longer) \in DOMAIN longer /\ longer[Len(longer)] = event
    BY <1>1, <1>3, <1>5, LongerStream
  <2>2. IsSeq(heard)
    BY <1>3 DEF IsSeq, IsStream
  <2>3. \A i \in 1..Len(heard) : longer[i] = heard[i]
    BY <1>1, <2>2, AppendPlaces
  <2> QED BY <1>4, <1>6, <2>1, <2>3
<1>8. Clean(s, longer, <<e, 0>>)
  <2>1. PICK q : q = <<e, 0>>
    OBVIOUS
  <2>2. /\ IsStream(heard) /\ event \in Events /\ event.seq = Len(heard) + 1
        /\ longer = Append(heard, event) /\ Clean(s, heard, q)
    BY <1>1, <1>3, <1>5, <1>6, <2>1
  <2>3. e \in Nat /\ e <= Len(heard) + 1
    BY <1>4, <1>6
  <2>4. Clean(s, longer, q)
    BY <2>1, <2>2, <2>3, CleanLonger
  <2> QED BY <2>1, <2>4
<1>9. u = IF event.type = "loss" THEN NotifyLoss(s, Tainted(event)) ELSE ConsumeData(s, event)
  BY <1>2 DEF ConsumeEvent
<1>10. Clean(u, longer, <<e + 1, 0>>) /\ u.receiving = s.receiving
  <2>1. Covers(event, longer[e]) /\ event = longer[e]
    BY <1>7 DEF Covers
  <2> QED BY <1>7, <1>8, <1>9, <2>1, EventClean
<1>11. /\ GoesOn(s, u)
       /\ event.type = "loss" => \A l \in Lanes \cap Tainted(event) : FlaggedLane(u.lanes[l])
  <2>1. CASE event.type = "loss"
    <3>1. u = NotifyLoss(s, Tainted(event))
      BY <1>9, <2>1
    <3> QED BY <1>3, <3>1, LossGoesOn
  <2>2. CASE event.type # "loss"
    <3>1. u = ConsumeData(s, longer[e]) /\ longer[e].type # "loss"
      BY <1>7, <1>9, <2>2
    <3> QED BY <1>3, <1>7, <2>2, <3>1, DataGoesOn
  <2> QED BY <2>1, <2>2
<1>12. /\ Len(u.frames) \in Nat /\ Len(s.frames) <= Len(u.frames) /\ Sound(u)
  BY <1>11, CountFrames DEF GoesOn, Remembers
<1>13. /\ before \in Seq(Nat) /\ Len(before) = Len(heard)
       /\ \A i \in 1..Len(before) : before[i] \in Nat /\ before[i] <= Len(s.frames)
  BY <1>1 DEF Listening
<1>14. /\ before' \in Seq(Nat) /\ Len(before') = e
       /\ \A i \in 1..Len(heard) : before'[i] = before[i]
       /\ before'[e] = Len(s.frames)
  BY <1>2, <1>4, <1>6, <1>13
<1>15. \A i \in 1..e : i \in 1..Len(heard) \/ i = e
  BY <1>4, <1>6
<1>16. Listening'
  <2>1. \A i \in 1..Len(before') : before'[i] <= Len(u.frames)
    BY <1>4, <1>12, <1>13, <1>14, <1>15
  <2>2. Kept(longer, u)
    BY <1>10 DEF Clean, Kept
  <2>3. Clean(u, longer, <<Len(longer) + 1, 0>>)
    BY <1>7, <1>10
  <2> QED BY <1>1, <1>2, <1>3, <1>7, <1>12, <1>14, <2>1, <2>2, <2>3 DEF Listening
<1>17. ASSUME NEW i \in 1..e, longer[i].type = "loss", NEW l \in Tainted(longer[i])
       PROVE  FlaggedLane(u.lanes[l]) \/ AffectedAfter(u.frames, before'[i], l)
  <2>1. longer[i] \in Events
    BY <1>7 DEF IsStream
  <2>2. l \in Lanes
    BY <1>17, <2>1, TaintedLanes
  <2>3. CASE i = e
    BY <1>7, <1>11, <1>17, <2>2, <2>3
  <2>4. CASE i \in 1..Len(heard)
    <3>1. heard[i] = longer[i] /\ before'[i] = before[i] /\ before[i] \in Nat
          /\ before[i] <= Len(s.frames)
      BY <1>7, <1>13, <1>14, <2>4
    <3>2. FlaggedLane(s.lanes[l]) \/ AffectedAfter(s.frames, before[i], l)
      BY <1>1, <1>17, <2>4, <3>1 DEF Remembered
    <3> QED BY <1>3, <1>11, <2>2, <3>1, <3>2, StillReported
  <2> QED BY <1>15, <2>3, <2>4
<1>18. Remembered'
  BY <1>1, <1>2, <1>7, <1>10, <1>17 DEF Remembered
<1> QED BY <1>16, <1>18

LEMMA StepListening ==
  Listening /\ Remembered /\ [CaptureNext]_captureVars => Listening' /\ Remembered'
<1> SUFFICES ASSUME Listening, Remembered, [CaptureNext]_captureVars
             PROVE  Listening' /\ Remembered'
  OBVIOUS
<1>1. CASE BeginCapture
  BY <1>1, BeginListening
<1>2. ASSUME NEW input \in feed.inputs, Hear(input) PROVE Listening' /\ Remembered'
  BY <1>2, HearListening
<1>3. CASE FinishCapture
  BY <1>3, FinishListening
<1>4. CASE ClearCapture
  BY <1>4, ClearListening
<1>5. CASE UNCHANGED captureVars
  BY <1>5 DEF captureVars, Listening, Remembered
<1> QED BY <1>1, <1>2, <1>3, <1>4, <1>5 DEF CaptureNext

(* Whatever the wire carries and wherever the capture begins and ends: a     *)
(* frame the document calls complete was sent whole and no loss hit it.      *)
THEOREM HeardWhole == CaptureSpec => []CompleteOnesWhole
<1>1. Listening => CompleteOnesWhole
  <2> SUFFICES ASSUME Listening PROVE CompleteOnesWhole
    OBVIOUS
  <2>1. Kept(heard, receiver) /\ receiver.frames \in Seq(Frame)
    BY DEF Listening, Kept, Sessions
  <2>2. DOMAIN receiver.frames = 1..Len(receiver.frames)
    BY <2>1
  <2> QED BY <2>1, <2>2 DEF Kept, FramesClean, FrameClean, CompleteOnesWhole
<1> QED BY <1>1, InitListening, StepListening, PTL DEF CaptureSpec

(* No loss the session was told of is forgotten, also not at the end.        *)
THEOREM NoLossForgotten == CaptureSpec => []LossReported
<1>1. Listening /\ Remembered => LossReported
  <2> SUFFICES ASSUME Listening, Remembered PROVE LossReported
    OBVIOUS
  <2>1. DOMAIN heard = 1..Len(heard)
    BY DEF Listening, IsStream
  <2> QED BY <2>1 DEF Remembered, LossReported, FlaggedLane, Flagged, AffectedAfter
<1> QED BY <1>1, InitListening, StepListening, PTL DEF CaptureSpec

-----------------------------------------------------------------------------
(* WmsTransport's own queue.  What the worker holds and what is queued are   *)
(* one sequence, that grows at its end and is delivered from its beginning.  *)

LEMMA TakeFirst ==
  ASSUME NEW S, NEW q \in Seq(S), q # <<>>
  PROVE  <<Head(q)>> \o Tail(q) = q /\ Head(q) \in S /\ Tail(q) \in Seq(S)
<1>1. Head(q) \in S /\ Tail(q) \in Seq(S) /\ Len(q) \in Nat \ {0} /\ Head(q) = q[1]
  OBVIOUS
<1>2. Len(Tail(q)) = Len(q) - 1 /\ \A i \in 1..Len(Tail(q)) : Tail(q)[i] = q[i + 1]
  BY HeadTailProperties
<1> DEFINE first == <<Head(q)>>
<1>3. first \in Seq(S) /\ Len(first) = 1 /\ first[1] = q[1]
  BY <1>1
<1> HIDE DEF first
<1>4. /\ first \o Tail(q) \in Seq(S)
      /\ Len(first \o Tail(q)) = Len(first) + Len(Tail(q))
      /\ \A i \in 1..Len(first) + Len(Tail(q)) :
           (first \o Tail(q))[i] = IF i <= Len(first) THEN first[i] ELSE Tail(q)[i - Len(first)]
  BY <1>1, <1>3, ConcatProperties
<1>5. ASSUME NEW i \in 1..Len(q) PROVE (first \o Tail(q))[i] = q[i]
  <2>1. CASE i = 1
    BY <1>1, <1>2, <1>3, <1>4, <2>1
  <2>2. CASE i # 1
    <3>1. i - 1 \in 1..Len(Tail(q)) /\ ~(i <= 1) /\ (i - 1) + 1 = i
      BY <1>1, <1>2, <2>2
    <3> QED BY <1>1, <1>2, <1>3, <1>4, <3>1
  <2> QED BY <2>1, <2>2
<1>6. first \o Tail(q) = q
  <2>1. Len(first \o Tail(q)) = Len(q)
    BY <1>1, <1>2, <1>3, <1>4
  <2> QED BY <1>4, <1>5, <2>1, SeqEqual
<1> QED BY <1>1, <1>6 DEF first

LEMMA DropFirst ==
  ASSUME NEW S, NEW x \in S, NEW q \in Seq(S)
  PROVE  /\ <<x>> \o q \in Seq(S) /\ Len(q) \in Nat /\ Len(<<x>> \o q) = Len(q) + 1
         /\ (<<x>> \o q)[1] = x /\ \A i \in 1..Len(q) : (<<x>> \o q)[i + 1] = q[i]
<1> DEFINE first == <<x>>
<1>1. first \in Seq(S) /\ Len(first) = 1 /\ first[1] = x /\ Len(q) \in Nat
  OBVIOUS
<1> HIDE DEF first
<1>2. /\ first \o q \in Seq(S)
      /\ Len(first \o q) = Len(first) + Len(q)
      /\ \A i \in 1..Len(first) + Len(q) :
           (first \o q)[i] = IF i <= Len(first) THEN first[i] ELSE q[i - Len(first)]
  BY <1>1, ConcatProperties
<1>3. ASSUME NEW i \in 1..Len(q) PROVE (first \o q)[i + 1] = q[i]
  <2>1. i + 1 \in 1..Len(first) + Len(q) /\ ~(i + 1 <= Len(first)) /\ (i + 1) - Len(first) = i
    BY <1>1
  <2> QED BY <1>2, <2>1
<1>4. (first \o q)[1] = x
  BY <1>1, <1>2
<1> QED BY <1>1, <1>2, <1>3, <1>4 DEF first

LEMMA AppendLast ==
  ASSUME NEW S, NEW s \in Seq(S), NEW q \in Seq(S), NEW x \in S
  PROVE  s \o Append(q, x) = Append(s \o q, x)
<1> DEFINE more == Append(q, x)
           both == s \o q
           left == s \o more
           right == Append(both, x)
<1>1. /\ more \in Seq(S) /\ Len(q) \in Nat /\ Len(more) = Len(q) + 1 /\ more[Len(q) + 1] = x
      /\ \A i \in 1..Len(q) : more[i] = q[i]
  OBVIOUS
<1>2. /\ both \in Seq(S) /\ Len(both) = Len(s) + Len(q) /\ Len(s) \in Nat
      /\ \A i \in 1..Len(s) + Len(q) : both[i] = IF i <= Len(s) THEN s[i] ELSE q[i - Len(s)]
  BY ConcatProperties
<1> HIDE DEF more, both
<1>3. /\ left \in Seq(S) /\ Len(left) = Len(s) + Len(more)
      /\ \A i \in 1..Len(s) + Len(more) :
           left[i] = IF i <= Len(s) THEN s[i] ELSE more[i - Len(s)]
  BY <1>1, ConcatProperties
<1>4. /\ right \in Seq(S) /\ Len(right) = Len(both) + 1 /\ right[Len(both) + 1] = x
      /\ \A i \in 1..Len(both) : right[i] = both[i]
  <2>1. both \in Seq(S)
    BY <1>2
  <2>2. IsSeq(both) /\ right \in Seq(S)
    BY <2>1 DEF IsSeq
  <2> QED BY <2>2, AppendPlaces
<1> HIDE DEF left, right
<1>5. ASSUME NEW i \in 1..Len(left) PROVE left[i] = right[i]
  <2>1. CASE i <= Len(s)
    <3>1. i \in 1..Len(both) /\ i \in 1..Len(s) + Len(q) /\ i \in 1..Len(s) + Len(more)
      BY <1>1, <1>2, <1>3, <2>1
    <3>2. left[i] = s[i] /\ right[i] = both[i] /\ both[i] = s[i]
      BY <1>2, <1>3, <1>4, <2>1, <3>1
    <3> QED BY <3>2
  <2>2. CASE ~(i <= Len(s)) /\ i <= Len(s) + Len(q)
    <3>1. i - Len(s) \in 1..Len(q) /\ i \in 1..Len(s) + Len(q) /\ i \in 1..Len(both)
      BY <1>1, <1>2, <2>2
    <3>2. left[i] = more[i - Len(s)] /\ right[i] = both[i]
      BY <1>3, <1>4, <2>2, <3>1
    <3> QED BY <1>1, <1>2, <2>2, <3>1, <3>2
  <2>3. CASE i = Len(s) + Len(q) + 1
    <3>1. left[i] = more[i - Len(s)]
      BY <1>1, <1>2, <1>3, <2>3
    <3>2. i - Len(s) = Len(q) + 1 /\ i = Len(both) + 1
      BY <1>1, <1>2, <2>3
    <3> QED BY <1>1, <1>4, <3>1, <3>2
  <2>4. i \in Nat /\ i <= Len(s) + Len(q) + 1
    BY <1>1, <1>2, <1>3
  <2>5. i <= Len(s) \/ (~(i <= Len(s)) /\ i <= Len(s) + Len(q)) \/ i = Len(s) + Len(q) + 1
    <3>1. Len(s) \in Nat /\ Len(q) \in Nat
      BY <1>1, <1>2
    <3> QED BY <2>4, <3>1
  <2> QED BY <2>1, <2>2, <2>3, <2>5
<1>6. Len(left) = Len(right)
  BY <1>1, <1>2, <1>3, <1>4
<1>7. left = right
  BY <1>3, <1>4, <1>5, <1>6, SeqEqual
<1> QED BY <1>7 DEF left, right, more, both

(* The messages a callback carries. *)
LEMMA MessageKnown ==
  ASSUME NEW e \in Messages
  PROVE  /\ e \in Published /\ e.type = "ump" /\ e.backend = "wms"
         /\ e.data \in Seq([lane : Groups, kind : PacketKinds]) /\ Len(e.data) = 1
         /\ e.data[1] \in [lane : Groups, kind : PacketKinds] /\ Head(e.data) = e.data[1]
         /\ DOMAIN e.data = {1} /\ LaneOf(e) \in Groups
<1>1. e \in Events /\ e.type = "ump" /\ e.backend = "wms" /\ Len(e.data) = 1
  BY DEF Messages
<1> DEFINE R == [lane : Groups, kind : PacketKinds]
<1>2. e.data \in Seq(R)
  BY <1>1 DEF Events
<1>3. e \in Published
  BY <1>1 DEF Published
<1> DEFINE data == e.data
<1>4. data \in Seq(R) /\ Len(data) = 1
  BY <1>1, <1>2
<1> HIDE DEF R, data
<1>5. data[1] \in R /\ Head(data) = data[1] /\ DOMAIN data = {1}
  BY <1>4
<1> QED BY <1>1, <1>2, <1>3, <1>5 DEF R, data, LaneOf

LEMMA MessageNumbered ==
  ASSUME NEW x \in Messages, NEW i \in Nat
  PROVE  /\ Numbered(x, i) \in Messages /\ Numbered(x, i) \in Events
         /\ Numbered(x, i).seq = i /\ Numbered(x, i).data = x.data
<1> DEFINE D == Seq([lane : Groups, kind : PacketKinds])
           y == [x EXCEPT !.seq = i]
<1>1. x \in Events /\ x.type = "ump" /\ x.backend = "wms" /\ Len(x.data) = 1
  BY DEF Messages
<1>2. x \in [type : {"ump"}, seq : Nat, backend : Backends, data : D]
  BY <1>1 DEF Events
<1> HIDE DEF D
<1>3. y.seq = i /\ y.type = x.type /\ y.backend = x.backend /\ y.data = x.data
  BY <1>2
<1>4. y = Numbered(x, i)
  BY DEF Numbered
<1>5. Numbered(x, i) \in Events
  BY <1>1, NumberedKnown
<1> HIDE DEF y
<1> QED BY <1>1, <1>3, <1>4, <1>5 DEF Messages

(* The shape of the state.  A callback runs for the last message that came,  *)
(* and has found it to be of the route.                                      *)
Items == [number : Nat, event : Events]

CallbackKnown ==
  /\ callback.at \in {"out", "entered", "passed"}
  /\ callback.at # "out" =>
       /\ arrived > 0 /\ OnRoute(callback.event)
       /\ callback = [at |-> callback.at, event |-> Arriving[arrived]]

WmsKnown ==
  /\ arriving \in Seq(Messages) /\ arrived \in 0..Len(arriving)
  /\ CallbackKnown
  /\ received \in Seq(Items) /\ delivered \in Seq(Items)
  /\ inHand = <<>> \/ \E x \in Items : inHand = <<x>>
  /\ number \in Nat \ {0} /\ cut \in 0..number
  /\ unmarked \subseteq 1..Settled

LEMMA ArrivingKnown ==
  ASSUME arriving \in Seq(Messages)
  PROVE  /\ IsStream(Arriving) /\ DOMAIN Arriving = 1..Len(arriving) /\ Len(arriving) \in Nat
         /\ \A i \in 1..Len(arriving) :
              /\ Arriving[i] = Numbered(arriving[i], i) /\ Arriving[i] \in Messages
              /\ Arriving[i] \in Events /\ Arriving[i].seq = i
              /\ Arriving[i].data = arriving[i].data
<1>1. DOMAIN arriving = 1..Len(arriving) /\ Len(arriving) \in Nat
  OBVIOUS
<1>2. Arriving = [i \in 1..Len(arriving) |-> Numbered(arriving[i], i)]
  BY <1>1 DEF Arriving
<1>3. ASSUME NEW i \in 1..Len(arriving)
      PROVE  /\ Arriving[i] = Numbered(arriving[i], i) /\ Arriving[i] \in Messages
             /\ Arriving[i] \in Events /\ Arriving[i].seq = i
             /\ Arriving[i].data = arriving[i].data
  <2>1. arriving[i] \in Messages /\ i \in Nat
    OBVIOUS
  <2>2. Arriving[i] = Numbered(arriving[i], i)
    BY <1>2
  <2> QED BY <2>1, <2>2, MessageNumbered
<1>4. Arriving \in [1..Len(arriving) -> Events]
  BY <1>2, <1>3
<1>5. Arriving \in Seq(Events) /\ Len(Arriving) = Len(arriving)
  BY <1>1, <1>4
<1> QED BY <1>1, <1>2, <1>3, <1>5 DEF IsStream

LEMMA MarkerKnown ==
  ASSUME NEW g \in Groups
  PROVE  /\ Loss("wms", g, TRUE) \in Events /\ Loss("wms", g, TRUE).type = "loss"
         /\ Loss("wms", g, TRUE).group = g /\ Tainted(Loss("wms", g, TRUE)) = {g}
<1>1. g \in Lanes /\ g # Midi1
  BY LanesKnown
<1> DEFINE m == Loss("wms", g, TRUE)
<1>2. /\ m = [type |-> "loss", seq |-> 0, backend |-> "wms", group |-> g, affects |-> TRUE]
      /\ m.type = "loss" /\ m.group = g /\ m.affects /\ m.backend = "wms"
  BY DEF Loss
<1>3. m \in [type : {"loss"}, seq : Nat, backend : Backends, group : Lanes, affects : BOOLEAN]
  <2>1. PICK a : a = TRUE
    OBVIOUS
  <2>2. a \in BOOLEAN /\ m = [type |-> "loss", seq |-> 0, backend |-> "wms", group |-> g, affects |-> a]
    BY <1>2, <2>1
  <2> HIDE DEF m
  <2> QED BY <1>1, <2>2 DEF Backends
<1>4. m \in Events
  BY <1>3 DEF Events
<1> HIDE DEF m
<1>5. Tainted(m) = {g}
  BY <1>1, <1>2 DEF Tainted
<1> QED BY <1>2, <1>4, <1>5 DEF m

(* What is heard is a stream of messages, and a blank one has nothing for    *)
(* any lane.                                                                 *)
Blank(i) == Numbered(Packet("wms", LaneOf(arriving[i]), "other"), i)

LEMMA BlankKnown ==
  ASSUME arriving \in Seq(Messages), NEW i \in 1..Len(arriving)
  PROVE  /\ Blank(i) \in Messages /\ Blank(i).seq = i
         /\ \A l : OffsetsOf(Blank(i), l) = {}
<1>1. PICK g : g = LaneOf(arriving[i])
  OBVIOUS
<1>2. g \in Groups /\ i \in Nat
  BY <1>1, MessageKnown
<1>3. PICK data : data = <<[lane |-> g, kind |-> "other"]>>
  OBVIOUS
<1>4. /\ data \in Seq([lane : Groups, kind : PacketKinds]) /\ Len(data) = 1 /\ DOMAIN data = {1}
      /\ data[1].kind = "other"
  BY <1>2, <1>3 DEF PacketKinds
<1>5. PICK e : e = [type |-> "ump", seq |-> 0, backend |-> "wms", data |-> data]
  OBVIOUS
<1>6. e \in Messages /\ e.data = data /\ e = Packet("wms", g, "other")
  BY <1>3, <1>4, <1>5 DEF Messages, Events, Backends, Packet
<1>7. Blank(i) = Numbered(e, i)
  BY <1>1, <1>6 DEF Blank
<1>8. Blank(i) \in Messages /\ Blank(i).seq = i /\ Blank(i).data = data
  BY <1>2, <1>6, <1>7, MessageNumbered
<1>9. Blank(i).type = "ump"
  BY <1>8, MessageKnown
<1>10. \A l : OffsetsOf(Blank(i), l) = {}
  BY <1>4, <1>8, <1>9 DEF OffsetsOf
<1> QED BY <1>8, <1>10

LEMMA SettledKnown ==
  ASSUME WmsKnown
  PROVE  /\ Settled \in Nat /\ Settled <= Len(arriving) /\ Settled <= arrived
         /\ Len(arriving) \in Nat /\ arrived \in Nat
         /\ callback.at = "out" => Settled = arrived
         /\ callback.at # "out" => Settled = arrived - 1 /\ arrived > 0
<1>1. Len(arriving) \in Nat /\ arrived \in 0..Len(arriving)
  BY DEF WmsKnown
<1> QED BY <1>1 DEF WmsKnown, CallbackKnown, Settled

LEMMA HeardKnown ==
  ASSUME WmsKnown
  PROVE  /\ IsStream(Heard) /\ Len(Heard) = Settled /\ DOMAIN Heard = 1..Settled
         /\ \A i \in 1..Settled :
              /\ Heard[i] \in Messages
              /\ Heard[i] = IF i \in unmarked THEN Blank(i) ELSE Arriving[i]
<1>1. Settled \in Nat /\ Settled <= Len(arriving) /\ arriving \in Seq(Messages)
  BY SettledKnown DEF WmsKnown
<1>2. Heard = [i \in 1..Settled |-> IF i \in unmarked THEN Blank(i) ELSE Arriving[i]]
  BY DEF Heard, Blank
<1>3. ASSUME NEW i \in 1..Settled
      PROVE  /\ Heard[i] \in Messages /\ Heard[i] \in Events /\ Heard[i].seq = i
             /\ Heard[i] = IF i \in unmarked THEN Blank(i) ELSE Arriving[i]
  <2>1. i \in 1..Len(arriving)
    BY <1>1
  <2>2. Blank(i) \in Messages /\ Blank(i).seq = i
    BY <1>1, <2>1, BlankKnown
  <2>3. Arriving[i] \in Messages /\ Arriving[i].seq = i
    BY <1>1, <2>1, ArrivingKnown
  <2>4. Heard[i] = IF i \in unmarked THEN Blank(i) ELSE Arriving[i]
    BY <1>2
  <2>5. Heard[i] \in Messages /\ Heard[i].seq = i
    BY <2>2, <2>3, <2>4
  <2> QED BY <2>4, <2>5 DEF Messages
<1>4. Heard \in [1..Settled -> Events]
  BY <1>2, <1>3
<1>5. Heard \in Seq(Events) /\ Len(Heard) = Settled
  BY <1>1, <1>4
<1> QED BY <1>1, <1>2, <1>3, <1>5 DEF IsStream

LEMMA HeardSame ==
  ASSUME arriving' = arriving, Settled' = Settled, unmarked' = unmarked
  PROVE  Heard' = Heard
<1>1. Arriving' = Arriving
  BY DEF Arriving
<1> QED BY <1>1 DEF Heard, LaneOf

(* When the callback is done with a message, it is heard, or blank if it was *)
(* lost unmarked.                                                            *)
LEMMA HeardGrows ==
  ASSUME WmsKnown, arriving' = arriving, Settled' = Settled + 1, Settled + 1 <= Len(arriving),
         unmarked' = unmarked \/ unmarked' = unmarked \cup {Settled + 1},
         NEW y, y = IF Settled + 1 \in unmarked' THEN Blank(Settled + 1) ELSE Arriving[Settled + 1]
  PROVE  Heard' = Append(Heard, y) /\ y \in Messages /\ y.seq = Settled + 1
<1>1. Settled \in Nat /\ arriving \in Seq(Messages) /\ Settled + 1 \in 1..Len(arriving)
  BY SettledKnown DEF WmsKnown
<1>2. y \in Messages /\ y.seq = Settled + 1
  BY <1>1, BlankKnown, ArrivingKnown
<1>3. Arriving' = Arriving
  BY DEF Arriving
<1>4. Heard' = [i \in 1..(Settled + 1) |-> IF i \in unmarked' THEN Blank(i) ELSE Arriving[i]]
  BY <1>3 DEF Heard, Blank, LaneOf
<1>5. /\ Heard \in Seq(Events) /\ Len(Heard) = Settled
      /\ \A i \in 1..Settled : Heard[i] = IF i \in unmarked THEN Blank(i) ELSE Arriving[i]
  BY HeardKnown DEF IsStream
<1>6. \A i \in 1..Settled : (i \in unmarked' <=> i \in unmarked)
  BY <1>1
<1>7. y \in Events
  BY <1>2 DEF Messages
<1> DEFINE h == Heard
           more == Append(h, y)
<1>8. /\ more \in Seq(Events) /\ Len(more) = Settled + 1 /\ DOMAIN more = 1..(Settled + 1)
      /\ more[Settled + 1] = y /\ \A i \in 1..Settled : more[i] = h[i]
  BY <1>1, <1>5, <1>7
<1>9. ASSUME NEW i \in 1..(Settled + 1)
      PROVE  more[i] = IF i \in unmarked' THEN Blank(i) ELSE Arriving[i]
  <2> HIDE DEF h, more
  <2>1. CASE i = Settled + 1
    BY <1>8, <2>1
  <2>2. CASE i \in 1..Settled
    <3>1. more[i] = h[i] /\ (i \in unmarked' <=> i \in unmarked)
      BY <1>6, <1>8, <2>2
    <3>2. h[i] = IF i \in unmarked THEN Blank(i) ELSE Arriving[i]
      BY <1>5, <2>2 DEF h
    <3> QED BY <3>1, <3>2
  <2>3. i = Settled + 1 \/ i \in 1..Settled
    BY <1>1
  <2> QED BY <2>1, <2>2, <2>3
<1>10. more = [i \in 1..(Settled + 1) |-> more[i]]
  BY <1>8
<1> HIDE DEF more
<1>11. more = [i \in 1..(Settled + 1) |-> IF i \in unmarked' THEN Blank(i) ELSE Arriving[i]]
  BY <1>9, <1>10
<1> QED BY <1>2, <1>4, <1>11 DEF more

(* What each step does to what waits. *)
LEMMA WaitingKnown ==
  ASSUME WmsKnown
  PROVE  /\ Waiting \in Seq(Items) /\ Len(Waiting) \in Nat
         /\ inHand \in Seq(Items)
         /\ inHand = <<>> => Waiting = received
<1>1. received \in Seq(Items) /\ (inHand = <<>> \/ \E x \in Items : inHand = <<x>>)
  BY DEF WmsKnown
<1>2. inHand \in Seq(Items)
  <2>1. ASSUME NEW x \in Items, inHand = <<x>> PROVE inHand \in Seq(Items)
    BY <2>1
  <2>2. CASE inHand = <<>>
    BY <2>2
  <2> QED BY <1>1, <2>1, <2>2
<1>3. inHand \o received \in Seq(Items)
  BY <1>1, <1>2, ConcatProperties
<1>4. inHand = <<>> => inHand \o received = received
  BY <1>1, ConcatEmptySeq
<1> QED BY <1>2, <1>3, <1>4 DEF Waiting

LEMMA TakeWaits == WmsKnown /\ Take => Waiting' = Waiting
<1> SUFFICES ASSUME WmsKnown, Take PROVE Waiting' = Waiting
  OBVIOUS
<1>1. /\ received \in Seq(Items) /\ received # <<>> /\ inHand = <<>>
      /\ inHand' = <<Head(received)>> /\ received' = Tail(received)
  BY DEF WmsKnown, Take, NothingInHand
<1>2. Waiting = received
  BY <1>1, WaitingKnown
<1>3. Waiting' = inHand' \o received'
  BY DEF Waiting
<1>4. <<Head(received)>> \o Tail(received) = received
  BY <1>1, TakeFirst
<1> QED BY <1>1, <1>2, <1>3, <1>4

LEMMA DeliverFirst ==
  ASSUME WmsKnown, Deliver
  PROVE  \E x \in Items :
           /\ inHand = <<x>> /\ Waiting = <<x>> \o received /\ Waiting' = received
           /\ delivered' = Append(delivered, x)
           /\ capture' = ConsumeEvent(capture, x.event)
           /\ UNCHANGED <<callbackVars, queueVars, closeVars>>
<1>1. PICK x \in Items : inHand = <<x>>
  BY DEF WmsKnown, Deliver, NothingInHand
<1>2. /\ Head(inHand) = x /\ delivered' = Append(delivered, Head(inHand))
      /\ capture' = ConsumeEvent(capture, Head(inHand).event)
      /\ UNCHANGED <<callbackVars, queueVars, closeVars>> /\ inHand' = <<>>
  BY <1>1 DEF Deliver
<1>3. received' = received /\ received \in Seq(Items)
  BY <1>2 DEF queueVars, WmsKnown
<1>4. Waiting = <<x>> \o received /\ Waiting' = <<>> \o received
  BY <1>1, <1>2, <1>3 DEF Waiting
<1>5. <<>> \o received = received
  BY <1>3, ConcatEmptySeq
<1> QED BY <1>1, <1>2, <1>4, <1>5

LEMMA EnqueueGrows ==
  ASSUME WmsKnown, EnqueueReceived
  PROVE  /\ LaneOf(callback.event) \in Groups /\ callback.event \in Events
         /\ \/ /\ received' = received /\ Waiting' = Waiting /\ number' = number
            \/ \E event \in {callback.event, Loss("wms", LaneOf(callback.event), TRUE)} :
                 /\ Entry(event) \in Items
                 /\ received' = Append(received, Entry(event))
                 /\ Waiting' = Append(Waiting, Entry(event))
                 /\ number' = number + 1
<1>1. arriving \in Seq(Messages) /\ arrived \in 1..Len(arriving) /\ callback.event = Arriving[arrived]
  BY DEF WmsKnown, CallbackKnown, EnqueueReceived
<1>2. callback.event \in Messages /\ callback.event \in Events
  BY <1>1, ArrivingKnown
<1>3. LaneOf(callback.event) \in Groups
  BY <1>2, MessageKnown
<1> DEFINE lane == LaneOf(callback.event)
<1>4. Loss("wms", lane, TRUE) \in Events
  BY <1>3, MarkerKnown
<1>5. inHand' = inHand /\ inHand \in Seq(Items) /\ received \in Seq(Items) /\ number \in Nat
  BY WaitingKnown DEF EnqueueReceived, deliveryVars, WmsKnown
<1>6. CASE received' = received /\ number' = number
  BY <1>2, <1>3, <1>5, <1>6 DEF Waiting
<1>7. ASSUME NEW event \in {callback.event, Loss("wms", lane, TRUE)},
             received' = Append(received, Entry(event)), number' = number + 1
      PROVE  Entry(event) \in Items /\ Waiting' = Append(Waiting, Entry(event))
  <2>1. Entry(event) \in Items
    BY <1>2, <1>4, <1>5, <1>7 DEF Entry, Items
  <2>2. inHand \o Append(received, Entry(event)) = Append(inHand \o received, Entry(event))
    BY <1>5, <2>1, AppendLast
  <2>3. Waiting' = inHand \o Append(received, Entry(event))
    BY <1>5, <1>7 DEF Waiting
  <2> QED BY <2>1, <2>2, <2>3 DEF Waiting
<1>8. \/ received' = received /\ number' = number
      \/ received' = Append(received, Entry(callback.event)) /\ number' = number + 1
      \/ received' = Append(received, Entry(Loss("wms", lane, TRUE))) /\ number' = number + 1
  BY DEF EnqueueReceived, Drop, OverflowMarker, Full
<1> HIDE DEF lane
<1>9. CASE received' = Append(received, Entry(callback.event)) /\ number' = number + 1
  BY <1>2, <1>3, <1>7, <1>9 DEF lane
<1>10. CASE received' = Append(received, Entry(Loss("wms", lane, TRUE))) /\ number' = number + 1
  BY <1>2, <1>3, <1>7, <1>10 DEF lane
<1> QED BY <1>6, <1>8, <1>9, <1>10

LEMMA InitWmsKnown == WmsInit => WmsKnown /\ Waiting = <<>>
<1> SUFFICES ASSUME WmsInit PROVE WmsKnown /\ Waiting = <<>>
  OBVIOUS
<1>1. /\ arriving \in Seq(Messages) /\ arrived = 0 /\ callback = NoCallback
      /\ received = <<>> /\ delivered = <<>> /\ inHand = <<>> /\ number = 1 /\ cut = 0
      /\ unmarked = {}
  BY EndpointScriptsAssumption DEF WmsInit
<1>2. <<>> \in Seq(Items) /\ Len(arriving) \in Nat
  BY <1>1
<1>3. CallbackKnown
  BY <1>1 DEF CallbackKnown, NoCallback
<1>4. 0 \in 0..Len(arriving) /\ 1 \in Nat \ {0} /\ 0 \in 0..1
  BY <1>2
<1>5. WmsKnown
  BY <1>1, <1>2, <1>3, <1>4 DEF WmsKnown
<1> QED BY <1>1, <1>5, WaitingKnown

LEMMA EnterKnown ==
  ASSUME WmsKnown, Enter
  PROVE  /\ CallbackKnown' /\ arrived' = arrived + 1 /\ arrived' \in 0..Len(arriving)
         /\ arriving' = arriving /\ callback.at = "out" /\ callback'.at \in {"out", "entered"}
         /\ callback'.at = "out" => ~accepting \/ ~OnRoute(Arriving[arrived + 1])
<1>1. /\ arriving \in Seq(Messages) /\ arrived \in 0..Len(arriving) /\ Len(arriving) \in Nat
      /\ arrived < Len(arriving) /\ arrived' = arrived + 1 /\ arriving' = arriving
  BY DEF WmsKnown, Enter
<1>2. arrived + 1 \in 1..Len(arriving) /\ arrived + 1 > 0
  BY <1>1
<1>3. /\ Arriving[arrived + 1] = Numbered(arriving[arrived + 1], arrived + 1)
      /\ Arriving[arrived + 1].data = arriving[arrived + 1].data
  BY <1>1, <1>2, ArrivingKnown
<1>4. OnRoute(arriving[arrived + 1]) <=> OnRoute(Arriving[arrived + 1])
  BY <1>3 DEF OnRoute, LaneOf
<1>5. Arriving' = Arriving
  BY <1>1 DEF Arriving
<1>6. callback.at = "out"
  BY DEF Enter, NoCallback
<1>7. CASE accepting /\ OnRoute(arriving[arrived + 1])
  <2>1. /\ callback'.at = "entered" /\ callback'.event = Arriving[arrived + 1]
        /\ callback' = [at |-> "entered", event |-> Arriving[arrived + 1]]
    BY <1>3, <1>7 DEF Enter
  <2> QED BY <1>1, <1>2, <1>4, <1>5, <1>6, <1>7, <2>1 DEF CallbackKnown
<1>8. CASE ~(accepting /\ OnRoute(arriving[arrived + 1]))
  <2>1. callback'.at = "out"
    BY <1>8 DEF Enter, NoCallback
  <2> QED BY <1>1, <1>2, <1>4, <1>5, <1>6, <1>8, <2>1 DEF CallbackKnown
<1> QED BY <1>7, <1>8

LEMMA PassGateKnown ==
  ASSUME WmsKnown, PassGate
  PROVE  /\ CallbackKnown' /\ callback.at = "entered"
         /\ callback'.at = IF accepting THEN "passed" ELSE "out"
<1>1. UNCHANGED <<arriving, arrived>> /\ callback.at = "entered"
  BY DEF PassGate
<1>2. Arriving' = Arriving
  BY <1>1 DEF Arriving
<1>3. CASE accepting
  <2>1. callback' = [callback EXCEPT !.at = "passed"]
    BY <1>3 DEF PassGate
  <2>2. /\ arrived > 0 /\ OnRoute(callback.event) /\ callback.event = Arriving[arrived]
        /\ callback = [at |-> callback.at, event |-> Arriving[arrived]]
    BY <1>1 DEF CallbackKnown, WmsKnown
  <2>3. callback'.at = "passed" /\ callback' = [at |-> "passed", event |-> Arriving[arrived]]
    BY <2>1, <2>2
  <2>4. callback'.event = callback.event
    BY <2>2, <2>3
  <2>5. OnRoute(callback.event)'
    BY <2>2, <2>4 DEF OnRoute, LaneOf
  <2>6. CallbackKnown'
    BY <1>1, <1>2, <2>2, <2>3, <2>5 DEF CallbackKnown
  <2> QED BY <1>1, <1>3, <2>3, <2>6
<1>4. CASE ~accepting
  <2>1. callback'.at = "out"
    BY <1>4 DEF PassGate, NoCallback
  <2> QED BY <1>1, <1>2, <1>4, <2>1 DEF CallbackKnown
<1> QED BY <1>3, <1>4

(* A callback ends for good in four ways; the message is settled.            *)
LEMMA CallbackEnds ==
  ASSUME WmsKnown, CallbackThrows \/ EnqueueReceived \/ EnqueueThrows
  PROVE  /\ UNCHANGED <<arriving, arrived, accepting, state, cut, inHand, delivered, capture>>
         /\ callback.at # "out" /\ callback'.at = "out" /\ CallbackKnown'
         /\ callback.event.seq = arrived /\ Settled + 1 = arrived /\ Settled' = arrived
         /\ Settled' = Settled + 1 /\ Settled + 1 \in 1..Len(arriving)
         /\ unmarked' = unmarked \/ unmarked' = unmarked \cup {Settled + 1}
         /\ unmarked' \subseteq 1..Settled'
<1> USE DEF callbackVars, queueVars, closeVars, deliveryVars
<1>1. /\ UNCHANGED <<arriving, arrived, accepting, state, cut, inHand, delivered, capture>>
      /\ callback.at # "out" /\ callback'.at = "out"
  BY DEF CallbackThrows, EnqueueReceived, EnqueueThrows, NoCallback
<1>2. /\ arriving \in Seq(Messages) /\ arrived \in 1..Len(arriving) /\ callback.event = Arriving[arrived]
      /\ Len(arriving) \in Nat /\ unmarked \subseteq 1..Settled
  BY <1>1 DEF WmsKnown, CallbackKnown
<1>3. callback.event.seq = arrived
  BY <1>2, ArrivingKnown
<1>4. Settled = arrived - 1 /\ Settled' = arrived
  BY <1>1 DEF Settled
<1>5. unmarked' = unmarked \/ unmarked' = unmarked \cup {arrived}
  BY <1>3 DEF CallbackThrows, EnqueueReceived, EnqueueThrows, Drop
<1>6. CallbackKnown'
  BY <1>1 DEF CallbackKnown
<1>7. Settled + 1 = arrived /\ Settled + 1 \in 1..Len(arriving) /\ unmarked' \subseteq 1..Settled'
  <2>1. PICK n : n = arrived
    OBVIOUS
  <2>2. n \in Nat \ {0} /\ Settled = n - 1 /\ Settled' = n /\ unmarked \subseteq 1..(n - 1)
    BY <1>2, <1>4, <2>1
  <2>3. 1..(n - 1) \subseteq 1..n /\ n \in 1..n /\ n - 1 + 1 = n
    BY <2>2
  <2>4. unmarked' \subseteq 1..n
    BY <1>5, <2>1, <2>2, <2>3
  <2> QED BY <1>2, <2>1, <2>2, <2>3, <2>4
<1> QED BY <1>1, <1>3, <1>4, <1>5, <1>6, <1>7

LEMMA StepWmsKnown == WmsKnown /\ [WmsNext]_wmsVars => WmsKnown'
<1> SUFFICES ASSUME WmsKnown, [WmsNext]_wmsVars PROVE WmsKnown'
  OBVIOUS
<1> USE DEF callbackVars, queueVars, closeVars, deliveryVars
<1>0. number \in Nat \ {0} /\ cut \in 0..number /\ unmarked \subseteq 1..Settled
  BY DEF WmsKnown
<1>1. CASE Enter
  <2>1. UNCHANGED <<received, delivered, inHand, number, cut, unmarked>>
    BY <1>1 DEF Enter
  <2>2. Settled \in Nat /\ Settled <= Settled' /\ Settled' \in Nat
    BY <1>1, EnterKnown, SettledKnown DEF Settled
  <2>3. unmarked' \subseteq 1..Settled'
    BY <1>0, <2>1, <2>2
  <2> QED BY <1>1, <2>1, <2>3, EnterKnown DEF WmsKnown
<1>2. CASE PassGate
  <2>1. UNCHANGED <<arriving, arrived, received, delivered, inHand, number, cut, unmarked>>
    BY <1>2 DEF PassGate
  <2>2. Settled \in Nat /\ Settled <= Settled' /\ Settled' \in Nat
    BY <1>2, <2>1, PassGateKnown, SettledKnown DEF Settled
  <2>3. unmarked' \subseteq 1..Settled'
    BY <1>0, <2>1, <2>2
  <2> QED BY <1>2, <2>1, <2>3, PassGateKnown DEF WmsKnown
<1>3. CASE CallbackThrows \/ EnqueueReceived \/ EnqueueThrows
  <2>1. /\ UNCHANGED <<arriving, arrived, delivered, inHand, cut>> /\ CallbackKnown'
        /\ unmarked' \subseteq 1..Settled'
    BY <1>3, CallbackEnds
  <2>2. \/ received' = received /\ number' = number
        \/ received' = received /\ number' = number + 1
        \/ \E x \in Items : received' = Append(received, x) /\ number' = number + 1
    <3>1. CASE CallbackThrows
      BY <3>1 DEF CallbackThrows
    <3>2. CASE EnqueueThrows
      BY <3>2 DEF EnqueueThrows
    <3> QED BY <1>3, <3>1, <3>2, EnqueueGrows
  <2>3. received' \in Seq(Items)
    <3>1. received \in Seq(Items)
      BY DEF WmsKnown
    <3> QED BY <2>2, <3>1
  <2>4. number' = number \/ number' = number + 1
    BY <2>2
  <2>5. number' \in Nat \ {0} /\ cut \in 0..number'
    BY <1>0, <2>4
  <2> QED BY <2>1, <2>3, <2>5 DEF WmsKnown
<1>4. CASE CloseBegin
  <2>1. UNCHANGED <<arriving, arrived, callback, received, delivered, inHand, number, unmarked>>
        /\ cut' = number
    BY <1>4 DEF CloseBegin
  <2>2. CallbackKnown' /\ Settled' = Settled
    BY <2>1 DEF CallbackKnown, WmsKnown, Arriving, OnRoute, LaneOf, Settled
  <2> QED BY <1>0, <2>1, <2>2 DEF WmsKnown
<1>5. CASE Take
  <2>1. UNCHANGED <<arriving, arrived, callback, delivered, number, cut, unmarked>>
    BY <1>5 DEF Take
  <2>2. CallbackKnown' /\ Settled' = Settled
    BY <2>1 DEF CallbackKnown, WmsKnown, Arriving, OnRoute, LaneOf, Settled
  <2>3. received' \in Seq(Items) /\ \E x \in Items : inHand' = <<x>>
    BY <1>5, TakeFirst DEF Take, WmsKnown
  <2> QED BY <2>1, <2>2, <2>3 DEF WmsKnown
<1>6. CASE Deliver
  <2>1. UNCHANGED <<arriving, arrived, callback, received, number, cut, unmarked>> /\ inHand' = <<>>
    BY <1>6 DEF Deliver
  <2>2. CallbackKnown' /\ Settled' = Settled
    BY <2>1 DEF CallbackKnown, WmsKnown, Arriving, OnRoute, LaneOf, Settled
  <2>3. delivered' \in Seq(Items)
    <3>1. \E x \in Items : delivered' = Append(delivered, x)
      BY <1>6, DeliverFirst
    <3> QED BY <3>1 DEF WmsKnown
  <2> QED BY <2>1, <2>2, <2>3 DEF WmsKnown
<1>7. CASE CloseEnd \/ UNCHANGED wmsVars
  <2>1. UNCHANGED <<arriving, arrived, callback, received, delivered, inHand, number, cut, unmarked>>
    BY <1>7 DEF CloseEnd, wmsVars
  <2>2. CallbackKnown' /\ Settled' = Settled
    BY <2>1 DEF CallbackKnown, WmsKnown, Arriving, OnRoute, LaneOf, Settled
  <2> QED BY <2>1, <2>2 DEF WmsKnown
<1> QED BY <1>1, <1>2, <1>3, <1>4, <1>5, <1>6, <1>7 DEF WmsNext, WmsWorker

-----------------------------------------------------------------------------
(* close(), and the numbers.                                                 *)

(* What was delivered and what waits carries growing numbers, all that were  *)
(* drawn but those an allocation failed for, and the next number is free.    *)
Numbers(all) == {all[i].number : i \in 1..Len(all)}

Growing(all) == \A i, j \in 1..Len(all) : i < j => all[i].number < all[j].number

Ordered ==
  LET all == delivered \o Waiting
  IN /\ Growing(all) /\ Numbers(all) = (1..(number - 1)) \ torn
     /\ torn \subseteq 1..(number - 1)

(* Once close() has ended, only what came after it stopped accepting waits. *)
Late == state = "closed" => \A i \in 1..Len(Waiting) : Waiting[i].number >= cut

LEMMA StepOrdered == WmsKnown /\ Ordered /\ [WmsNext]_wmsVars => Ordered'
<1> SUFFICES ASSUME WmsKnown, Ordered, [WmsNext]_wmsVars PROVE Ordered'
  OBVIOUS
<1> USE DEF callbackVars, queueVars, closeVars, deliveryVars
<1>1. /\ delivered \in Seq(Items) /\ received \in Seq(Items) /\ Waiting \in Seq(Items)
      /\ inHand \in Seq(Items) /\ number \in Nat \ {0}
      /\ delivered \o Waiting \in Seq(Items)
  <2>1. delivered \in Seq(Items) /\ received \in Seq(Items) /\ Waiting \in Seq(Items)
        /\ inHand \in Seq(Items) /\ number \in Nat \ {0}
    BY WaitingKnown DEF WmsKnown
  <2> QED BY <2>1, ConcatProperties
<1>2. ASSUME delivered' \o Waiting' = delivered \o Waiting, UNCHANGED <<number, torn>>
      PROVE  Ordered'
  BY <1>2 DEF Ordered
<1>3. CASE Enter \/ PassGate \/ CallbackThrows \/ CloseBegin \/ CloseEnd \/ UNCHANGED wmsVars
  <2>1. UNCHANGED <<received, delivered, inHand, number, torn>>
    BY <1>3 DEF Enter, PassGate, CallbackThrows, CloseBegin, CloseEnd, wmsVars
  <2> QED BY <1>2, <2>1 DEF Waiting
<1>4. CASE Take
  <2>1. delivered' = delivered /\ number' = number /\ torn' = torn
    BY <1>4 DEF Take
  <2> QED BY <1>2, <1>4, <2>1, TakeWaits
<1>5. CASE Deliver
  <2>1. PICK x \in Items : /\ Waiting = <<x>> \o received /\ Waiting' = received
                           /\ delivered' = Append(delivered, x) /\ number' = number
                           /\ torn' = torn
    BY <1>5, DeliverFirst
  <2> DEFINE one == <<x>>
  <2>2. one \in Seq(Items) /\ Waiting = one \o received
    BY <2>1
  <2>3. delivered' = delivered \o one
    BY <1>1, <2>1
  <2> HIDE DEF one
  <2>4. (delivered \o one) \o received = delivered \o (one \o received)
    BY <1>1, <2>2, ConcatAssociative
  <2> QED BY <1>2, <2>1, <2>2, <2>3, <2>4
<1>6. CASE EnqueueReceived
  <2>1. delivered' = delivered /\ torn' = torn
    BY <1>6 DEF EnqueueReceived
  <2>2. CASE Waiting' = Waiting /\ number' = number
    BY <1>2, <2>1, <2>2
  <2>3. ASSUME NEW event, Entry(event) \in Items, Waiting' = Append(Waiting, Entry(event)),
               number' = number + 1
        PROVE  Ordered'
    <3> DEFINE all == delivered \o Waiting
               x == Entry(event)
    <3>1. delivered' \o Waiting' = Append(all, x)
      BY <1>1, <2>1, <2>3, AppendLast
    <3>2. Growing(all) /\ Numbers(all) = (1..(number - 1)) \ torn /\ torn \subseteq 1..(number - 1)
      BY <1>1 DEF Ordered
    <3>3. x.number = number
      BY DEF Entry
    <3>4. all \in Seq(Items) /\ x \in Items /\ Len(all) \in Nat
      BY <1>1, <2>3
    <3> HIDE DEF all, x
    <3> DEFINE more == Append(all, x)
    <3>5. /\ Len(more) = Len(all) + 1 /\ more[Len(all) + 1] = x
          /\ \A i \in 1..Len(all) : more[i] = all[i]
          /\ \A i \in 1..Len(more) : i \in 1..Len(all) \/ i = Len(all) + 1
      BY <3>4
    <3> HIDE DEF more
    <3>6. \A i \in 1..Len(all) : all[i].number \in 1..(number - 1)
      BY <3>2 DEF Numbers
    <3>7. Growing(more)
      <4> SUFFICES ASSUME NEW i \in 1..Len(more), NEW j \in 1..Len(more), i < j
                   PROVE  more[i].number < more[j].number
        BY DEF Growing
      <4>1. i \in 1..Len(all)
        BY <3>4, <3>5
      <4>2. CASE j \in 1..Len(all)
        BY <3>2, <3>5, <4>1, <4>2 DEF Growing
      <4>3. CASE j = Len(all) + 1
        <5>1. more[i].number \in 1..(number - 1) /\ more[j].number = number
          BY <3>3, <3>5, <3>6, <4>1, <4>3
        <5> QED BY <1>1, <5>1
      <4> QED BY <3>5, <4>2, <4>3
    <3>8. Numbers(more) = Numbers(all) \cup {number}
      <4>1. Len(all) + 1 \in 1..Len(more) /\ \A i \in 1..Len(all) : i \in 1..Len(more)
        BY <3>4, <3>5
      <4>2. ASSUME NEW n \in Numbers(more) PROVE n \in Numbers(all) \cup {number}
        <5>1. PICK i \in 1..Len(more) : n = more[i].number
          BY DEF Numbers
        <5>2. CASE i \in 1..Len(all)
          BY <3>5, <5>1, <5>2 DEF Numbers
        <5>3. CASE i = Len(all) + 1
          BY <3>3, <3>5, <5>1, <5>3
        <5> QED BY <3>5, <5>2, <5>3
      <4>3. ASSUME NEW n \in Numbers(all) PROVE n \in Numbers(more)
        <5>1. PICK i \in 1..Len(all) : n = all[i].number
          BY DEF Numbers
        <5>2. more[i] = all[i] /\ i \in 1..Len(more)
          BY <3>5, <4>1
        <5> QED BY <5>1, <5>2 DEF Numbers
      <4>4. more[Len(all) + 1].number = number
        BY <3>3, <3>5
      <4>5. number \in Numbers(more)
        BY <4>1, <4>4 DEF Numbers
      <4> QED BY <4>2, <4>3, <4>5
    <3>9. Numbers(more) = (1..(number' - 1)) \ torn' /\ torn' \subseteq 1..(number' - 1)
      <4>1. 1..(number' - 1) = (1..(number - 1)) \cup {number} /\ number \notin torn /\ torn' = torn
        BY <1>1, <2>1, <2>3, <3>2
      <4> QED BY <3>2, <3>8, <4>1
    <3> QED BY <3>1, <3>7, <3>9 DEF Ordered, more
  <2> QED BY <1>6, <2>2, <2>3, EnqueueGrows
<1>7. CASE EnqueueThrows
  <2>1. UNCHANGED <<received, delivered, inHand>> /\ number' = number + 1 /\ torn' = torn \cup {number}
    BY <1>7 DEF EnqueueThrows
  <2>2. delivered' \o Waiting' = delivered \o Waiting
    BY <2>1 DEF Waiting
  <2>3. /\ torn \subseteq 1..(number - 1)
        /\ 1..(number' - 1) = (1..(number - 1)) \cup {number} /\ number \notin 1..(number - 1)
    BY <1>1, <2>1 DEF Ordered
  <2>4. (1..(number' - 1)) \ torn' = (1..(number - 1)) \ torn /\ torn' \subseteq 1..(number' - 1)
    BY <2>1, <2>3
  <2> QED BY <2>2, <2>4 DEF Ordered
<1> QED BY <1>3, <1>4, <1>5, <1>6, <1>7 DEF WmsNext, WmsWorker

LEMMA StepLate == WmsKnown /\ Late /\ [WmsNext]_wmsVars => Late'
<1> SUFFICES ASSUME WmsKnown, Late, [WmsNext]_wmsVars PROVE Late'
  OBVIOUS
<1> USE DEF callbackVars, queueVars, closeVars, deliveryVars
<1>1. Waiting \in Seq(Items) /\ Len(Waiting) \in Nat /\ number \in Nat /\ cut \in Nat /\ cut <= number
  BY WaitingKnown DEF WmsKnown
<1>2. ASSUME Waiting' = Waiting, UNCHANGED <<state, cut>> PROVE Late'
  BY <1>2 DEF Late
<1>3. CASE Enter \/ PassGate \/ CallbackThrows \/ EnqueueThrows \/ UNCHANGED wmsVars
  <2>1. UNCHANGED <<received, inHand, state, cut>>
    BY <1>3 DEF Enter, PassGate, CallbackThrows, EnqueueThrows, wmsVars
  <2> QED BY <1>2, <2>1 DEF Waiting
<1>4. CASE Take
  <2>1. UNCHANGED <<state, cut>>
    BY <1>4 DEF Take
  <2> QED BY <1>2, <1>4, <2>1, TakeWaits
<1>5. CASE Deliver
  <2>1. PICK x \in Items : Waiting = <<x>> \o received /\ Waiting' = received /\ UNCHANGED closeVars
    BY <1>5, DeliverFirst
  <2>2. /\ Len(received) \in Nat /\ Len(Waiting) = Len(received) + 1
        /\ \A i \in 1..Len(received) : Waiting[i + 1] = received[i]
    BY <2>1, DropFirst DEF WmsKnown
  <2>3. ASSUME state = "closed", NEW i \in 1..Len(received) PROVE received[i].number >= cut
    <3>1. i + 1 \in 1..Len(Waiting)
      BY <2>2
    <3> QED BY <2>2, <2>3, <3>1 DEF Late
  <2> QED BY <2>1, <2>3 DEF Late
<1>6. CASE EnqueueReceived
  <2>1. UNCHANGED <<state, cut>>
    BY <1>6 DEF EnqueueReceived
  <2>2. CASE Waiting' = Waiting
    BY <1>2, <2>1, <2>2
  <2>3. ASSUME NEW event, Entry(event) \in Items, Waiting' = Append(Waiting, Entry(event))
        PROVE  Late'
    <3> DEFINE x == Entry(event)
    <3>1. x.number = number /\ x \in Items
      BY <2>3 DEF Entry
    <3> HIDE DEF x
    <3> DEFINE more == Append(Waiting, x)
    <3>2. /\ Len(more) = Len(Waiting) + 1 /\ more[Len(Waiting) + 1] = x
          /\ \A i \in 1..Len(Waiting) : more[i] = Waiting[i]
      BY <1>1, <3>1
    <3>3. Waiting' = more
      BY <2>3 DEF x
    <3> HIDE DEF more
    <3>4. ASSUME state = "closed", NEW i \in 1..Len(more) PROVE more[i].number >= cut
      <4>1. CASE i \in 1..Len(Waiting)
        BY <3>2, <3>4, <4>1 DEF Late
      <4>2. CASE i = Len(Waiting) + 1
        BY <1>1, <3>1, <3>2, <4>2
      <4> QED BY <1>1, <3>2, <4>1, <4>2
    <3> QED BY <2>1, <3>3, <3>4 DEF Late
  <2> QED BY <1>6, <2>2, <2>3, EnqueueGrows
<1>7. CASE CloseBegin
  <2>1. state' # "closed"
    BY <1>7 DEF CloseBegin
  <2> QED BY <2>1 DEF Late
<1>8. CASE CloseEnd
  <2>1. inHand' = <<>> /\ received' = <<>>
    BY <1>8 DEF CloseEnd, NothingInHand
  <2>2. Waiting' = <<>> \o <<>>
    BY <2>1 DEF Waiting
  <2>3. <<>> \in Seq(Items) /\ Len(<<>>) = 0
    OBVIOUS
  <2>4. Len(Waiting') = 0
    BY <2>2, <2>3, ConcatEmptySeq
  <2> QED BY <2>4 DEF Late
<1> QED BY <1>3, <1>4, <1>5, <1>6, <1>7, <1>8 DEF WmsNext, WmsWorker

(* enqueue_received(), worker_main(): the stream handler is given every      *)
(* message or marker that was queued, once, in the order of their numbers,   *)
(* whatever the capacity, whatever the endpoint sends and whichever          *)
(* allocations fail.                                                         *)
THEOREM HandlerInSequence == WmsSpec => []InSequence
<1>1. WmsInit => WmsKnown /\ Ordered
  <2> SUFFICES ASSUME WmsInit PROVE Ordered
    BY InitWmsKnown
  <2>1. delivered = <<>> /\ Waiting = <<>> /\ number = 1 /\ torn = {}
    BY InitWmsKnown DEF WmsInit
  <2>2. <<>> \in Seq(Items) /\ Len(<<>>) = 0 /\ 1..0 = {}
    OBVIOUS
  <2>3. delivered \o Waiting = <<>>
    BY <2>1, <2>2, ConcatEmptySeq
  <2>4. Growing(<<>>) /\ Numbers(<<>>) = {}
    BY <2>2 DEF Growing, Numbers
  <2> QED BY <2>1, <2>2, <2>3, <2>4 DEF Ordered
<1>2. WmsKnown /\ Ordered /\ [WmsNext]_wmsVars => (WmsKnown /\ Ordered)'
  BY StepWmsKnown, StepOrdered
<1>3. WmsKnown /\ Ordered => InSequence
  <2> SUFFICES ASSUME WmsKnown, Ordered PROVE InSequence
    OBVIOUS
  <2> DEFINE all == delivered \o Waiting
  <2>1. delivered \in Seq(Items) /\ Waiting \in Seq(Items)
    BY WaitingKnown DEF WmsKnown
  <2>2. all \in Seq(Items)
    BY <2>1, ConcatProperties
  <2>3. DOMAIN all = 1..Len(all)
    BY <2>2
  <2> QED BY <2>3 DEF Ordered, Growing, Numbers, InSequence
<1> QED BY <1>1, <1>2, <1>3, PTL DEF WmsSpec

(* close_on_worker(): once it has ended, only what a callback queued after   *)
(* acceptance had ended may still wait.                                      *)
THEOREM CloseDrains == WmsSpec => []CloseDelivers
<1>1. WmsInit => WmsKnown /\ Late
  BY InitWmsKnown DEF Late, WmsInit
<1>2. WmsKnown /\ Late /\ [WmsNext]_wmsVars => (WmsKnown /\ Late)'
  BY StepWmsKnown, StepLate
<1>3. WmsKnown /\ Late => CloseDelivers
  <2> SUFFICES ASSUME WmsKnown, Late PROVE CloseDelivers
    OBVIOUS
  <2>1. DOMAIN Waiting = 1..Len(Waiting)
    BY WaitingKnown
  <2> QED BY <2>1 DEF Late, CloseDelivers
<1> QED BY <1>1, <1>2, <1>3, PTL DEF WmsSpec

-----------------------------------------------------------------------------
(* What a packet, or its absence, does to a capture.                         *)

(* Events that have nothing for the lanes inside a frame may be passed over. *)
LEMMA Skipped ==
  ASSUME NEW stream, IsStream(stream), NEW c \in Nat, NEW p \in Nat, c <= p,
         NEW s, Clean(s, stream, <<c, 0>>),
         \A l \in Lanes : s.lanes[l].inside =>
           \A i \in c..(p - 1) : i \in DOMAIN stream => OffsetsOf(stream[i], l) = {}
  PROVE  Clean(s, stream, <<p, 0>>)
<1> DEFINE q == <<c, 0>>
           r == <<p, 0>>
<1>1. q[1] = c /\ q[2] = 0 /\ r[1] = p /\ r[2] = 0
  OBVIOUS
<1>2. Clean(s, stream, q)
  OBVIOUS
<1> HIDE DEF q, r
<1>3. ASSUME NEW l \in Lanes PROVE LaneClean(stream, l, s.lanes[l], r)
  <2>1. SUFFICES ASSUME s.lanes[l].inside, ~s.lanes[l].lost
                 PROVE  Started(stream, l, s.lanes[l].pieces, r)
    BY DEF LaneClean
  <2> DEFINE pieces == s.lanes[l].pieces
             last == pieces[Len(pieces)]
  <2>2. Started(stream, l, pieces, q) /\ pieces \in Seq(Place)
    BY <1>2, <2>1, LaneKnown DEF Clean, LaneClean
  <2> HIDE DEF pieces
  <2>3. last \in Place /\ Adjacent(stream, l, last, q)
    BY <2>2 DEF Started
  <2>4. last[1] \in Nat /\ last[2] \in Nat
    BY <2>3 DEF Place
  <2> HIDE DEF last
  <2>5. last[1] < c
    BY <1>1, <2>3, <2>4 DEF Adjacent, Precedes
  <2>6. Precedes(last, r)
    BY <1>1, <2>4, <2>5 DEF Precedes
  <2>7. ASSUME NEW i \in DOMAIN stream, NEW k \in OffsetsOf(stream[i], l)
        PROVE  ~(Precedes(last, <<i, k>>) /\ Precedes(<<i, k>>, r))
    <3>1. i \in Nat /\ k \in Nat
      BY OffsetsAreNumbers DEF IsStream
    <3> DEFINE x == <<i, k>>
    <3>2. x[1] = i /\ x[2] = k
      OBVIOUS
    <3>3. ~(Precedes(last, x) /\ Precedes(x, q))
      BY <2>3 DEF Adjacent
    <3>4. ~(i \in c..(p - 1))
      BY <2>1
    <3>5. i < c \/ i >= p
      BY <3>1, <3>4
    <3> HIDE DEF x
    <3>6. i < c => Precedes(x, q)
      BY <1>1, <3>2 DEF Precedes
    <3>7. i >= p => ~Precedes(x, r)
      BY <1>1, <3>1, <3>2 DEF Precedes
    <3> QED BY <3>3, <3>5, <3>6, <3>7 DEF x
  <2>8. Adjacent(stream, l, last, r)
    BY <2>6, <2>7 DEF Adjacent
  <2>9. Started(stream, l, pieces, r)
    BY <2>2, <2>8 DEF Started, last
  <2> QED BY <2>9 DEF pieces
<1>4. Clean(s, stream, r)
  BY <1>2, <1>3 DEF Clean
<1> QED BY <1>4 DEF r

(* A packet touches its own lane alone. *)
LEMMA LaneAlone ==
  ASSUME NEW s \in Sessions, NEW g \in Groups, NEW kind \in PacketKinds, NEW at,
         NEW u, u = ConsumePacket(s, g, kind, at)
  PROVE  \A m \in Lanes \ {g} : u.lanes[m] = s.lanes[m]
<1>1. /\ s = [receiving |-> s.receiving, lanes |-> s.lanes, frames |-> s.frames]
      /\ s.lanes = [l \in Lanes |-> s.lanes[l]] /\ g \in Lanes
  BY LanesKnown DEF Sessions
<1> DEFINE Beside(t) == /\ t = [receiving |-> t.receiving, lanes |-> t.lanes, frames |-> t.frames]
                        /\ t.lanes = [l \in Lanes |-> t.lanes[l]]
                        /\ \A m \in Lanes \ {g} : t.lanes[m] = s.lanes[m]
<1>2. ASSUME NEW t, Beside(t), NEW status, NEW pieces, NEW affected
      PROVE  Beside(Emit(t, g, status, pieces, affected))
  <2>1. PICK f : f = [lane |-> g, status |-> status, pieces |-> pieces, affected |-> affected]
    OBVIOUS
  <2>2. Emit(t, g, status, pieces, affected) = [t EXCEPT !.frames = Append(t.frames, f)]
    BY <2>1 DEF Emit
  <2>3. PICK more : more = Append(t.frames, f)
    OBVIOUS
  <2>4. PICK v : v = [t EXCEPT !.frames = more]
    OBVIOUS
  <2>5. v.receiving = t.receiving /\ v.lanes = t.lanes /\ v.frames = more
        /\ v = [receiving |-> v.receiving, lanes |-> v.lanes, frames |-> v.frames]
    BY <1>2, <2>4
  <2> QED BY <1>2, <2>2, <2>3, <2>4, <2>5
<1>3. ASSUME NEW t, Beside(t), NEW lane PROVE Beside([t EXCEPT !.lanes[g] = lane])
  BY <1>1, <1>3
<1>4. Beside(s)
  BY <1>1
<1>5. ASSUME NEW t, Beside(t), NEW status, NEW pieces, NEW affected
      PROVE  Beside(Close(t, g, status, pieces, affected))
  <2> HIDE DEF Beside
  <2> QED BY <1>2, <1>3, <1>5 DEF Close
<1>6. Beside(Interrupt(s, g))
  <2> HIDE DEF Beside
  <2> QED BY <1>4, <1>5 DEF Interrupt
<1>7. ASSUME NEW t, Beside(t), NEW v, v = [t EXCEPT !.lanes[g].pending = FALSE]
      PROVE  Beside(v)
  <2>1. v = [t EXCEPT !.lanes[g] = [t.lanes[g] EXCEPT !.pending = FALSE]]
    BY <1>7
  <2> HIDE DEF Beside
  <2> QED BY <1>3, <1>7, <2>1
<1>8. Beside(StartFrame(s, g, at))
  <2>1. PICK t : t = Interrupt(s, g) /\ Beside(t)
    BY <1>6
  <2>2. StartFrame(s, g, at) = [t EXCEPT !.lanes[g] = Opened(t.lanes[g], at)]
    BY <2>1 DEF StartFrame
  <2> HIDE DEF Beside
  <2> QED BY <1>3, <2>1, <2>2
<1>9. Beside(Extend(s, g, at))
  <2>1. PICK lane : lane = [s.lanes[g] EXCEPT !.pieces = Append(s.lanes[g].pieces, at)]
    OBVIOUS
  <2>2. Extend(s, g, at) = [s EXCEPT !.lanes[g] = lane]
    BY <2>1 DEF Extend
  <2> HIDE DEF Beside
  <2> QED BY <1>3, <1>4, <2>2
<1>10. Beside(ConsumePacketAlone(Interrupt(s, g), g, kind, at))
  <2>1. PICK t : t = Interrupt(s, g) /\ Beside(t)
    BY <1>6
  <2>2. PICK v : v = Emit(t, g, Judged("complete", t.lanes[g].pending), <<at>>, t.lanes[g].pending)
    OBVIOUS
  <2> HIDE DEF Beside
  <2>3. Beside(v)
    BY <1>2, <2>1, <2>2
  <2>4. ConsumePacketAlone(t, g, kind, at) = [v EXCEPT !.lanes[g].pending = FALSE]
    BY <2>2 DEF ConsumePacketAlone
  <2> QED BY <1>7, <2>1, <2>3, <2>4
<1>11. Beside(ConsumePacketStray(s, g, at))
  <2>1. PICK v : v = Emit(s, g, "malformed", <<at>>, s.lanes[g].pending)
    OBVIOUS
  <2> HIDE DEF Beside
  <2>2. Beside(v)
    BY <1>2, <1>4, <2>1
  <2>3. ConsumePacketStray(s, g, at) = [v EXCEPT !.lanes[g].pending = FALSE]
    BY <2>1 DEF ConsumePacketStray
  <2> QED BY <1>7, <2>2, <2>3
<1> DEFINE lane == s.lanes[g]
           all == Append(lane.pieces, at)
<1>12. \/ u = s
       \/ u = Close(s, g, "malformed", lane.pieces, lane.lost \/ lane.pending)
       \/ u = ConsumePacketAlone(Interrupt(s, g), g, kind, at)
       \/ u = StartFrame(s, g, at)
       \/ u = ConsumePacketStray(s, g, at)
       \/ u = Extend(s, g, at)
       \/ u = Close(s, g, Judged("complete", lane.lost), all, lane.lost)
  BY DEF ConsumePacket, PacketKinds
<1>13. Beside(u)
  <2> HIDE DEF Beside, lane, all
  <2>1. CASE u = Close(s, g, "malformed", lane.pieces, lane.lost \/ lane.pending)
    <3>1. PICK affected : affected = (lane.lost \/ lane.pending)
      OBVIOUS
    <3>2. PICK status : status = "malformed"
      OBVIOUS
    <3> QED BY <1>4, <1>5, <2>1, <3>1, <3>2
  <2>2. CASE u = Close(s, g, Judged("complete", lane.lost), all, lane.lost)
    <3>1. PICK status : status = Judged("complete", lane.lost)
      OBVIOUS
    <3> QED BY <1>4, <1>5, <2>2, <3>1
  <2> QED BY <1>4, <1>8, <1>9, <1>10, <1>11, <1>12, <2>1, <2>2
<1> QED BY <1>13

(* An event of one packet. *)
LEMMA OnePacket ==
  ASSUME NEW e \in Messages, NEW s
  PROVE  ConsumeData(s, e) = ConsumePacket(s, LaneOf(e), e.data[1].kind, <<e.seq, 1>>)
<1>1. Len(e.data) = 1 /\ Head(e.data) = e.data[1] /\ e.type = "ump"
  BY MessageKnown
<1> DEFINE after[i \in 0..Len(e.data)] ==
             IF i = 0 THEN s ELSE ConsumePiece(after[i - 1], e, i)
<1>2. ConsumeData(s, e) = after[Len(e.data)]
  BY DEF ConsumeData
<1>3. after = [i \in 0..Len(e.data) |->
                 IF i = 0 THEN s ELSE ConsumePiece(after[i - 1], e, i)]
  <2>0. PICK what : what = "consume"
    OBVIOUS
  <2>1. Len(e.data) \in Nat
    BY <1>1
  <2>2. PICK f : Doing(what, e, s, Len(e.data), f)
    BY <2>1, DoingExists
  <2>3. f = [i \in 0..Len(e.data) |-> IF i = 0 THEN s ELSE ConsumePiece(f[i - 1], e, i)]
    BY <2>0, <2>2 DEF Doing, Done
  <2>4. \E g : g = [i \in 0..Len(e.data) |->
                      IF i = 0 THEN s ELSE ConsumePiece(g[i - 1], e, i)]
    BY <2>3
  <2> QED BY <2>4, Zenon
<1> HIDE DEF after
<1>4. after[0] = s /\ after[1] = ConsumePiece(after[0], e, 1)
  <2>1. 0 \in 0..Len(e.data) /\ 1 \in 0..Len(e.data) /\ 1 # 0 /\ 1 - 1 = 0
    BY <1>1
  <2> QED BY <1>3, <2>1
<1>5. ConsumeData(s, e) = ConsumePiece(s, e, 1)
  BY <1>1, <1>2, <1>4
<1> QED BY <1>1, <1>5 DEF ConsumePiece, LaneOf

-----------------------------------------------------------------------------
(* What waits accounts for every message: of those from place c to place n   *)
(* that have something for the route's group, each is there itself, or a     *)
(* marker of the group is there where it would have been.                    *)
IsData(item) == item.event.type # "loss"

Relevant(event) == OffsetsOf(event, Selected) # {}

Stands(items, k, i) ==
  IF IsData(items[k]) THEN items[k].event.seq = i
  ELSE /\ items[k].event.group = Selected
       /\ \A j \in 1..Len(items) :
            IsData(items[j]) /\ Relevant(items[j].event) =>
              /\ j < k => items[j].event.seq < i
              /\ j > k => items[j].event.seq > i

ItemKnown(stream, item, c, n) ==
  LET event == item.event IN
  IF IsData(item)
  THEN /\ event.seq \in 1..n /\ event = stream[event.seq] /\ OnRoute(event)
       /\ Relevant(event) => c <= event.seq
  ELSE event.group \in Groups /\ event = Loss("wms", event.group, TRUE)

Rising(items) ==
  \A j, k \in 1..Len(items) :
    j < k /\ IsData(items[j]) /\ IsData(items[k]) => items[j].event.seq < items[k].event.seq

Covering(stream, items, c, n) ==
  \A i \in c..n : Relevant(stream[i]) => \E k \in 1..Len(items) : Stands(items, k, i)

Accounted(stream, items, c, n) ==
  /\ items \in Seq(Items)
  /\ \A k \in 1..Len(items) : ItemKnown(stream, items[k], c, n)
  /\ Rising(items)
  /\ Covering(stream, items, c, n)

(* What is left when the first is delivered. *)
LEMMA WithoutFirst ==
  ASSUME NEW stream, NEW x \in Items, NEW r \in Seq(Items), NEW c \in Nat, NEW n \in Nat,
         Accounted(stream, <<x>> \o r, c, n)
  PROVE  /\ ItemKnown(stream, x, c, n) /\ Len(r) \in Nat
         /\ \A k \in 1..Len(r) : ItemKnown(stream, r[k], c, n)
         /\ Rising(r)
         /\ IsData(x) => \A k \in 1..Len(r) : IsData(r[k]) => x.event.seq < r[k].event.seq
         /\ \A i \in c..n : Relevant(stream[i]) =>
              \/ /\ \E k \in 1..Len(r) : Stands(r, k, i)
                 /\ IsData(x) /\ Relevant(x.event) => x.event.seq < i
              \/ IsData(x) /\ x.event.seq = i
              \/ /\ ~IsData(x) /\ x.event.group = Selected
                 /\ \A k \in 1..Len(r) :
                      IsData(r[k]) /\ Relevant(r[k].event) => i < r[k].event.seq
<1> DEFINE items == <<x>> \o r
<1>1. /\ items \in Seq(Items) /\ Len(r) \in Nat /\ Len(items) = Len(r) + 1 /\ items[1] = x
      /\ \A k \in 1..Len(r) : items[k + 1] = r[k]
  BY DropFirst
<1>2. Accounted(stream, items, c, n)
  OBVIOUS
<1> HIDE DEF items
<1>3. /\ 1 \in 1..Len(items)
      /\ \A k \in 1..Len(r) : k + 1 \in 1..Len(items) /\ k + 1 > 1
  BY <1>1
<1>4. ItemKnown(stream, x, c, n) /\ \A k \in 1..Len(r) : ItemKnown(stream, r[k], c, n)
  BY <1>1, <1>2, <1>3 DEF Accounted
<1>5. Rising(r)
  <2> SUFFICES ASSUME NEW j \in 1..Len(r), NEW k \in 1..Len(r), j < k, IsData(r[j]), IsData(r[k])
               PROVE  r[j].event.seq < r[k].event.seq
    BY DEF Rising
  <2>1. j + 1 < k + 1 /\ j + 1 \in 1..Len(items) /\ k + 1 \in 1..Len(items)
    BY <1>1
  <2>2. items[j + 1] = r[j] /\ items[k + 1] = r[k]
    BY <1>1
  <2> QED BY <1>2, <2>1, <2>2 DEF Accounted, Rising
<1>6. ASSUME IsData(x), NEW k \in 1..Len(r), IsData(r[k]) PROVE x.event.seq < r[k].event.seq
  <2>1. 1 < k + 1 /\ 1 \in 1..Len(items) /\ k + 1 \in 1..Len(items)
    BY <1>1
  <2>2. items[1] = x /\ items[k + 1] = r[k]
    BY <1>1
  <2> QED BY <1>2, <1>6, <2>1, <2>2 DEF Accounted, Rising
<1>7. ASSUME NEW k \in 1..Len(r), NEW i \in c..n, Stands(items, k + 1, i)
      PROVE  Stands(r, k, i)
  <2>1. items[k + 1] = r[k]
    BY <1>1
  <2>2. CASE IsData(r[k])
    BY <1>7, <2>1, <2>2 DEF Stands
  <2>3. CASE ~IsData(r[k])
    <3>1. ASSUME NEW j \in 1..Len(r), IsData(r[j]), Relevant(r[j].event)
          PROVE  /\ j < k => r[j].event.seq < i
                 /\ j > k => r[j].event.seq > i
      <4>1. items[j + 1] = r[j] /\ j + 1 \in 1..Len(items)
            /\ (j < k => j + 1 < k + 1) /\ (j > k => j + 1 > k + 1)
        BY <1>1
      <4> QED BY <1>7, <2>1, <2>3, <3>1, <4>1 DEF Stands
    <3>2. r[k].event.group = Selected
      BY <1>7, <2>1, <2>3 DEF Stands
    <3> QED BY <2>3, <3>1, <3>2 DEF Stands
  <2> QED BY <2>2, <2>3
<1>8. ASSUME NEW k \in 1..Len(r), NEW i \in c..n, Stands(items, k + 1, i),
             IsData(x), Relevant(x.event)
      PROVE  x.event.seq < i
  <2>1. items[k + 1] = r[k] /\ items[1] = x /\ 1 < k + 1 /\ 1 \in 1..Len(items)
    BY <1>1
  <2>2. CASE IsData(r[k])
    <3>1. r[k].event.seq = i
      BY <1>8, <2>1, <2>2 DEF Stands
    <3> QED BY <1>6, <1>8, <2>2, <3>1
  <2>3. CASE ~IsData(r[k])
    BY <1>8, <2>1, <2>3 DEF Stands
  <2> QED BY <2>2, <2>3
<1>9. ASSUME NEW i \in c..n, Relevant(stream[i])
      PROVE  \/ /\ \E k \in 1..Len(r) : Stands(r, k, i)
                /\ IsData(x) /\ Relevant(x.event) => x.event.seq < i
             \/ IsData(x) /\ x.event.seq = i
             \/ /\ ~IsData(x) /\ x.event.group = Selected
                /\ \A k \in 1..Len(r) :
                     IsData(r[k]) /\ Relevant(r[k].event) => i < r[k].event.seq
  <2>1. PICK k \in 1..Len(items) : Stands(items, k, i)
    BY <1>2, <1>9 DEF Accounted, Covering
  <2>2. CASE k = 1
    <3>1. CASE IsData(x)
      BY <1>1, <2>1, <2>2, <3>1 DEF Stands
    <3>2. CASE ~IsData(x)
      <4>1. x.event.group = Selected
        BY <1>1, <2>1, <2>2, <3>2 DEF Stands
      <4>2. ASSUME NEW j \in 1..Len(r), IsData(r[j]), Relevant(r[j].event)
            PROVE  i < r[j].event.seq
        <5>1. items[j + 1] = r[j] /\ j + 1 \in 1..Len(items) /\ j + 1 > 1
          BY <1>1
        <5>2. r[j].event.seq > i
          BY <1>1, <2>1, <2>2, <3>2, <4>2, <5>1 DEF Stands
        <5>3. r[j].event.seq \in 1..n
          BY <1>4, <4>2 DEF ItemKnown
        <5> QED BY <5>2, <5>3
      <4> QED BY <3>2, <4>1, <4>2
    <3> QED BY <3>1, <3>2
  <2>3. CASE k # 1
    <3>1. k - 1 \in 1..Len(r) /\ (k - 1) + 1 = k
      BY <1>1, <2>1, <2>3
    <3>2. Stands(r, k - 1, i)
      BY <1>7, <2>1, <3>1
    <3>3. IsData(x) /\ Relevant(x.event) => x.event.seq < i
      BY <1>8, <2>1, <3>1
    <3> QED BY <3>1, <3>2, <3>3
  <2> QED BY <2>2, <2>3
<1> QED BY <1>1, <1>4, <1>5, <1>6, <1>9 DEF items

(* A message that is not the route's has left nothing unaccounted for; one   *)
(* of the route's was the next.                                              *)
LEMMA AfterData ==
  ASSUME NEW stream, NEW x \in Items, NEW r \in Seq(Items), NEW c \in Nat, NEW n \in Nat,
         Accounted(stream, <<x>> \o r, c, n), IsData(x), NEW p, p = x.event.seq
  PROVE  /\ p \in 1..n /\ x.event = stream[p] /\ OnRoute(x.event)
         /\ ~Relevant(x.event) => Accounted(stream, r, c, n)
         /\ Relevant(x.event) =>
              /\ c <= p /\ \A i \in c..(p - 1) : ~Relevant(stream[i])
              /\ Accounted(stream, r, p + 1, n)
<1>1. p \in 1..n /\ x.event = stream[p] /\ OnRoute(x.event) /\ (Relevant(x.event) => c <= p)
  BY WithoutFirst DEF ItemKnown
<1>2. /\ \A k \in 1..Len(r) : ItemKnown(stream, r[k], c, n)
      /\ Rising(r) /\ \A k \in 1..Len(r) : IsData(r[k]) => p < r[k].event.seq
  BY WithoutFirst
<1>3. \A i \in c..n : Relevant(stream[i]) =>
        \/ /\ \E k \in 1..Len(r) : Stands(r, k, i)
           /\ Relevant(x.event) => p < i
        \/ p = i
  BY WithoutFirst
<1>4. ASSUME ~Relevant(x.event) PROVE Accounted(stream, r, c, n)
  <2>1. Covering(stream, r, c, n)
    BY <1>1, <1>3, <1>4 DEF Covering
  <2> QED BY <1>2, <2>1 DEF Accounted
<1>5. ASSUME Relevant(x.event)
      PROVE  (\A i \in c..(p - 1) : ~Relevant(stream[i])) /\ Accounted(stream, r, p + 1, n)
  <2>1. ASSUME NEW i \in c..(p - 1) PROVE ~Relevant(stream[i])
    <3>1. i \in c..n /\ ~(p < i) /\ p # i
      BY <1>1
    <3> QED BY <1>3, <1>5, <3>1
  <2>2. ASSUME NEW i \in (p + 1)..n, Relevant(stream[i])
        PROVE  \E k \in 1..Len(r) : Stands(r, k, i)
    <3>1. i \in c..n /\ p # i
      BY <1>1, <1>5
    <3> QED BY <1>3, <2>2, <3>1
  <2>3. ASSUME NEW k \in 1..Len(r) PROVE ItemKnown(stream, r[k], p + 1, n)
    <3>1. ItemKnown(stream, r[k], c, n) /\ (IsData(r[k]) => p < r[k].event.seq)
      BY <1>2
    <3>2. IsData(r[k]) => r[k].event.seq \in 1..n
      BY <3>1 DEF ItemKnown
    <3>3. IsData(r[k]) => p + 1 <= r[k].event.seq
      BY <1>1, <3>1, <3>2
    <3> QED BY <3>1, <3>3 DEF ItemKnown
  <2> QED BY <1>2, <2>1, <2>2, <2>3 DEF Accounted, Covering
<1> QED BY <1>1, <1>4, <1>5

(* After a marker of the route's group, the account goes on at the next      *)
(* message that is still there.                                              *)
LEMMA AfterMarker ==
  ASSUME NEW stream, NEW x \in Items, NEW r \in Seq(Items), NEW c \in Nat, NEW n \in Nat,
         c <= n + 1, Accounted(stream, <<x>> \o r, c, n), ~IsData(x)
  PROVE  /\ x.event.group \in Groups /\ x.event = Loss("wms", x.event.group, TRUE)
         /\ x.event.group # Selected => Accounted(stream, r, c, n)
         /\ \E d \in c..(n + 1) : Accounted(stream, r, d, n)
<1>1. x.event.group \in Groups /\ x.event = Loss("wms", x.event.group, TRUE)
  BY WithoutFirst DEF ItemKnown
<1>2. (\A k \in 1..Len(r) : ItemKnown(stream, r[k], c, n)) /\ Rising(r) /\ Len(r) \in Nat
  BY WithoutFirst
<1>3. \A i \in c..n : Relevant(stream[i]) =>
        \/ \E k \in 1..Len(r) : Stands(r, k, i)
        \/ /\ x.event.group = Selected
           /\ \A k \in 1..Len(r) : IsData(r[k]) /\ Relevant(r[k].event) => i < r[k].event.seq
  BY WithoutFirst
<1>4. x.event.group # Selected => Accounted(stream, r, c, n)
  <2> SUFFICES ASSUME x.event.group # Selected PROVE Accounted(stream, r, c, n)
    OBVIOUS
  <2>1. Covering(stream, r, c, n)
    BY <1>3 DEF Covering
  <2> QED BY <1>2, <2>1 DEF Accounted
<1> DEFINE T == {j \in c..(n + 1) : j = n + 1 \/
                   \E k \in 1..Len(r) : IsData(r[k]) /\ Relevant(r[k].event) /\ r[k].event.seq = j}
<1>5. PICK d \in T : \A j \in T : d <= j
  <2>1. T \in SUBSET Nat
    <3>1. \A j \in c..(n + 1) : j \in Nat
      OBVIOUS
    <3> QED BY <3>1
  <2>2. n + 1 \in T
    OBVIOUS
  <2> HIDE DEF T
  <2> QED BY <2>1, <2>2, Smallest
<1>6. /\ d \in c..(n + 1)
      /\ d = n + 1 \/ \E k \in 1..Len(r) : IsData(r[k]) /\ Relevant(r[k].event) /\ r[k].event.seq = d
  BY <1>5
<1>7. ASSUME NEW k \in 1..Len(r), IsData(r[k]), Relevant(r[k].event)
      PROVE  d <= r[k].event.seq
  <2>1. r[k].event.seq \in 1..n /\ c <= r[k].event.seq
    BY <1>2, <1>7 DEF ItemKnown
  <2>2. r[k].event.seq \in T
    BY <1>7, <2>1
  <2> QED BY <1>5, <2>2
<1> HIDE DEF T
<1>8. ASSUME NEW k \in 1..Len(r) PROVE ItemKnown(stream, r[k], d, n)
  BY <1>2, <1>7 DEF ItemKnown
<1>9. ASSUME NEW i \in d..n, Relevant(stream[i]) PROVE \E k \in 1..Len(r) : Stands(r, k, i)
  <2>1. i \in c..n /\ d <= i /\ d # n + 1
    BY <1>6
  <2>2. PICK k \in 1..Len(r) : IsData(r[k]) /\ Relevant(r[k].event) /\ r[k].event.seq = d
    BY <1>6, <2>1
  <2>3. ~(i < r[k].event.seq)
    BY <1>6, <2>1, <2>2
  <2> QED BY <1>3, <1>9, <2>1, <2>2, <2>3
<1>10. Accounted(stream, r, d, n)
  BY <1>2, <1>8, <1>9 DEF Accounted, Covering
<1> QED BY <1>1, <1>4, <1>6, <1>10

(* The next message is queued, or a marker is, or neither.                   *)
LEMMA KnownLonger ==
  ASSUME NEW stream, NEW x, NEW c \in Nat, NEW n \in Nat, ItemKnown(stream, x, c, n)
  PROVE  ItemKnown(stream, x, c, n + 1)
<1>1. 1..n \subseteq 1..(n + 1)
  OBVIOUS
<1> QED BY <1>1 DEF ItemKnown

LEMMA OneMore ==
  ASSUME NEW stream, NEW items, NEW c \in Nat, NEW n \in Nat, Accounted(stream, items, c, n),
         c <= n + 1, NEW x \in Items, ItemKnown(stream, x, c, n + 1),
         IF IsData(x) THEN x.event.seq = n + 1
         ELSE Relevant(stream[n + 1]) => x.event.group = Selected
  PROVE  Accounted(stream, Append(items, x), c, n + 1)
<1> DEFINE more == Append(items, x)
           last == Len(items) + 1
<1>1. /\ more \in Seq(Items) /\ Len(items) \in Nat /\ Len(more) = last /\ more[last] = x
      /\ \A k \in 1..Len(items) : more[k] = items[k] /\ k < last
      /\ \A k \in 1..last : k \in 1..Len(items) \/ k = last
      /\ last \in 1..last /\ \A k \in 1..Len(items) : k \in 1..last
  BY DEF Accounted
<1>2. /\ \A k \in 1..Len(items) : ItemKnown(stream, items[k], c, n)
      /\ Rising(items) /\ Covering(stream, items, c, n)
  BY DEF Accounted
<1> HIDE DEF more, last
<1>3. ASSUME NEW k \in 1..last PROVE ItemKnown(stream, more[k], c, n + 1)
  <2>1. CASE k \in 1..Len(items)
    BY <1>1, <1>2, <2>1, KnownLonger
  <2>2. CASE k = last
    BY <1>1, <2>2
  <2> QED BY <1>1, <2>1, <2>2
<1>4. ASSUME NEW k \in 1..Len(items), IsData(items[k]) PROVE items[k].event.seq \in 1..n
  BY <1>2, <1>4 DEF ItemKnown
<1>5. Rising(more)
  <2> SUFFICES ASSUME NEW j \in 1..last, NEW k \in 1..last, j < k, IsData(more[j]), IsData(more[k])
               PROVE  more[j].event.seq < more[k].event.seq
    BY <1>1 DEF Rising
  <2>1. CASE k \in 1..Len(items)
    <3>1. j \in 1..Len(items)
      BY <1>1, <2>1
    <3> QED BY <1>1, <1>2, <2>1, <3>1 DEF Rising
  <2>2. CASE k = last
    <3>1. j \in 1..Len(items)
      BY <1>1, <2>2
    <3>2. more[j].event.seq \in 1..n
      BY <1>1, <1>4, <3>1
    <3>3. more[k].event.seq = n + 1
      BY <1>1, <2>2
    <3> QED BY <3>2, <3>3
  <2> QED BY <1>1, <2>1, <2>2
<1>6. ASSUME NEW k \in 1..Len(items), NEW i \in c..n, Stands(items, k, i)
      PROVE  Stands(more, k, i)
  <2>1. more[k] = items[k]
    BY <1>1
  <2>2. CASE IsData(items[k])
    BY <1>6, <2>1, <2>2 DEF Stands
  <2>3. CASE ~IsData(items[k])
    <3>1. items[k].event.group = Selected
      BY <1>6, <2>3 DEF Stands
    <3>2. ASSUME NEW j \in 1..last, IsData(more[j]), Relevant(more[j].event)
          PROVE  /\ j < k => more[j].event.seq < i
                 /\ j > k => more[j].event.seq > i
      <4>1. CASE j \in 1..Len(items)
        BY <1>1, <1>6, <2>3, <3>2, <4>1 DEF Stands
      <4>2. CASE j = last
        <5>1. more[j].event.seq = n + 1 /\ n + 1 > i /\ ~(j < k)
          BY <1>1, <3>2, <4>2
        <5> QED BY <5>1
      <4> QED BY <1>1, <4>1, <4>2
    <3> QED BY <1>1, <2>1, <2>3, <3>1, <3>2 DEF Stands
  <2> QED BY <2>2, <2>3
<1>7. ASSUME Relevant(stream[n + 1]) PROVE Stands(more, last, n + 1)
  <2>1. CASE IsData(x)
    BY <1>1, <2>1 DEF Stands
  <2>2. CASE ~IsData(x)
    <3>1. more[last] = x /\ x.event.group = Selected
      BY <1>1, <1>7, <2>2
    <3>2. ASSUME NEW j \in 1..last, IsData(more[j])
          PROVE  j \in 1..Len(items) /\ more[j].event.seq < n + 1 /\ ~(j > last)
      <4>1. j \in 1..Len(items)
        BY <1>1, <2>2, <3>2
      <4>2. more[j].event.seq \in 1..n
        BY <1>1, <1>4, <3>2, <4>1
      <4> QED BY <1>1, <4>1, <4>2
    <3> QED BY <1>1, <2>2, <3>1, <3>2 DEF Stands
  <2> QED BY <2>1, <2>2
<1>8. ASSUME NEW i \in c..(n + 1), Relevant(stream[i])
      PROVE  \E k \in 1..last : Stands(more, k, i)
  <2>1. CASE i = n + 1
    <3>1. last \in 1..last
      BY <1>1
    <3> QED BY <1>7, <1>8, <2>1, <3>1
  <2>2. CASE i # n + 1
    <3>1. i \in c..n
      BY <2>2
    <3>2. PICK k \in 1..Len(items) : Stands(items, k, i)
      BY <1>2, <1>8, <3>1 DEF Covering
    <3> QED BY <1>1, <1>6, <3>1, <3>2
  <2> QED BY <2>1, <2>2
<1>9. Accounted(stream, more, c, n + 1)
  BY <1>1, <1>3, <1>5, <1>8 DEF Accounted, Covering
<1> QED BY <1>9 DEF more

LEMMA NoneMore ==
  ASSUME NEW stream, NEW items, NEW c \in Nat, NEW n \in Nat, Accounted(stream, items, c, n),
         Relevant(stream[n + 1]) =>
           \E k \in 1..Len(items) :
             /\ ~IsData(items[k]) /\ items[k].event.group = Selected
             /\ \A j \in 1..Len(items) :
                  IsData(items[j]) /\ Relevant(items[j].event) => ~(j > k)
  PROVE  Accounted(stream, items, c, n + 1)
<1>1. /\ items \in Seq(Items) /\ Rising(items)
      /\ \A k \in 1..Len(items) : ItemKnown(stream, items[k], c, n)
      /\ Covering(stream, items, c, n)
  BY DEF Accounted
<1>2. \A k \in 1..Len(items) : ItemKnown(stream, items[k], c, n + 1)
  BY <1>1, KnownLonger
<1>3. ASSUME NEW i \in c..(n + 1), Relevant(stream[i])
      PROVE  \E k \in 1..Len(items) : Stands(items, k, i)
  <2>1. CASE i \in c..n
    BY <1>1, <1>3, <2>1 DEF Covering
  <2>2. CASE i = n + 1
    <3>1. PICK k \in 1..Len(items) :
            /\ ~IsData(items[k]) /\ items[k].event.group = Selected
            /\ \A j \in 1..Len(items) :
                 IsData(items[j]) /\ Relevant(items[j].event) => ~(j > k)
      BY <1>3, <2>2
    <3>2. ASSUME NEW j \in 1..Len(items), IsData(items[j]) PROVE items[j].event.seq < n + 1
      <4>1. items[j].event.seq \in 1..n
        BY <1>1, <3>2 DEF ItemKnown
      <4> QED BY <4>1
    <3> QED BY <2>2, <3>1, <3>2 DEF Stands
  <2>3. i \in c..n \/ i = n + 1
    OBVIOUS
  <2> QED BY <2>1, <2>2, <2>3
<1> QED BY <1>1, <1>2, <1>3 DEF Accounted, Covering

-----------------------------------------------------------------------------
(* The capture reads the route's group alone, and is clean up to the place   *)
(* from which what waits accounts for what came.                             *)
OnlySelected(s) == s.receiving /\ \A l \in Lanes \ {Selected} : ~s.lanes[l].inside

Traced(stream, items, s, c, n) ==
  /\ Accounted(stream, items, c, n)
  /\ OnlySelected(s)
  /\ Clean(s, stream, <<c, 0>>)

TracedTo(n) == \E c \in 1..(n + 1) : Traced(Heard, Waiting, capture, c, n)

Delivery ==
  \E n \in 0..Settled :
    /\ accepting \/ callback.at = "passed" => n = Settled
    /\ TracedTo(n)

(* A message of the route has something for it, or is no SysEx7 at all.      *)
LEMMA RouteKnown ==
  ASSUME NEW e \in Messages, OnRoute(e)
  PROVE  /\ Relevant(e) => LaneOf(e) = Selected
         /\ ~Relevant(e) => e.data[1].kind = "other"
<1>1. /\ e.type = "ump" /\ DOMAIN e.data = {1} /\ Head(e.data) = e.data[1]
      /\ e.data[1] \in [lane : Groups, kind : PacketKinds]
  BY MessageKnown
<1>2. e.data[1].kind # "realtime"
  BY <1>1 DEF PacketKinds
<1>3. ASSUME Relevant(e) PROVE e.data[1].lane = Selected
  <2>1. PICK k \in OffsetsOf(e, Selected) : TRUE
    BY <1>3 DEF Relevant
  <2>2. k \in DOMAIN e.data /\ e.data[k].lane = Selected
    BY <1>1, <2>1 DEF OffsetsOf
  <2> QED BY <1>1, <2>2
<1>4. ASSUME ~Relevant(e), e.data[1].kind # "other" PROVE FALSE
  <2>1. e.data[1].lane = Selected
    BY <1>1, <1>4 DEF OnRoute, LaneOf
  <2>2. 1 \in OffsetsOf(e, Selected)
    BY <1>1, <1>2, <1>4, <2>1 DEF OffsetsOf
  <2> QED BY <1>4, <2>2 DEF Relevant
<1> QED BY <1>1, <1>3, <1>4 DEF LaneOf

LEMMA DeliverData ==
  ASSUME NEW stream, IsStream(stream), NEW p \in DOMAIN stream, stream[p] \in Messages,
         NEW c \in Nat, c <= p, \A i \in c..(p - 1) : ~Relevant(stream[i]),
         Relevant(stream[p]), OnRoute(stream[p]),
         NEW s, OnlySelected(s), Clean(s, stream, <<c, 0>>),
         NEW u, u = ConsumeEvent(s, stream[p])
  PROVE  OnlySelected(u) /\ Clean(u, stream, <<p + 1, 0>>)
<1>1. p \in Nat /\ stream[p].type # "loss" /\ Selected \in Groups
  BY MessageKnown, SelectedAssumption DEF IsStream
<1>2. \A l \in Lanes : s.lanes[l].inside =>
        \A i \in c..(p - 1) : i \in DOMAIN stream => OffsetsOf(stream[i], l) = {}
  BY DEF OnlySelected, Relevant
<1>3. Clean(s, stream, <<p, 0>>)
  BY <1>1, <1>2, Skipped
<1>4. u = ConsumeData(s, stream[p])
  BY <1>1 DEF ConsumeEvent, OnlySelected
<1>5. Clean(u, stream, <<p + 1, 0>>) /\ u.receiving = s.receiving
  BY <1>1, <1>3, <1>4, DataClean
<1>6. LaneOf(stream[p]) = Selected /\ stream[p].data[1].kind \in PacketKinds
  BY RouteKnown, MessageKnown
<1>7. PICK at : at = <<stream[p].seq, 1>>
  OBVIOUS
<1>8. u = ConsumePacket(s, Selected, stream[p].data[1].kind, at)
  BY <1>4, <1>6, <1>7, OnePacket
<1>9. \A m \in Lanes \ {Selected} : u.lanes[m] = s.lanes[m]
  BY <1>1, <1>3, <1>6, <1>8, LaneAlone DEF Clean
<1> QED BY <1>5, <1>9 DEF OnlySelected

LEMMA DeliverOther ==
  ASSUME NEW e \in Messages, OnRoute(e), ~Relevant(e), NEW s, OnlySelected(s)
  PROVE  ConsumeEvent(s, e) = s
<1>1. e.type # "loss" /\ e.data[1].kind = "other"
  BY MessageKnown, RouteKnown
<1>2. ConsumeEvent(s, e) = ConsumeData(s, e)
  BY <1>1 DEF ConsumeEvent, OnlySelected
<1>3. PICK at : at = <<e.seq, 1>>
  OBVIOUS
<1>4. ConsumeData(s, e) = ConsumePacket(s, LaneOf(e), e.data[1].kind, at)
  BY <1>3, OnePacket
<1> QED BY <1>1, <1>2, <1>4 DEF ConsumePacket

LEMMA DeliverMarker ==
  ASSUME NEW stream, NEW q, NEW s, OnlySelected(s), Clean(s, stream, q),
         NEW g \in Groups, NEW u, u = ConsumeEvent(s, Loss("wms", g, TRUE))
  PROVE  /\ OnlySelected(u)
         /\ g # Selected => Clean(u, stream, q)
         /\ g = Selected => \A r : Clean(u, stream, r)
<1>1. s \in Sessions /\ FramesClean(stream, s.frames)
  BY DEF Clean
<1>2. PICK T : T = {g}
  OBVIOUS
<1>3. u = NotifyLoss(s, T)
  BY <1>2, MarkerKnown DEF ConsumeEvent, OnlySelected
<1>4. \A l \in Lanes :
        u.lanes[l] = IF l \notin T THEN s.lanes[l]
                     ELSE IF s.lanes[l].inside THEN [s.lanes[l] EXCEPT !.lost = TRUE]
                     ELSE [s.lanes[l] EXCEPT !.pending = TRUE]
  BY <1>1, <1>3 DEF NotifyLoss, Sessions
<1>5. /\ u.receiving = s.receiving /\ u.frames = s.frames
      /\ u = [receiving |-> u.receiving, lanes |-> u.lanes, frames |-> u.frames]
      /\ u.lanes = [l \in Lanes |-> u.lanes[l]]
  BY <1>1, <1>3 DEF NotifyLoss, Sessions
<1>6. ASSUME NEW l \in Lanes
      PROVE  /\ u.lanes[l] \in LaneState /\ u.lanes[l].inside = s.lanes[l].inside
             /\ l = g => ~(u.lanes[l].inside /\ ~u.lanes[l].lost)
             /\ l # g => u.lanes[l] = s.lanes[l]
  <2>1. s.lanes[l] \in LaneState
    BY <1>1, LaneKnown
  <2>2. CASE l \in T /\ s.lanes[l].inside
    <3>1. u.lanes[l] = [s.lanes[l] EXCEPT !.lost = TRUE]
      BY <1>4, <2>2
    <3> QED BY <1>2, <2>1, <2>2, <3>1 DEF LaneState
  <2>3. CASE l \in T /\ ~s.lanes[l].inside
    <3>1. u.lanes[l] = [s.lanes[l] EXCEPT !.pending = TRUE]
      BY <1>4, <2>3
    <3> QED BY <1>2, <2>1, <2>3, <3>1 DEF LaneState
  <2>4. CASE l \notin T
    BY <1>2, <1>4, <2>1, <2>4
  <2> QED BY <2>2, <2>3, <2>4
<1>7. u \in Sessions
  <2>1. u.lanes \in [Lanes -> LaneState]
    BY <1>5, <1>6
  <2>2. u.receiving \in BOOLEAN /\ u.frames \in Seq(Frame)
    BY <1>1, <1>5 DEF Sessions
  <2> QED BY <1>5, <2>1, <2>2 DEF Sessions
<1>8. OnlySelected(u)
  BY <1>5, <1>6 DEF OnlySelected
<1>9. ASSUME g # Selected PROVE Clean(u, stream, q)
  <2>1. ASSUME NEW l \in Lanes PROVE LaneClean(stream, l, u.lanes[l], q)
    BY <1>6 DEF LaneClean, Clean
  <2> QED BY <1>1, <1>5, <1>7, <2>1 DEF Clean
<1>10. ASSUME g = Selected, NEW r PROVE Clean(u, stream, r)
  <2>1. ASSUME NEW l \in Lanes PROVE LaneClean(stream, l, u.lanes[l], r)
    <3>1. CASE l = g
      BY <1>6, <3>1 DEF LaneClean
    <3>2. CASE l # g
      BY <1>8, <1>10, <3>2 DEF LaneClean, OnlySelected
    <3> QED BY <3>1, <3>2
  <2> QED BY <1>1, <1>5, <1>7, <2>1 DEF Clean
<1> QED BY <1>8, <1>9, <1>10

(* The first of what waits is delivered. *)
LEMMA DeliverTraced ==
  ASSUME NEW stream, IsStream(stream), \A i \in DOMAIN stream : stream[i] \in Messages,
         NEW x \in Items, NEW r \in Seq(Items), NEW n \in Nat, n <= Len(stream),
         NEW c \in 1..(n + 1), NEW s, Traced(stream, <<x>> \o r, s, c, n),
         NEW u, u = ConsumeEvent(s, x.event)
  PROVE  \E d \in 1..(n + 1) : Traced(stream, r, u, d, n)
<1>1. /\ Accounted(stream, <<x>> \o r, c, n) /\ OnlySelected(s) /\ Clean(s, stream, <<c, 0>>)
      /\ c \in Nat /\ c <= n + 1 /\ c >= 1
  BY DEF Traced
<1>2. CASE IsData(x)
  <2>1. PICK p : p = x.event.seq
    OBVIOUS
  <2>2. /\ p \in 1..n /\ x.event = stream[p] /\ OnRoute(x.event)
        /\ ~Relevant(x.event) => Accounted(stream, r, c, n)
        /\ Relevant(x.event) =>
              /\ c <= p /\ \A i \in c..(p - 1) : ~Relevant(stream[i])
              /\ Accounted(stream, r, p + 1, n)
    <3>1. Accounted(stream, <<x>> \o r, c, n) /\ IsData(x) /\ c \in Nat
      BY <1>1, <1>2
    <3> HIDE DEF Traced
    <3> QED BY <2>1, <3>1, AfterData
  <2>3. p \in DOMAIN stream /\ x.event \in Messages
    BY <2>2 DEF IsStream
  <2>4. CASE ~Relevant(x.event)
    <3>1. u = s
      BY <1>1, <2>2, <2>3, <2>4, DeliverOther
    <3> QED BY <1>1, <2>2, <2>4, <3>1 DEF Traced
  <2>5. CASE Relevant(x.event)
    <3>1. OnlySelected(u) /\ Clean(u, stream, <<p + 1, 0>>)
      BY <1>1, <2>2, <2>3, <2>5, DeliverData
    <3>2. p + 1 \in 1..(n + 1)
      BY <2>2
    <3> QED BY <2>2, <2>5, <3>1, <3>2 DEF Traced
  <2> QED BY <2>4, <2>5
<1>3. CASE ~IsData(x)
  <2>1. PICK g : g = x.event.group
    OBVIOUS
  <2>2. /\ g \in Groups /\ x.event = Loss("wms", g, TRUE)
        /\ g # Selected => Accounted(stream, r, c, n)
        /\ \E d \in c..(n + 1) : Accounted(stream, r, d, n)
    BY <1>1, <1>3, <2>1, AfterMarker
  <2>3. PICK q : q = <<c, 0>>
    OBVIOUS
  <2>4. /\ OnlySelected(u)
        /\ g # Selected => Clean(u, stream, <<c, 0>>)
        /\ g = Selected => \A t : Clean(u, stream, t)
    BY <1>1, <2>2, <2>3, DeliverMarker
  <2>5. CASE g # Selected
    BY <2>2, <2>4, <2>5 DEF Traced
  <2>6. CASE g = Selected
    <3>1. PICK d \in c..(n + 1) : Accounted(stream, r, d, n)
      BY <2>2
    <3>2. d \in 1..(n + 1)
      BY <1>1
    <3> QED BY <2>4, <2>6, <3>1, <3>2 DEF Traced
  <2> QED BY <2>5, <2>6
<1> QED BY <1>2, <1>3

-----------------------------------------------------------------------------
(* Every step keeps the account.                                             *)

(* The account does not mind that the stream goes on.                        *)
LEMMA TracedLonger ==
  ASSUME NEW stream, IsStream(stream), NEW y \in Events, y.seq = Len(stream) + 1,
         NEW longer, longer = Append(stream, y),
         NEW items, NEW s, NEW n \in Nat, n <= Len(stream), NEW c \in 1..(n + 1),
         Traced(stream, items, s, c, n)
  PROVE  /\ Traced(longer, items, s, c, n)
         /\ longer[Len(stream) + 1] = y
<1>1. /\ Len(stream) \in Nat /\ \A i \in 1..Len(stream) : longer[i] = stream[i]
      /\ longer[Len(stream) + 1] = y
  BY DEF IsStream
<1>2. c \in Nat /\ c <= Len(stream) + 1 /\ c <= n + 1 /\ c >= 1
  BY <1>1
<1>3. PICK q : q = <<c, 0>>
  OBVIOUS
<1>4. Clean(s, longer, q)
  <2>1. Clean(s, stream, q)
    BY <1>3 DEF Traced
  <2> QED BY <1>2, <1>3, <2>1, CleanLonger
<1>5. /\ items \in Seq(Items) /\ Rising(items)
      /\ \A k \in 1..Len(items) : ItemKnown(stream, items[k], c, n)
      /\ Covering(stream, items, c, n)
  BY DEF Traced, Accounted
<1>6. ASSUME NEW k \in 1..Len(items) PROVE ItemKnown(longer, items[k], c, n)
  <2>1. ItemKnown(stream, items[k], c, n)
    BY <1>5
  <2>2. IsData(items[k]) => items[k].event.seq \in 1..Len(stream)
    BY <1>1, <2>1 DEF ItemKnown
  <2> QED BY <1>1, <2>1, <2>2 DEF ItemKnown
<1>7. Covering(longer, items, c, n)
  <2>1. \A i \in c..n : i \in 1..Len(stream)
    BY <1>1, <1>2
  <2> QED BY <1>1, <1>5, <2>1 DEF Covering
<1> QED BY <1>1, <1>3, <1>4, <1>5, <1>6, <1>7 DEF Traced, Accounted

LEMMA TracedOn ==
  ASSUME NEW stream, NEW items, NEW s, NEW c \in Nat, NEW n \in Nat, c \in 1..(n + 1),
         Traced(stream, items, s, c, n), ~Relevant(stream[n + 1])
  PROVE  Traced(stream, items, s, c, n + 1) /\ c \in 1..((n + 1) + 1)
<1>1. Accounted(stream, items, c, n)
  BY DEF Traced
<1>2. Accounted(stream, items, c, n + 1)
  BY <1>1, NoneMore
<1> QED BY <1>2 DEF Traced

(* A step that neither queues nor delivers, and settles no message.          *)
LEMMA StillDelivery ==
  ASSUME WmsKnown, Delivery, UNCHANGED <<arriving, capture, unmarked>>, Waiting' = Waiting,
         Settled' = Settled,
         accepting' \/ callback'.at = "passed" => accepting \/ callback.at = "passed"
  PROVE  Delivery'
<1>1. PICK n \in 0..Settled : (accepting \/ callback.at = "passed" => n = Settled) /\ TracedTo(n)
  BY DEF Delivery
<1>2. Heard' = Heard
  BY HeardSame
<1>3. TracedTo(n)'
  BY <1>1, <1>2 DEF TracedTo
<1> QED BY <1>1, <1>3 DEF Delivery, TracedTo

(* One that settles a message without queueing it.  If the message counts,   *)
(* it has nothing for the group or is blank.                                 *)
LEMMA DoneDelivery ==
  ASSUME WmsKnown, Delivery, UNCHANGED <<arriving, capture>>, Waiting' = Waiting,
         Settled' = Settled + 1, Settled + 1 <= Len(arriving),
         unmarked' = unmarked \/ unmarked' = unmarked \cup {Settled + 1},
         callback'.at = "out", accepting' => accepting,
         accepting \/ callback.at = "passed" =>
           Settled + 1 \in unmarked' \/ ~Relevant(Arriving[Settled + 1])
  PROVE  Delivery'
<1>1. PICK n \in 0..Settled : (accepting \/ callback.at = "passed" => n = Settled) /\ TracedTo(n)
  BY DEF Delivery
<1>2. PICK c \in 1..(n + 1) : Traced(Heard, Waiting, capture, c, n)
  BY <1>1 DEF TracedTo
<1>3. PICK m : m = Settled
  OBVIOUS
<1>4. m \in Nat /\ n \in Nat /\ n <= m /\ c \in Nat /\ arriving \in Seq(Messages)
      /\ m + 1 \in 1..Len(arriving)
  BY <1>3, SettledKnown DEF WmsKnown
<1>5. PICK y : y = IF m + 1 \in unmarked' THEN Blank(m + 1) ELSE Arriving[m + 1]
  OBVIOUS
<1>6. Heard' = Append(Heard, y) /\ y \in Messages /\ y.seq = m + 1
  BY <1>3, <1>5, HeardGrows
<1>7. IsStream(Heard) /\ Len(Heard) = m /\ y \in Events
  BY <1>3, <1>6, HeardKnown DEF Messages
<1>8. PICK longer : longer = Append(Heard, y)
  OBVIOUS
<1>9. Traced(longer, Waiting, capture, c, n) /\ longer[m + 1] = y
  <2>1. n <= Len(Heard) /\ y.seq = Len(Heard) + 1
    BY <1>4, <1>6, <1>7
  <2> QED BY <1>2, <1>4, <1>7, <1>8, <2>1, TracedLonger
<1>10. CASE accepting \/ callback.at = "passed"
  <2>1. n = m /\ ~Relevant(y)
    <3>1. n = m
      BY <1>1, <1>3, <1>10
    <3>2. CASE m + 1 \in unmarked'
      <4>1. y = Blank(m + 1) /\ OffsetsOf(y, Selected) = {}
        BY <1>4, <1>5, <3>2, BlankKnown
      <4> QED BY <3>1, <4>1 DEF Relevant
    <3>3. CASE m + 1 \notin unmarked'
      BY <1>3, <1>5, <1>10, <3>1, <3>3
    <3> QED BY <3>2, <3>3
  <2>2. Traced(longer, Waiting, capture, c, n + 1) /\ c \in 1..((n + 1) + 1)
    BY <1>4, <1>9, <2>1, TracedOn
  <2>3. Traced(Heard', Waiting', capture', c, n + 1)
    BY <1>6, <1>8, <2>2
  <2>4. n + 1 \in 0..Settled' /\ n + 1 = Settled'
    BY <1>3, <1>4, <2>1
  <2> QED BY <2>2, <2>3, <2>4 DEF Delivery, TracedTo
<1>11. CASE ~(accepting \/ callback.at = "passed")
  <2>1. Traced(Heard', Waiting', capture', c, n)
    BY <1>6, <1>8, <1>9
  <2>2. n \in 0..Settled' /\ ~(accepting' \/ callback'.at = "passed")
    BY <1>3, <1>4, <1>11
  <2> QED BY <2>1, <2>2 DEF Delivery, TracedTo
<1> QED BY <1>10, <1>11

LEMMA EnterDelivery == WmsKnown /\ Delivery /\ Enter => Delivery'
<1> SUFFICES ASSUME WmsKnown, Delivery, Enter PROVE Delivery'
  OBVIOUS
<1> USE DEF callbackVars, queueVars, closeVars, deliveryVars
<1>1. UNCHANGED <<arriving, received, inHand, capture, unmarked, accepting>>
  BY DEF Enter
<1>2. Waiting' = Waiting
  BY <1>1 DEF Waiting
<1>3. /\ arrived' = arrived + 1 /\ arrived \in Nat /\ arrived + 1 \in 1..Len(arriving)
      /\ callback.at = "out" /\ callback'.at \in {"out", "entered"}
      /\ callback'.at = "out" => ~accepting \/ ~OnRoute(Arriving[arrived + 1])
  BY EnterKnown DEF WmsKnown
<1>4. Settled = arrived /\ Settled' = IF callback'.at = "out" THEN arrived + 1 ELSE arrived
  BY <1>3 DEF Settled
<1>5. ~OnRoute(Arriving[arrived + 1]) => ~Relevant(Arriving[arrived + 1])
  <2> DEFINE e == Arriving[arrived + 1]
  <2>1. e \in Messages
    BY <1>3, ArrivingKnown DEF WmsKnown
  <2>2. e.type = "ump" /\ DOMAIN e.data = {1} /\ Head(e.data) = e.data[1]
    BY <2>1, MessageKnown
  <2> HIDE DEF e
  <2> QED BY <2>2 DEF OnRoute, LaneOf, Relevant, OffsetsOf, e
<1>6. CASE callback'.at = "entered"
  BY <1>1, <1>2, <1>3, <1>4, <1>6, StillDelivery
<1>7. CASE callback'.at = "out"
  <2>1. accepting \/ callback.at = "passed" => ~Relevant(Arriving[Settled + 1])
    BY <1>3, <1>4, <1>5, <1>7
  <2>2. Settled' = Settled + 1 /\ Settled + 1 <= Len(arriving)
    <3>1. arriving \in Seq(Messages)
      BY DEF WmsKnown
    <3> QED BY <1>3, <1>4, <1>7, <3>1
  <2> QED BY <1>1, <1>2, <1>7, <2>1, <2>2, DoneDelivery
<1> QED BY <1>3, <1>6, <1>7

LEMMA GateDelivery == WmsKnown /\ Delivery /\ PassGate => Delivery'
<1> SUFFICES ASSUME WmsKnown, Delivery, PassGate PROVE Delivery'
  OBVIOUS
<1> USE DEF callbackVars, queueVars, closeVars, deliveryVars
<1>1. UNCHANGED <<arriving, arrived, received, inHand, capture, unmarked, accepting>>
  BY DEF PassGate
<1>2. Waiting' = Waiting
  BY <1>1 DEF Waiting
<1>3. callback.at = "entered" /\ callback'.at = IF accepting THEN "passed" ELSE "out"
  BY PassGateKnown
<1>4. /\ arrived \in Nat /\ arrived > 0 /\ arrived <= Len(arriving) /\ Settled = arrived - 1
      /\ arriving \in Seq(Messages) /\ Settled \in Nat
  BY <1>3, SettledKnown DEF WmsKnown
<1>5. Settled' = IF accepting THEN arrived - 1 ELSE arrived
  BY <1>1, <1>3 DEF Settled
<1>6. CASE accepting
  BY <1>1, <1>2, <1>3, <1>4, <1>5, <1>6, StillDelivery
<1>7. CASE ~accepting
  <2>1. Settled' = Settled + 1 /\ Settled + 1 <= Len(arriving)
    BY <1>4, <1>5, <1>7
  <2>2. ~(accepting \/ callback.at = "passed") /\ callback'.at = "out"
    BY <1>3, <1>7
  <2> QED BY <1>1, <1>2, <2>1, <2>2, DoneDelivery
<1> QED BY <1>6, <1>7

(* A message the callback or the queue throws on is settled unmarked.        *)
LEMMA ThrowDelivery == WmsKnown /\ Delivery /\ (CallbackThrows \/ EnqueueThrows) => Delivery'
<1> SUFFICES ASSUME WmsKnown, Delivery, CallbackThrows \/ EnqueueThrows PROVE Delivery'
  OBVIOUS
<1>1. /\ UNCHANGED <<arriving, arrived, accepting, inHand, capture>> /\ callback'.at = "out"
      /\ callback.event.seq = Settled + 1
      /\ Settled' = Settled + 1 /\ Settled + 1 \in 1..Len(arriving)
      /\ unmarked' = unmarked \/ unmarked' = unmarked \cup {Settled + 1}
  BY CallbackEnds
<1>2. received' = received /\ Settled + 1 \in unmarked'
  BY <1>1 DEF CallbackThrows, EnqueueThrows
<1>3. Waiting' = Waiting
  BY <1>1, <1>2 DEF Waiting
<1>4. Settled + 1 <= Len(arriving)
  <2>1. arriving \in Seq(Messages)
    BY DEF WmsKnown
  <2> QED BY <1>1, <2>1
<1> QED BY <1>1, <1>2, <1>3, <1>4, DoneDelivery

LEMMA DeliverDelivery == WmsKnown /\ Delivery /\ Deliver => Delivery'
<1> SUFFICES ASSUME WmsKnown, Delivery, Deliver PROVE Delivery'
  OBVIOUS
<1> USE DEF callbackVars, queueVars, closeVars, deliveryVars
<1>1. PICK x \in Items :
        /\ Waiting = <<x>> \o received /\ Waiting' = received
        /\ capture' = ConsumeEvent(capture, x.event)
        /\ UNCHANGED <<callbackVars, queueVars, closeVars>>
  BY DeliverFirst
<1>2. Settled' = Settled
  BY <1>1 DEF Settled
<1>3. Heard' = Heard
  BY <1>1, <1>2, HeardSame
<1>4. PICK n \in 0..Settled : (accepting \/ callback.at = "passed" => n = Settled) /\ TracedTo(n)
  BY DEF Delivery
<1>5. PICK c \in 1..(n + 1) : Traced(Heard, Waiting, capture, c, n)
  BY <1>4 DEF TracedTo
<1>6. /\ IsStream(Heard) /\ Len(Heard) = Settled /\ Settled \in Nat
      /\ \A i \in DOMAIN Heard : Heard[i] \in Messages
      /\ received \in Seq(Items)
  BY HeardKnown, SettledKnown DEF WmsKnown
<1>7. n \in Nat /\ n <= Len(Heard)
  BY <1>4, <1>6
<1>8. PICK u : u = capture'
  OBVIOUS
<1>9. Traced(Heard, <<x>> \o received, capture, c, n) /\ u = ConsumeEvent(capture, x.event)
  BY <1>1, <1>5, <1>8
<1>10. \E d \in 1..(n + 1) : Traced(Heard, received, u, d, n)
  BY <1>6, <1>7, <1>9, DeliverTraced
<1>11. TracedTo(n)'
  BY <1>1, <1>3, <1>8, <1>10 DEF TracedTo
<1> QED BY <1>1, <1>2, <1>4, <1>11 DEF Delivery

(* What is queued for a message, itself or a marker, accounts for it; so     *)
(* does a marker that is queued with no data of the group behind it.         *)
LEMMA EnqueueDelivery == WmsKnown /\ Delivery /\ EnqueueReceived => Delivery'
<1> SUFFICES ASSUME WmsKnown, Delivery, EnqueueReceived PROVE Delivery'
  OBVIOUS
<1> USE DEF callbackVars, queueVars, closeVars, deliveryVars
<1>1. /\ callback.at = "passed" /\ callback'.at = "out"
      /\ UNCHANGED <<arriving, arrived, accepting, inHand, capture>>
      /\ Settled' = Settled + 1 /\ Settled + 1 = arrived /\ Settled + 1 \in 1..Len(arriving)
      /\ unmarked' = unmarked \/ unmarked' = unmarked \cup {Settled + 1}
      /\ callback.event.seq = arrived
  BY CallbackEnds DEF EnqueueReceived
<1>2. PICK n \in 0..Settled : n = Settled /\ TracedTo(n)
  BY <1>1 DEF Delivery
<1>3. PICK c \in 1..(n + 1) : Traced(Heard, Waiting, capture, c, n)
  BY <1>2 DEF TracedTo
<1>4. /\ n \in Nat /\ c \in Nat /\ c <= n + 1 /\ n + 1 = arrived /\ Settled' = n + 1
      /\ n + 1 \in 1..Len(arriving) /\ n + 1 <= Len(arriving) /\ arriving \in Seq(Messages)
      /\ callback.event = Arriving[n + 1] /\ OnRoute(callback.event)
      /\ n + 1 \notin unmarked
  <2>1. arriving \in Seq(Messages) /\ callback.event = Arriving[arrived] /\ OnRoute(callback.event)
        /\ unmarked \subseteq 1..Settled
    BY <1>1 DEF WmsKnown, CallbackKnown
  <2> QED BY <1>1, <1>2, <1>3, <2>1, SettledKnown
<1>5. /\ Arriving[n + 1] \in Messages /\ Arriving[n + 1].seq = n + 1
      /\ Arriving[n + 1].type = "ump"
  BY <1>4, ArrivingKnown, MessageKnown
<1> DEFINE lane == LaneOf(callback.event)
<1>6. lane \in Groups /\ lane = LaneOf(Arriving[n + 1])
  BY <1>4, EnqueueGrows
<1>7. CASE n + 1 \in unmarked'
  <2>1. Waiting' = Waiting
    <3>1. received' = received
      BY <1>4, <1>7 DEF EnqueueReceived, Drop
    <3> QED BY <1>1, <3>1 DEF Waiting
  <2>2. Settled + 1 \in unmarked' /\ Settled + 1 <= Len(arriving)
    BY <1>2, <1>4, <1>7
  <2> QED BY <1>1, <2>1, <2>2, DoneDelivery
<1>8. CASE n + 1 \notin unmarked'
  <2>1. PICK y : y = Arriving[n + 1]
    OBVIOUS
  <2>2. PICK longer : longer = Append(Heard, y)
    OBVIOUS
  <2>3. y \in Messages /\ y \in Events /\ y.seq = n + 1 /\ Heard' = longer
    <3>1. Heard' = Append(Heard, y)
      BY <1>1, <1>2, <1>4, <1>8, <2>1, HeardGrows
    <3> QED BY <1>5, <2>1, <2>2, <3>1 DEF Messages
  <2>4. Traced(longer, Waiting, capture, c, n) /\ longer[n + 1] = y
    <3>1. IsStream(Heard) /\ Len(Heard) = n
      BY <1>2, HeardKnown
    <3>2. n <= Len(Heard) /\ y.seq = Len(Heard) + 1
      BY <1>4, <2>3, <3>1
    <3> QED BY <1>3, <1>4, <2>2, <2>3, <3>1, <3>2, TracedLonger
  <2>5. Accounted(longer, Waiting, c, n) /\ OnlySelected(capture) /\ Clean(capture, longer, <<c, 0>>)
    BY <2>4 DEF Traced
  <2>6. ASSUME Accounted(longer, Waiting', c, n + 1) PROVE Delivery'
    <3>1. Traced(longer, Waiting', capture, c, n + 1)
      BY <2>5, <2>6 DEF Traced
    <3>2. Traced(Heard', Waiting', capture', c, n + 1) /\ c \in 1..((n + 1) + 1)
      BY <1>1, <1>3, <1>4, <2>3, <3>1
    <3>3. n + 1 \in 0..Settled' /\ n + 1 = Settled'
      BY <1>4
    <3> QED BY <3>2, <3>3 DEF Delivery, TracedTo
  <2>7. Relevant(longer[n + 1]) => lane = Selected
    BY <1>4, <1>5, <1>6, <2>1, <2>4, RouteKnown
  <2>8. CASE Full /\ lane \in marked
    <3>1. received' = received /\ MarkedStill(lane)
      BY <1>1, <1>4, <1>8, <2>8 DEF EnqueueReceived, Drop
    <3>2. Waiting' = Waiting
      BY <1>1, <3>1 DEF Waiting
    <3>3. ASSUME Relevant(longer[n + 1])
          PROVE  \E k \in 1..Len(Waiting) :
                   /\ ~IsData(Waiting[k]) /\ Waiting[k].event.group = Selected
                   /\ \A j \in 1..Len(Waiting) :
                        IsData(Waiting[j]) /\ Relevant(Waiting[j].event) => ~(j > k)
      <4>1. lane = Selected
        BY <2>7, <3>3
      <4>2. received \in Seq(Items) /\ DOMAIN received = 1..Len(received)
        BY DEF WmsKnown
      <4>3. PICK k \in 1..Len(received) :
              /\ received[k].event.type = "loss" /\ received[k].event.group = Selected
              /\ \A j \in 1..Len(received) : j > k => ~IsDataOf(Selected, received[j])
        <5> HIDE DEF lane
        <5> QED BY <3>1, <4>1, <4>2 DEF MarkedStill
      <4>4. PICK h : /\ h \in Nat /\ h = Len(inHand)
                     /\ Len(received) \in Nat /\ Len(Waiting) = h + Len(received)
                     /\ \A j \in 1..Len(Waiting) : j > h =>
                          j - h \in 1..Len(received) /\ Waiting[j] = received[j - h]
        <5>1. inHand \in Seq(Items) /\ received \in Seq(Items)
          BY WaitingKnown DEF WmsKnown
        <5>2. /\ Len(Waiting) = Len(inHand) + Len(received)
              /\ Len(inHand) \in Nat /\ Len(received) \in Nat
              /\ \A i \in 1..Len(inHand) + Len(received) :
                   Waiting[i] = IF i <= Len(inHand) THEN inHand[i] ELSE received[i - Len(inHand)]
          BY <5>1, ConcatProperties DEF Waiting
        <5>3. ASSUME NEW j \in 1..Len(Waiting), j > Len(inHand)
              PROVE  /\ j - Len(inHand) \in 1..Len(received)
                     /\ Waiting[j] = received[j - Len(inHand)]
          BY <5>2, <5>3
        <5> QED BY <5>2, <5>3
      <4>5. h + k \in 1..Len(Waiting) /\ h + k > h /\ (h + k) - h = k
        BY <4>3, <4>4
      <4>6. Waiting[h + k] = received[k]
        BY <4>4, <4>5
      <4>7. ASSUME NEW j \in 1..Len(Waiting), IsData(Waiting[j]), Relevant(Waiting[j].event), j > h + k
            PROVE  FALSE
        <5>1. j - h \in 1..Len(received) /\ Waiting[j] = received[j - h] /\ k < j - h
          <6>1. j > h
            BY <4>3, <4>4, <4>7
          <6> QED BY <4>3, <4>4, <4>7, <6>1
        <5>2. ItemKnown(longer, Waiting[j], c, n)
          BY <2>5 DEF Accounted
        <5>3. /\ Waiting[j].event.seq \in 1..n /\ OnRoute(Waiting[j].event)
              /\ Waiting[j].event = longer[Waiting[j].event.seq]
          BY <4>7, <5>2 DEF ItemKnown
        <5>4. Waiting[j].event \in Messages
          <6>1. Waiting[j].event.seq \in 1..Settled
            BY <1>2, <5>3
          <6>2. /\ Heard[Waiting[j].event.seq] \in Messages
                /\ Heard \in Seq(Events) /\ Len(Heard) = n
            BY <1>2, <6>1, HeardKnown DEF IsStream
          <6>3. longer[Waiting[j].event.seq] = Heard[Waiting[j].event.seq]
            BY <2>2, <2>3, <5>3, <6>2
          <6> QED BY <5>3, <6>2, <6>3
        <5>5. Waiting[j].event.type = "ump" /\ LaneOf(Waiting[j].event) = Selected
          BY <4>7, <5>3, <5>4, RouteKnown, MessageKnown
        <5> QED BY <4>3, <5>1, <5>5 DEF IsDataOf
      <4>8. ~IsData(Waiting[h + k]) /\ Waiting[h + k].event.group = Selected
        BY <4>3, <4>6 DEF IsData
      <4> QED BY <4>5, <4>7, <4>8
    <3>4. Accounted(longer, Waiting, c, n + 1)
      BY <1>4, <2>5, <3>3, NoneMore
    <3> QED BY <2>6, <3>2, <3>4
  <2>9. CASE ~(Full /\ lane \in marked)
    <3>1. PICK event \in {callback.event, Loss("wms", lane, TRUE)} :
            Entry(event) \in Items /\ Waiting' = Append(Waiting, Entry(event))
      <4>1. \/ received' = Append(received, Entry(callback.event))
            \/ received' = Append(received, OverflowMarker(lane))
        BY <2>9 DEF EnqueueReceived, Drop
      <4>2. callback.event \in Events /\ Loss("wms", lane, TRUE) \in Events
        BY <1>6, EnqueueGrows, MarkerKnown
      <4>3. ASSUME NEW event \in Events, received' = Append(received, Entry(event))
            PROVE  Entry(event) \in Items /\ Waiting' = Append(Waiting, Entry(event))
        <5>1. Entry(event) \in Items
          BY DEF Entry, Items, WmsKnown
        <5>2. received \in Seq(Items) /\ inHand \in Seq(Items)
          BY WaitingKnown DEF WmsKnown
        <5>3. inHand \o Append(received, Entry(event)) = Append(inHand \o received, Entry(event))
          BY <5>1, <5>2, AppendLast
        <5>4. Waiting' = inHand \o Append(received, Entry(event))
          BY <1>1, <4>3 DEF Waiting
        <5> QED BY <5>1, <5>3, <5>4 DEF Waiting
      <4>4. CASE received' = Append(received, Entry(callback.event))
        <5>1. Entry(callback.event) \in Items /\ Waiting' = Append(Waiting, Entry(callback.event))
          BY <4>2, <4>3, <4>4
        <5> QED BY <5>1
      <4>5. CASE received' = Append(received, OverflowMarker(lane))
        <5>1. PICK m : m = Loss("wms", lane, TRUE)
          OBVIOUS
        <5>2. OverflowMarker(lane) = Entry(m) /\ m \in Events
          BY <4>2, <5>1 DEF OverflowMarker
        <5>3. Entry(m) \in Items /\ Waiting' = Append(Waiting, Entry(m))
          BY <4>3, <4>5, <5>2
        <5> QED BY <5>1, <5>3
      <4> QED BY <4>1, <4>4, <4>5
    <3>2. PICK x : x = Entry(event)
      OBVIOUS
    <3>3. x.event = event /\ x \in Items /\ Waiting' = Append(Waiting, x)
      BY <3>1, <3>2 DEF Entry
    <3>4. CASE event = callback.event
      <4>1. IsData(x) /\ x.event.seq = n + 1 /\ x.event = longer[n + 1]
        BY <1>4, <1>5, <2>1, <2>4, <3>3, <3>4 DEF IsData
      <4>2. ItemKnown(longer, x, c, n + 1)
        BY <1>4, <3>3, <3>4, <4>1 DEF ItemKnown
      <4>3. Accounted(longer, Append(Waiting, x), c, n + 1)
        BY <1>4, <2>5, <3>3, <4>1, <4>2, OneMore
      <4> QED BY <2>6, <3>3, <4>3
    <3>5. CASE event = Loss("wms", lane, TRUE)
      <4>1. ~IsData(x) /\ x.event.group = lane /\ x.event = Loss("wms", x.event.group, TRUE)
        <5> HIDE DEF lane
        <5> QED BY <1>6, <3>3, <3>5, MarkerKnown DEF IsData
      <4>2. ItemKnown(longer, x, c, n + 1)
        BY <1>6, <4>1 DEF ItemKnown
      <4>3. Accounted(longer, Append(Waiting, x), c, n + 1)
        BY <1>4, <2>5, <2>7, <3>3, <4>1, <4>2, OneMore
      <4> QED BY <2>6, <3>3, <4>3
    <3> QED BY <3>1, <3>4, <3>5
  <2> QED BY <2>8, <2>9
<1> QED BY <1>7, <1>8

LEMMA StepDelivery == WmsKnown /\ Delivery /\ [WmsNext]_wmsVars => Delivery'
<1> SUFFICES ASSUME WmsKnown, Delivery, [WmsNext]_wmsVars PROVE Delivery'
  OBVIOUS
<1> USE DEF callbackVars, queueVars, closeVars, deliveryVars
<1>1. CASE CloseBegin \/ CloseEnd \/ UNCHANGED wmsVars
  <2>1. UNCHANGED <<arriving, arrived, callback, received, inHand, capture, unmarked>>
    BY <1>1 DEF CloseBegin, CloseEnd, wmsVars
  <2>2. accepting' => accepting
    BY <1>1 DEF CloseBegin, CloseEnd, wmsVars
  <2>3. Waiting' = Waiting /\ Settled' = Settled
    BY <2>1 DEF Waiting, Settled
  <2> QED BY <2>1, <2>2, <2>3, StillDelivery
<1>2. CASE Take
  <2>1. UNCHANGED <<arriving, arrived, callback, capture, unmarked, accepting>>
    BY <1>2 DEF Take
  <2>2. Settled' = Settled
    BY <2>1 DEF Settled
  <2> QED BY <1>2, <2>1, <2>2, TakeWaits, StillDelivery
<1> QED BY <1>1, <1>2, EnterDelivery, GateDelivery, ThrowDelivery, DeliverDelivery, EnqueueDelivery
        DEF WmsNext, WmsWorker

LEMMA InitDelivery == WmsInit => Delivery
<1> SUFFICES ASSUME WmsInit PROVE Delivery
  OBVIOUS
<1>1. WmsKnown /\ Waiting = <<>> /\ arriving \in Seq(Messages)
  BY InitWmsKnown DEF WmsKnown
<1>2. /\ arrived = 0 /\ callback.at = "out"
      /\ capture = BeginReceive(NewSession)
  BY DEF WmsInit, NoCallback
<1>4. capture = [NewSession EXCEPT !.receiving = TRUE]
  BY <1>2 DEF BeginReceive, NewSession
<1>5. Clean(capture, Heard, <<1, 0>>)
  <2>1. PICK q, u : q = <<1, 0>> /\ u = capture
    OBVIOUS
  <2>2. Clean(u, Heard, q)
    BY <1>4, <2>1, BeginClean
  <2> QED BY <2>1, <2>2
<1>6. OnlySelected(capture)
  <2>1. capture.receiving = TRUE /\ capture.lanes = [l \in Lanes |-> Idle]
    BY <1>4 DEF NewSession, EmptyLanes
  <2> QED BY <2>1, IdleLane DEF OnlySelected
<1>7. Accounted(Heard, Waiting, 1, 0)
  <2>1. Waiting \in Seq(Items) /\ Len(Waiting) = 0
    BY <1>1
  <2>2. 1..Len(Waiting) = {} /\ 1..0 = {}
    BY <2>1
  <2> QED BY <2>1, <2>2 DEF Accounted, Rising, Covering
<1>8. Settled = 0
  BY <1>2 DEF Settled
<1>9. Traced(Heard, Waiting, capture, 1, 0)
  BY <1>5, <1>6, <1>7 DEF Traced
<1>10. TracedTo(0)
  <2>1. 1 \in 1..(0 + 1)
    OBVIOUS
  <2> QED BY <1>9, <2>1 DEF TracedTo
<1>11. Delivery
  <2>1. 0 \in 0..Settled /\ 0 = Settled
    BY <1>8
  <2> QED BY <1>10, <2>1 DEF Delivery
<1> QED BY <1>11

(* WmsTransport's receive queue and the capture behind it: what is called    *)
(* complete misses nothing the endpoint sent but what was lost unmarked, for *)
(* every capacity, whatever it sends, wherever the queue overflows and       *)
(* whatever the callback throws, close() included.                           *)
THEOREM DeliveredIsWhole == WmsSpec => []WholeButUnmarked
<1>1. WmsInit => WmsKnown /\ Delivery
  BY InitWmsKnown, InitDelivery
<1>2. WmsKnown /\ Delivery /\ [WmsNext]_wmsVars => (WmsKnown /\ Delivery)'
  BY StepWmsKnown, StepDelivery
<1>3. Delivery => WholeButUnmarked
  <2> SUFFICES ASSUME Delivery PROVE WholeButUnmarked
    OBVIOUS
  <2>1. FramesClean(Heard, capture.frames) /\ capture.frames \in Seq(Frame)
    BY DEF Delivery, TracedTo, Traced, Clean, Sessions
  <2>2. DOMAIN capture.frames = 1..Len(capture.frames)
    BY <2>1
  <2> QED BY <2>1, <2>2 DEF FramesClean, FrameClean, WholeButUnmarked
<1> QED BY <1>1, <1>2, <1>3, PTL DEF WmsSpec

-----------------------------------------------------------------------------
(* What becomes of the pieces of a lane.  Each stands at one place of the    *)
(* document or of the frame that is being read: the n-th piece of the i-th   *)
(* frame, or the n-th of what the lane is reading, behind the last frame.    *)

Standing(frames, l, open, i, n, p) ==
  /\ i \in 1..(Len(frames) + 1)
  /\ n \in 1..Len(PiecesIn(frames, l, open, i))
  /\ PiecesIn(frames, l, open, i)[n] = p

Before(i, m, j, n) == i < j \/ (i = j /\ m < n)

(* Of the places in S, those of the lane that hold bytes stand, in order,    *)
(* and nothing else does.                                                    *)
Shelved(stream, S, frames, l, open) ==
  /\ \A i, n, p : Standing(frames, l, open, i, n, p) => p \in S /\ HoldsBytes(stream, l, p)
  /\ \A p \in S : HoldsBytes(stream, l, p) => \E i, n : Standing(frames, l, open, i, n, p)
  /\ \A i, m, j, n, p, q :
       /\ Standing(frames, l, open, i, m, p) /\ Standing(frames, l, open, j, n, q)
       /\ Before(i, m, j, n)
       => Precedes(p, q)

FrameOf(f, l, pieces) == f \in Frame /\ f.lane = l /\ f.pieces = pieces

Reported(f) == f.status = "complete" \/ f.affected

(* Frame i is reported and reaches from a to b.                              *)
Reaches(frames, l, i, a, b) ==
  /\ frames[i].lane = l /\ Reported(frames[i])
  /\ Len(frames[i].pieces) > 0
  /\ frames[i].pieces[1] = a /\ frames[i].pieces[Len(frames[i].pieces)] = b

Found(stream, S, frames, l) ==
  \A a, b \in S : FrameSent(stream, l, a, b) =>
    \E i \in 1..Len(frames) : Reaches(frames, l, i, a, b)

(* A frame that was started at a, and of which only data came since.         *)
Unfinished(stream, S, l, a) ==
  /\ a \in S /\ PieceOf(stream, l, a) /\ KindAt(stream, a) = "start"
  /\ \A p \in S : PieceOf(stream, l, p) /\ Precedes(a, p) =>
       KindAt(stream, p) \in {"data", "continuation"}

Reads(stream, S, l, lane) ==
  \A a : Unfinished(stream, S, l, a) => lane.inside /\ lane.pieces[1] = a

LaneStored(stream, S, frames, l, lane) ==
  /\ Shelved(stream, S, frames, l, lane.pieces)
  /\ Found(stream, S, frames, l)
  /\ lane.inside <=> Len(lane.pieces) > 0

LEMMA PiecesInFrames ==
  ASSUME NEW frames \in Seq(Frame), NEW l, NEW open \in Seq(Place), NEW i, NEW n, NEW p,
         Standing(frames, l, open, i, n, p)
  PROVE  /\ Len(frames) \in Nat /\ Len(open) \in Nat /\ i \in Nat /\ n \in Nat
         /\ PiecesIn(frames, l, open, i) \in Seq(Place)
         /\ p \in Place
         /\ i \in 1..Len(frames) => frames[i].lane = l /\ frames[i] \in Frame
<1>1. Len(frames) \in Nat /\ Len(open) \in Nat /\ i \in Nat
  BY DEF Standing
<1>2. PiecesIn(frames, l, open, i) \in Seq(Place)
  <2>1. CASE i > Len(frames)
    BY <2>1 DEF PiecesIn
  <2>2. CASE ~(i > Len(frames))
    <3>1. i \in 1..Len(frames)
      BY <1>1, <2>2 DEF Standing
    <3>2. frames[i] \in Frame
      BY <3>1
    <3>3. frames[i].pieces \in Seq(Place)
      BY <3>2 DEF Frame
    <3>4. <<>> \in Seq(Place)
      OBVIOUS
    <3> QED BY <2>2, <3>3, <3>4 DEF PiecesIn
  <2> QED BY <2>1, <2>2
<1>3. n \in Nat /\ p \in Place
  BY <1>2 DEF Standing
<1>4. ASSUME i \in 1..Len(frames) PROVE frames[i].lane = l /\ frames[i] \in Frame
  <2>1. ~(i > Len(frames)) /\ frames[i] \in Frame
    BY <1>1, <1>4
  <2>2. frames[i].lane # l => Len(PiecesIn(frames, l, open, i)) = 0
    BY <2>1 DEF PiecesIn
  <2> QED BY <2>1, <2>2 DEF Standing
<1> QED BY <1>1, <1>2, <1>3, <1>4

LEMMA FrameMore ==
  ASSUME NEW frames \in Seq(Frame), NEW f \in Frame, NEW more, more = Append(frames, f)
  PROVE  /\ more \in Seq(Frame) /\ Len(frames) \in Nat /\ Len(more) = Len(frames) + 1
         /\ \A i \in 1..Len(frames) : more[i] = frames[i]
         /\ more[Len(frames) + 1] = f
OBVIOUS

(* A frame of the lane takes what the lane was reading: nothing moves.       *)
LEMMA StandingEmit ==
  ASSUME NEW frames \in Seq(Frame), NEW l, NEW open \in Seq(Place), NEW f, FrameOf(f, l, open),
         NEW more, more = Append(frames, f), NEW none, none = <<>>, NEW i, NEW n, NEW p
  PROVE  Standing(more, l, none, i, n, p) <=> Standing(frames, l, open, i, n, p)
<1>1. /\ Len(frames) \in Nat /\ Len(more) = Len(frames) + 1
      /\ \A j \in 1..Len(frames) : more[j] = frames[j]
      /\ more[Len(frames) + 1] = f /\ f.lane = l /\ f.pieces = open
  BY FrameMore DEF FrameOf
<1>2. Len(none) = 0
  OBVIOUS
<1>3. CASE i \in 1..Len(frames)
  <2>1. PiecesIn(more, l, none, i) = PiecesIn(frames, l, open, i)
    BY <1>1, <1>3 DEF PiecesIn
  <2> QED BY <1>1, <1>3, <2>1 DEF Standing
<1>4. CASE i = Len(frames) + 1
  <2>1. PiecesIn(more, l, none, i) = PiecesIn(frames, l, open, i)
    BY <1>1, <1>4 DEF PiecesIn
  <2> QED BY <1>1, <1>4, <2>1 DEF Standing
<1>5. CASE i = Len(frames) + 2
  <2>1. PiecesIn(more, l, none, i) = none
    BY <1>1, <1>5 DEF PiecesIn
  <2> QED BY <1>1, <1>2, <1>5, <2>1 DEF Standing
<1>6. i \notin 1..(Len(frames) + 2) => ~Standing(more, l, none, i, n, p)
  BY <1>1 DEF Standing
<1>7. i \notin 1..(Len(frames) + 2) => ~Standing(frames, l, open, i, n, p)
  BY <1>1 DEF Standing
<1>8. i \in 1..(Len(frames) + 2) =>
        i \in 1..Len(frames) \/ i = Len(frames) + 1 \/ i = Len(frames) + 2
  BY <1>1
<1> QED BY <1>3, <1>4, <1>5, <1>6, <1>7, <1>8

LEMMA ShelveEmit ==
  ASSUME NEW stream, NEW S, NEW frames \in Seq(Frame), NEW l, NEW open \in Seq(Place),
         Shelved(stream, S, frames, l, open), NEW f, FrameOf(f, l, open),
         NEW more, more = Append(frames, f), NEW none, none = <<>>
  PROVE  Shelved(stream, S, more, l, none)
<1>1. \A i, n, p : Standing(more, l, none, i, n, p) <=> Standing(frames, l, open, i, n, p)
  BY StandingEmit
<1> QED BY <1>1 DEF Shelved

(* A frame of another lane moves what is being read one place on.            *)
LEMMA StandingOther ==
  ASSUME NEW frames \in Seq(Frame), NEW l, NEW open \in Seq(Place), NEW f \in Frame, f.lane # l,
         NEW more, more = Append(frames, f), NEW i, NEW n, NEW p
  PROVE  /\ i \in 1..Len(frames) =>
              (Standing(more, l, open, i, n, p) <=> Standing(frames, l, open, i, n, p))
         /\ i = Len(frames) + 2 =>
              (Standing(more, l, open, i, n, p) <=> Standing(frames, l, open, i - 1, n, p))
         /\ i = Len(frames) + 1 => ~Standing(more, l, open, i, n, p)
         /\ Standing(more, l, open, i, n, p) => i \in 1..(Len(frames) + 2)
<1>1. /\ Len(frames) \in Nat /\ Len(more) = Len(frames) + 1
      /\ \A j \in 1..Len(frames) : more[j] = frames[j]
      /\ more[Len(frames) + 1] = f /\ f.lane # l
  BY FrameMore
<1>2. ASSUME i \in 1..Len(frames)
      PROVE  Standing(more, l, open, i, n, p) <=> Standing(frames, l, open, i, n, p)
  <2>1. PiecesIn(more, l, open, i) = PiecesIn(frames, l, open, i)
    BY <1>1, <1>2 DEF PiecesIn
  <2> QED BY <1>1, <1>2, <2>1 DEF Standing
<1>3. ASSUME i = Len(frames) + 2
      PROVE  Standing(more, l, open, i, n, p) <=> Standing(frames, l, open, i - 1, n, p)
  <2>1. /\ PiecesIn(more, l, open, i) = open /\ PiecesIn(frames, l, open, i - 1) = open
        /\ i \in 1..(Len(more) + 1) /\ i - 1 \in 1..(Len(frames) + 1)
    BY <1>1, <1>3 DEF PiecesIn
  <2> QED BY <2>1 DEF Standing
<1>4. ASSUME i = Len(frames) + 1
      PROVE  ~Standing(more, l, open, i, n, p)
  <2>1. PiecesIn(more, l, open, i) = <<>>
    BY <1>1, <1>4 DEF PiecesIn
  <2>2. Len(PiecesIn(more, l, open, i)) = 0
    BY <2>1
  <2> QED BY <2>2 DEF Standing
<1>5. Standing(more, l, open, i, n, p) => i \in 1..(Len(frames) + 2)
  BY <1>1 DEF Standing
<1> QED BY <1>2, <1>3, <1>4, <1>5

LEMMA ShelveOther ==
  ASSUME NEW stream, NEW S, NEW frames \in Seq(Frame), NEW l, NEW open \in Seq(Place),
         Shelved(stream, S, frames, l, open), NEW f \in Frame, f.lane # l,
         NEW more, more = Append(frames, f)
  PROVE  Shelved(stream, S, more, l, open)
<1>0. Len(frames) \in Nat
  OBVIOUS
<1>1. ASSUME NEW i, NEW n, NEW p, Standing(more, l, open, i, n, p)
      PROVE  \/ i \in 1..Len(frames) /\ Standing(frames, l, open, i, n, p)
             \/ i = Len(frames) + 2 /\ Standing(frames, l, open, i - 1, n, p)
  <2>1. /\ i \in 1..Len(frames) =>
             (Standing(more, l, open, i, n, p) <=> Standing(frames, l, open, i, n, p))
        /\ i = Len(frames) + 2 =>
             (Standing(more, l, open, i, n, p) <=> Standing(frames, l, open, i - 1, n, p))
        /\ i = Len(frames) + 1 => ~Standing(more, l, open, i, n, p)
        /\ Standing(more, l, open, i, n, p) => i \in 1..(Len(frames) + 2)
    BY StandingOther
  <2>2. i \in 1..Len(frames) \/ i = Len(frames) + 1 \/ i = Len(frames) + 2
    BY <1>0, <1>1, <2>1
  <2> QED BY <1>1, <2>1, <2>2
<1>2. ASSUME NEW i, NEW n, NEW p, Standing(frames, l, open, i, n, p)
      PROVE  \E j : Standing(more, l, open, j, n, p)
  <2>1. i \in 1..Len(frames) \/ i = Len(frames) + 1
    BY <1>0, <1>2 DEF Standing
  <2>2. CASE i \in 1..Len(frames)
    BY <1>2, <2>2, StandingOther
  <2>3. CASE i = Len(frames) + 1
    <3>1. PICK j : j = Len(frames) + 2
      OBVIOUS
    <3>2. j - 1 = i
      BY <1>0, <2>3, <3>1
    <3>3. /\ j \in 1..Len(frames) =>
               (Standing(more, l, open, j, n, p) <=> Standing(frames, l, open, j, n, p))
          /\ j = Len(frames) + 2 =>
               (Standing(more, l, open, j, n, p) <=> Standing(frames, l, open, j - 1, n, p))
          /\ j = Len(frames) + 1 => ~Standing(more, l, open, j, n, p)
          /\ Standing(more, l, open, j, n, p) => j \in 1..(Len(frames) + 2)
      BY StandingOther
    <3> QED BY <1>2, <3>1, <3>2, <3>3
  <2> QED BY <2>1, <2>2, <2>3
<1>3. ASSUME NEW i, NEW n, NEW p, Standing(more, l, open, i, n, p)
      PROVE  p \in S /\ HoldsBytes(stream, l, p)
  BY <1>1, <1>3 DEF Shelved
<1>4. ASSUME NEW p \in S, HoldsBytes(stream, l, p)
      PROVE  \E i, n : Standing(more, l, open, i, n, p)
  BY <1>2, <1>4 DEF Shelved
<1>5. ASSUME NEW i, NEW m, NEW j, NEW n, NEW p, NEW q, Standing(more, l, open, i, m, p),
             Standing(more, l, open, j, n, q), Before(i, m, j, n)
      PROVE  Precedes(p, q)
  <2>1. PICK x : /\ Standing(frames, l, open, x, m, p)
                 /\ x = IF i \in 1..Len(frames) THEN i ELSE i - 1
                 /\ i \in 1..Len(frames) \/ i = Len(frames) + 2
    BY <1>0, <1>1, <1>5
  <2>2. PICK y : /\ Standing(frames, l, open, y, n, q)
                 /\ y = IF j \in 1..Len(frames) THEN j ELSE j - 1
                 /\ j \in 1..Len(frames) \/ j = Len(frames) + 2
    BY <1>0, <1>1, <1>5
  <2>3. Before(x, m, y, n)
    BY <1>0, <1>5, <2>1, <2>2 DEF Before
  <2> QED BY <2>1, <2>2, <2>3 DEF Shelved
<1> QED BY <1>3, <1>4, <1>5 DEF Shelved

(* The lane reads one more piece.                                            *)
StandsBehind(frames, l, open, all, at) ==
  \A i, n, p : Standing(frames, l, all, i, n, p) <=>
    \/ Standing(frames, l, open, i, n, p)
    \/ i = Len(frames) + 1 /\ n = Len(open) + 1 /\ p = at

LEMMA StandingAdd ==
  ASSUME NEW frames \in Seq(Frame), NEW l, NEW open \in Seq(Place), NEW at \in Place,
         NEW all, all = Append(open, at)
  PROVE  StandsBehind(frames, l, open, all, at)
<1> SUFFICES ASSUME NEW i, NEW n, NEW p
             PROVE  Standing(frames, l, all, i, n, p) <=>
                      \/ Standing(frames, l, open, i, n, p)
                      \/ i = Len(frames) + 1 /\ n = Len(open) + 1 /\ p = at
  BY DEF StandsBehind
<1>1. /\ Len(frames) \in Nat /\ Len(open) \in Nat /\ Len(all) = Len(open) + 1
      /\ \A j \in 1..Len(open) : all[j] = open[j]
      /\ all[Len(open) + 1] = at
  OBVIOUS
<1> HIDE DEF Place
<1>2. CASE i \in 1..Len(frames)
  <2>1. PiecesIn(frames, l, all, i) = PiecesIn(frames, l, open, i) /\ i # Len(frames) + 1
    BY <1>1, <1>2 DEF PiecesIn
  <2> QED BY <1>1, <2>1 DEF Standing
<1>3. CASE i = Len(frames) + 1
  <2>1. PiecesIn(frames, l, all, i) = all /\ PiecesIn(frames, l, open, i) = open
        /\ i \in 1..(Len(frames) + 1)
    BY <1>1, <1>3 DEF PiecesIn
  <2>2. Standing(frames, l, all, i, n, p) <=> n \in 1..Len(all) /\ all[n] = p
    BY <2>1 DEF Standing
  <2>3. Standing(frames, l, open, i, n, p) <=> n \in 1..Len(open) /\ open[n] = p
    BY <2>1 DEF Standing
  <2>4. n \in 1..Len(all) <=> n \in 1..Len(open) \/ n = Len(open) + 1
    BY <1>1
  <2>5. Len(open) + 1 \notin 1..Len(open)
    BY <1>1
  <2> QED BY <1>1, <1>3, <2>2, <2>3, <2>4, <2>5
<1>4. CASE i \notin 1..(Len(frames) + 1)
  BY <1>1, <1>4 DEF Standing
<1>5. i \in 1..(Len(frames) + 1) => i \in 1..Len(frames) \/ i = Len(frames) + 1
  BY <1>1
<1> QED BY <1>2, <1>3, <1>4, <1>5

(* A place that comes after all that were seen.                              *)
Fresh(S, at) == at \in Place /\ S \subseteq Place /\ \A p \in S : Precedes(p, at)

LEMMA PrecedesOnce ==
  ASSUME NEW p \in Place, NEW q \in Place
  PROVE  /\ ~Precedes(p, p) /\ ~(Precedes(p, q) /\ Precedes(q, p))
         /\ Precedes(p, q) \/ Precedes(q, p) \/ p = q
<1>1. p[1] \in Nat /\ p[2] \in Nat /\ q[1] \in Nat /\ q[2] \in Nat
      /\ p = <<p[1], p[2]>> /\ q = <<q[1], q[2]>>
  BY DEF Place
<1>2. p[1] = q[1] /\ p[2] = q[2] => p = q
  BY <1>1
<1> QED BY <1>1, <1>2 DEF Precedes

LEMMA PrecedesOn ==
  ASSUME NEW p \in Place, NEW q \in Place, NEW r \in Place, Precedes(p, q), Precedes(q, r)
  PROVE  Precedes(p, r)
<1>1. p[1] \in Nat /\ p[2] \in Nat /\ q[1] \in Nat /\ q[2] \in Nat /\ r[1] \in Nat /\ r[2] \in Nat
  BY DEF Place
<1> QED BY <1>1 DEF Precedes

LEMMA ShelveAdd ==
  ASSUME NEW stream, NEW S, NEW frames \in Seq(Frame), NEW l, NEW open \in Seq(Place),
         Shelved(stream, S, frames, l, open), NEW at, Fresh(S, at), HoldsBytes(stream, l, at),
         NEW all, all = Append(open, at)
  PROVE  Shelved(stream, S \cup {at}, frames, l, all)
<1>0. at \in Place /\ Len(frames) \in Nat /\ Len(open) \in Nat
  BY DEF Fresh
<1>1. \A i, n, p : Standing(frames, l, all, i, n, p) <=>
        \/ Standing(frames, l, open, i, n, p)
        \/ i = Len(frames) + 1 /\ n = Len(open) + 1 /\ p = at
  <2>1. StandsBehind(frames, l, open, all, at)
    BY <1>0, StandingAdd
  <2> QED BY <2>1 DEF StandsBehind
<1>2. ASSUME NEW i, NEW n, NEW p, Standing(frames, l, all, i, n, p)
      PROVE  p \in S \cup {at} /\ HoldsBytes(stream, l, p)
  BY <1>1, <1>2 DEF Shelved
<1>3. ASSUME NEW p \in S \cup {at}, HoldsBytes(stream, l, p)
      PROVE  \E i, n : Standing(frames, l, all, i, n, p)
  BY <1>1, <1>3 DEF Shelved
<1>4. ASSUME NEW i, NEW m, NEW j, NEW n, NEW p, NEW q, Standing(frames, l, all, i, m, p),
             Standing(frames, l, all, j, n, q), Before(i, m, j, n)
      PROVE  Precedes(p, q)
  <2>1. CASE Standing(frames, l, open, i, m, p) /\ Standing(frames, l, open, j, n, q)
    BY <1>4, <2>1 DEF Shelved
  <2>2. CASE Standing(frames, l, open, i, m, p) /\ q = at
    BY <2>2 DEF Shelved, Fresh
  <2>3. CASE i = Len(frames) + 1 /\ m = Len(open) + 1
    <3>1. CASE j = Len(frames) + 1 /\ n = Len(open) + 1
      BY <1>0, <1>4, <2>3, <3>1 DEF Before
    <3>2. CASE Standing(frames, l, open, j, n, q)
      <4>1. j \in Nat /\ n \in Nat /\ j \in 1..(Len(frames) + 1)
        BY <3>2, PiecesInFrames DEF Standing
      <4>2. j = Len(frames) + 1 => n \in 1..Len(open)
        BY <1>0, <3>2 DEF Standing, PiecesIn
      <4> QED BY <1>0, <1>4, <2>3, <4>1, <4>2 DEF Before
    <3> QED BY <1>1, <1>4, <3>1, <3>2
  <2> QED BY <1>1, <1>4, <2>1, <2>2, <2>3
<1> QED BY <1>2, <1>3, <1>4 DEF Shelved

(* What holds no bytes of the lane may be added to what was seen.            *)
LEMMA ShelveWider ==
  ASSUME NEW stream, NEW S, NEW frames, NEW l, NEW open, Shelved(stream, S, frames, l, open),
         NEW W, S \subseteq W, \A p \in W \ S : ~HoldsBytes(stream, l, p)
  PROVE  Shelved(stream, W, frames, l, open)
<1>1. \A i, n, p : Standing(frames, l, open, i, n, p) => p \in W /\ HoldsBytes(stream, l, p)
  BY DEF Shelved
<1>2. \A p \in W : HoldsBytes(stream, l, p) => \E i, n : Standing(frames, l, open, i, n, p)
  BY DEF Shelved
<1> QED BY <1>1, <1>2 DEF Shelved

LEMMA FoundMore ==
  ASSUME NEW stream, NEW S, NEW frames \in Seq(Frame), NEW l, Found(stream, S, frames, l),
         NEW f \in Frame, NEW more, more = Append(frames, f)
  PROVE  Found(stream, S, more, l)
<1>1. /\ Len(frames) \in Nat /\ Len(more) = Len(frames) + 1
      /\ \A i \in 1..Len(frames) : more[i] = frames[i]
  BY FrameMore
<1>2. ASSUME NEW a, NEW b, NEW i \in 1..Len(frames), Reaches(frames, l, i, a, b)
      PROVE  i \in 1..Len(more) /\ Reaches(more, l, i, a, b)
  BY <1>1, <1>2 DEF Reaches
<1> QED BY <1>2 DEF Found

(* What was sent up to at, of whose frames none begins at at.                *)
LEMMA FoundNext ==
  ASSUME NEW stream, NEW S, NEW frames, NEW l, Found(stream, S, frames, l),
         NEW at, Fresh(S, at),
         \A a \in S \cup {at} : FrameSent(stream, l, a, at) =>
           \E i \in 1..Len(frames) : Reaches(frames, l, i, a, at)
  PROVE  Found(stream, S \cup {at}, frames, l)
<1> SUFFICES ASSUME NEW a \in S \cup {at}, NEW b \in S \cup {at}, FrameSent(stream, l, a, b)
             PROVE  \E i \in 1..Len(frames) : Reaches(frames, l, i, a, b)
  BY DEF Found
<1>1. CASE b = at
  BY <1>1
<1>2. CASE a \in S /\ b \in S
  BY <1>2 DEF Found
<1>3. CASE a = at /\ b \in S
  <2>1. a \in Place /\ b \in Place /\ Precedes(b, a)
    BY <1>3 DEF Fresh
  <2>2. a = b \/ Precedes(a, b)
    BY DEF FrameSent
  <2> QED BY <2>1, <2>2, PrecedesOnce
<1> QED BY <1>1, <1>2, <1>3

LEMMA FoundWider ==
  ASSUME NEW stream, NEW S, NEW frames, NEW l, Found(stream, S, frames, l),
         NEW W, \A p \in W \ S : ~PieceOf(stream, l, p)
  PROVE  Found(stream, W, frames, l)
BY DEF Found, FrameSent

LEMMA ReadsWider ==
  ASSUME NEW stream, NEW S, NEW l, NEW lane, Reads(stream, S, l, lane),
         NEW W, S \subseteq W, \A p \in W \ S : ~PieceOf(stream, l, p)
  PROVE  Reads(stream, W, l, lane)
<1>1. ASSUME NEW a, Unfinished(stream, W, l, a) PROVE Unfinished(stream, S, l, a)
  BY <1>1 DEF Unfinished
<1> QED BY <1>1 DEF Reads

(* A frame that ends at at was unfinished before.                            *)
LEMMA EndsUnfinished ==
  ASSUME NEW stream, IsStream(stream), NEW S, NEW l, NEW at, Fresh(S, at),
         NEW a \in S, FrameSent(stream, l, a, at)
  PROVE  KindAt(stream, at) = "end" /\ Unfinished(stream, S, l, a)
<1>1. a \in Place /\ at \in Place /\ a # at
  <2>1. a \in Place /\ at \in Place /\ Precedes(a, at)
    BY DEF Fresh
  <2> QED BY <2>1, PrecedesOnce
<1>2. /\ PieceOf(stream, l, a) /\ KindAt(stream, a) = "start" /\ KindAt(stream, at) = "end"
      /\ OnlyDataBetween(stream, l, a, at)
  BY <1>1 DEF FrameSent
<1>3. ASSUME NEW p \in S, PieceOf(stream, l, p), Precedes(a, p)
      PROVE  KindAt(stream, p) \in {"data", "continuation"}
  <2>1. PICK e, k : e = p[1] /\ k = p[2] /\ p = <<e, k>>
    BY <1>3 DEF Fresh, Place
  <2>2. e \in DOMAIN stream /\ stream[e].type # "loss" /\ k \in OffsetsOf(stream[e], l)
    BY <1>3, <2>1 DEF PieceOf
  <2>3. Precedes(a, <<e, k>>) /\ Precedes(<<e, k>>, at)
    BY <1>3, <2>1 DEF Fresh
  <2>4. KindAt(stream, <<e, k>>) \in {"data", "continuation"}
    BY <1>2, <2>2, <2>3 DEF OnlyDataBetween
  <2> QED BY <2>1, <2>4
<1> QED BY <1>2, <1>3 DEF Unfinished

(* What is unfinished after at was so before, or starts there.               *)
LEMMA UnfinishedBefore ==
  ASSUME NEW stream, NEW S, NEW l, NEW at, Fresh(S, at), PieceOf(stream, l, at),
         NEW a, Unfinished(stream, S \cup {at}, l, a)
  PROVE  \/ a = at /\ KindAt(stream, at) = "start"
         \/ Unfinished(stream, S, l, a) /\ KindAt(stream, at) \in {"data", "continuation"}
<1>1. CASE a = at
  BY <1>1 DEF Unfinished
<1>2. CASE a \in S
  <2>1. Precedes(a, at)
    BY <1>2 DEF Fresh
  <2> QED BY <1>2, <2>1 DEF Unfinished
<1> QED BY <1>1, <1>2 DEF Unfinished

(* The document takes what the lane was reading, if anything.                *)
Cleared(frames, mid, l, open) ==
  \/ mid = frames /\ Len(open) = 0
  \/ \E f : FrameOf(f, l, open) /\ mid = Append(frames, f)

(* What one piece may do to its lane, old before and new after, and to the   *)
(* frames: it opens a frame, continues one, ends one, is one, or breaks one. *)
Opens(kind, at, l, old, frames, new, more) ==
  /\ kind = "start"
  /\ Cleared(frames, more, l, old.pieces)
  /\ new.inside /\ new.pieces = <<at>>

Continues(kind, at, l, old, frames, new, more) ==
  /\ kind \in {"data", "continuation"}
  /\ more = frames
  /\ old.inside /\ new.inside /\ new.pieces = Append(old.pieces, at)

Ends(kind, at, l, old, frames, new, more) ==
  /\ kind \in {"data", "continuation", "end", "status"}
  /\ kind \in {"data", "continuation"} => ~old.inside
  /\ \E f : /\ FrameOf(f, l, Append(old.pieces, at)) /\ more = Append(frames, f)
            /\ kind = "end" /\ old.inside => Reported(f)
  /\ ~new.inside /\ Len(new.pieces) = 0

Entire(kind, at, l, old, frames, new, more) ==
  /\ kind = "complete"
  /\ \E mid, f : /\ Cleared(frames, mid, l, old.pieces)
                 /\ FrameOf(f, l, <<at>>) /\ Reported(f) /\ more = Append(mid, f)
  /\ ~new.inside /\ Len(new.pieces) = 0

Breaks(kind, at, l, old, frames, new, more) ==
  /\ kind = "invalid"
  /\ \E f : FrameOf(f, l, old.pieces) /\ more = Append(frames, f)
  /\ ~new.inside /\ Len(new.pieces) = 0

(* The lane's part of the invariant.                                         *)
LaneFiled(stream, S, frames, l, lane) ==
  LaneStored(stream, S, frames, l, lane) /\ Reads(stream, S, l, lane)

LEMMA ClearedFiled ==
  ASSUME NEW stream, NEW S, NEW frames \in Seq(Frame), NEW l, NEW open \in Seq(Place),
         Shelved(stream, S, frames, l, open), Found(stream, S, frames, l),
         NEW mid, Cleared(frames, mid, l, open), NEW none, none = <<>>
  PROVE  /\ mid \in Seq(Frame)
         /\ Shelved(stream, S, mid, l, none) /\ Found(stream, S, mid, l)
<1>1. CASE mid = frames /\ Len(open) = 0
  <2>1. open = none
    BY <1>1
  <2> QED BY <1>1, <2>1
<1>2. ASSUME NEW f, FrameOf(f, l, open), mid = Append(frames, f)
      PROVE  /\ mid \in Seq(Frame)
             /\ Shelved(stream, S, mid, l, none) /\ Found(stream, S, mid, l)
  <2>1. f \in Frame
    BY <1>2 DEF FrameOf
  <2>2. mid \in Seq(Frame)
    BY <1>2, <2>1, FrameMore
  <2>3. Shelved(stream, S, mid, l, none)
    BY <1>2, ShelveEmit
  <2>4. Found(stream, S, mid, l)
    BY <1>2, <2>1, FoundMore
  <2> QED BY <2>2, <2>3, <2>4
<1> QED BY <1>1, <1>2 DEF Cleared

LEMMA PlaceAdded ==
  ASSUME NEW open \in Seq(Place), NEW at \in Place, NEW all, all = Append(open, at)
  PROVE  /\ all \in Seq(Place) /\ Len(open) \in Nat /\ Len(all) = Len(open) + 1
         /\ all[Len(all)] = at /\ (Len(open) > 0 => all[1] = open[1])
OBVIOUS

LEMMA OnePlace ==
  ASSUME NEW at, NEW one, one = <<at>>, NEW none, none = <<>>
  PROVE  /\ none \in Seq(Place) /\ one = Append(none, at) /\ Len(one) = 1 /\ one[1] = at
         /\ one[Len(one)] = at
OBVIOUS

(* The next piece of the stream is of lane l.                                *)
NextPiece(stream, S, l, at, kind) ==
  IsStream(stream) /\ Fresh(S, at) /\ PieceOf(stream, l, at) /\ kind = KindAt(stream, at)

(* What ends at a piece and what is unfinished after it, by its kind.        *)
Decided(stream, S, l, at, kind) ==
  /\ \A a \in S \cup {at} : FrameSent(stream, l, a, at) =>
       \/ kind = "complete" /\ a = at
       \/ kind = "end" /\ Unfinished(stream, S, l, a)
  /\ \A a : Unfinished(stream, S \cup {at}, l, a) =>
       \/ kind = "start" /\ a = at
       \/ kind \in {"data", "continuation"} /\ Unfinished(stream, S, l, a)

LEMMA KindDecides ==
  ASSUME NEW stream, NEW S, NEW l, NEW at, NEW kind, NextPiece(stream, S, l, at, kind)
  PROVE  Decided(stream, S, l, at, kind)
<1>0. /\ IsStream(stream) /\ Fresh(S, at) /\ PieceOf(stream, l, at)
      /\ kind = KindAt(stream, at)
  BY DEF NextPiece
<1>1. ASSUME NEW a \in S \cup {at}, FrameSent(stream, l, a, at)
      PROVE  \/ kind = "complete" /\ a = at
             \/ kind = "end" /\ Unfinished(stream, S, l, a)
  <2>1. CASE a = at
    <3>1. ~Precedes(a, at)
      BY <1>0, <2>1, PrecedesOnce DEF Fresh
    <3> QED BY <1>0, <1>1, <2>1, <3>1 DEF FrameSent
  <2>2. CASE a \in S
    BY <1>0, <1>1, <2>2, EndsUnfinished
  <2> QED BY <2>1, <2>2
<1>2. ASSUME NEW a, Unfinished(stream, S \cup {at}, l, a)
      PROVE  \/ kind = "start" /\ a = at
             \/ kind \in {"data", "continuation"} /\ Unfinished(stream, S, l, a)
  BY <1>0, <1>2, UnfinishedBefore
<1> QED BY <1>1, <1>2 DEF Decided

LEMMA OpensFiled ==
  ASSUME NEW stream, NEW S, NEW l, NEW at, NEW kind, NextPiece(stream, S, l, at, kind),
         NEW frames \in Seq(Frame), NEW old, old.pieces \in Seq(Place),
         LaneFiled(stream, S, frames, l, old),
         NEW new, NEW more, Opens(kind, at, l, old, frames, new, more)
  PROVE  LaneFiled(stream, S \cup {at}, more, l, new)
<1>1. PICK none, one : none = <<>> /\ one = <<at>>
  OBVIOUS
<1>2. Fresh(S, at) /\ at \in Place /\ kind = "start" /\ HoldsBytes(stream, l, at)
  BY DEF NextPiece, Fresh, Opens, HoldsBytes
<1>3. more \in Seq(Frame) /\ Shelved(stream, S, more, l, none) /\ Found(stream, S, more, l)
  BY <1>1, ClearedFiled DEF LaneFiled, LaneStored, Opens
<1>4. none \in Seq(Place) /\ one = Append(none, at) /\ Len(one) = 1 /\ one[1] = at
  BY <1>1, OnePlace
<1>5. new.inside /\ new.pieces = one
  BY <1>1 DEF Opens
<1>6. Shelved(stream, S \cup {at}, more, l, one)
  BY <1>2, <1>3, <1>4, ShelveAdd
<1>7. /\ \A a \in S \cup {at} : ~FrameSent(stream, l, a, at)
      /\ \A a : Unfinished(stream, S \cup {at}, l, a) => a = at
  <2>1. Decided(stream, S, l, at, kind)
    BY KindDecides
  <2> QED BY <1>2, <2>1 DEF Decided
<1>8. Found(stream, S \cup {at}, more, l)
  BY <1>2, <1>3, <1>7, FoundNext
<1>9. Reads(stream, S \cup {at}, l, new)
  BY <1>4, <1>5, <1>7 DEF Reads
<1> QED BY <1>4, <1>5, <1>6, <1>8, <1>9 DEF LaneFiled, LaneStored

LEMMA ContinuesFiled ==
  ASSUME NEW stream, NEW S, NEW l, NEW at, NEW kind, NextPiece(stream, S, l, at, kind),
         NEW frames \in Seq(Frame), NEW old, old.pieces \in Seq(Place),
         LaneFiled(stream, S, frames, l, old),
         NEW new, NEW more, Continues(kind, at, l, old, frames, new, more)
  PROVE  LaneFiled(stream, S \cup {at}, more, l, new)
<1>1. PICK open, all : open = old.pieces /\ all = Append(open, at)
  OBVIOUS
<1>2. /\ Fresh(S, at) /\ at \in Place /\ kind \in {"data", "continuation"}
      /\ HoldsBytes(stream, l, at)
  BY DEF NextPiece, Fresh, Continues, HoldsBytes
<1>3. /\ Shelved(stream, S, frames, l, open) /\ Found(stream, S, frames, l)
      /\ old.inside /\ Len(open) > 0 /\ open \in Seq(Place)
  BY <1>1 DEF LaneFiled, LaneStored, Continues
<1>4. Len(open) \in Nat /\ Len(all) = Len(open) + 1 /\ all[1] = open[1]
  BY <1>1, <1>2, <1>3, PlaceAdded
<1>5. new.inside /\ new.pieces = all /\ more = frames
  BY <1>1 DEF Continues
<1>6. Shelved(stream, S \cup {at}, more, l, all)
  BY <1>1, <1>2, <1>3, <1>5, ShelveAdd
<1>7. /\ \A a \in S \cup {at} : ~FrameSent(stream, l, a, at)
      /\ \A a : Unfinished(stream, S \cup {at}, l, a) => Unfinished(stream, S, l, a)
  <2>1. Decided(stream, S, l, at, kind)
    BY KindDecides
  <2> QED BY <1>2, <2>1 DEF Decided
<1>8. Found(stream, S \cup {at}, more, l)
  BY <1>2, <1>3, <1>5, <1>7, FoundNext
<1>9. ASSUME NEW a, Unfinished(stream, S \cup {at}, l, a) PROVE new.inside /\ new.pieces[1] = a
  <2>1. old.inside /\ open[1] = a
    BY <1>1, <1>7, <1>9 DEF LaneFiled, Reads
  <2> QED BY <1>4, <1>5, <2>1
<1>10. Len(all) > 0
  BY <1>4
<1> QED BY <1>5, <1>6, <1>8, <1>9, <1>10 DEF LaneFiled, LaneStored, Reads

LEMMA EndsFiled ==
  ASSUME NEW stream, NEW S, NEW l, NEW at, NEW kind, NextPiece(stream, S, l, at, kind),
         NEW frames \in Seq(Frame), NEW old, old.pieces \in Seq(Place),
         LaneFiled(stream, S, frames, l, old),
         NEW new, new.pieces \in Seq(Place), NEW more, Ends(kind, at, l, old, frames, new, more)
  PROVE  LaneFiled(stream, S \cup {at}, more, l, new)
<1>1. PICK open, all, none : open = old.pieces /\ all = Append(open, at) /\ none = <<>>
  OBVIOUS
<1>2. /\ Fresh(S, at) /\ at \in Place /\ kind \in {"data", "continuation", "end", "status"}
      /\ HoldsBytes(stream, l, at)
  BY DEF NextPiece, Fresh, Ends, HoldsBytes
<1>3. /\ Shelved(stream, S, frames, l, open) /\ Found(stream, S, frames, l)
      /\ open \in Seq(Place) /\ (old.inside <=> Len(open) > 0)
  BY <1>1 DEF LaneFiled, LaneStored
<1>4. /\ all \in Seq(Place) /\ Len(open) \in Nat /\ Len(all) = Len(open) + 1
      /\ all[Len(all)] = at /\ (Len(open) > 0 => all[1] = open[1])
  BY <1>1, <1>2, <1>3, PlaceAdded
<1>5. PICK f : /\ FrameOf(f, l, all) /\ more = Append(frames, f)
               /\ kind = "end" /\ old.inside => Reported(f)
  BY <1>1 DEF Ends
<1>6. ~new.inside /\ Len(new.pieces) = 0 /\ new.pieces = none
  BY <1>1 DEF Ends
<1>7. f \in Frame /\ f.lane = l /\ f.pieces = all
  BY <1>5 DEF FrameOf
<1>8. Shelved(stream, S \cup {at}, frames, l, all)
  BY <1>1, <1>2, <1>3, ShelveAdd
<1>9. Shelved(stream, S \cup {at}, more, l, none)
  BY <1>1, <1>4, <1>5, <1>8, ShelveEmit
<1>10. /\ \A a \in S \cup {at} : FrameSent(stream, l, a, at) =>
              kind = "end" /\ Unfinished(stream, S, l, a)
       /\ \A a : Unfinished(stream, S \cup {at}, l, a) =>
              kind \in {"data", "continuation"} /\ Unfinished(stream, S, l, a)
  <2>1. Decided(stream, S, l, at, kind)
    BY KindDecides
  <2> QED BY <1>2, <2>1 DEF Decided
<1>11. /\ Len(frames) \in Nat /\ Len(more) = Len(frames) + 1 /\ more[Len(frames) + 1] = f
  BY <1>5, <1>7, FrameMore
<1>12. ASSUME NEW a \in S \cup {at}, FrameSent(stream, l, a, at)
       PROVE  \E i \in 1..Len(more) : Reaches(more, l, i, a, at)
  <2>1. kind = "end" /\ old.inside /\ open[1] = a
    BY <1>1, <1>10, <1>12 DEF LaneFiled, Reads
  <2>2. PICK i : i = Len(frames) + 1
    OBVIOUS
  <2>3. i \in 1..Len(more) /\ more[i] = f
    BY <1>11, <2>2
  <2>4. Len(all) > 0 /\ all[1] = a
    BY <1>3, <1>4, <2>1
  <2>5. Reaches(more, l, i, a, at)
    BY <1>4, <1>5, <1>7, <2>1, <2>3, <2>4 DEF Reaches
  <2> QED BY <2>3, <2>5
<1>13. Found(stream, S \cup {at}, more, l)
  <2>1. Found(stream, S, more, l)
    BY <1>3, <1>5, <1>7, FoundMore
  <2> QED BY <1>2, <1>12, <2>1, FoundNext
<1>14. ASSUME NEW a, Unfinished(stream, S \cup {at}, l, a) PROVE FALSE
  <2>1. kind \in {"data", "continuation"} /\ Unfinished(stream, S, l, a)
    BY <1>10, <1>14
  <2>2. old.inside
    BY <2>1 DEF LaneFiled, Reads
  <2> QED BY <2>1, <2>2 DEF Ends
<1>15. Shelved(stream, S \cup {at}, more, l, new.pieces)
  BY <1>6, <1>9
<1>16. new.inside <=> Len(new.pieces) > 0
  BY <1>6
<1>17. LaneStored(stream, S \cup {at}, more, l, new)
  BY <1>13, <1>15, <1>16 DEF LaneStored
<1>18. Reads(stream, S \cup {at}, l, new)
  BY <1>14 DEF Reads
<1> QED BY <1>17, <1>18 DEF LaneFiled

LEMMA AloneFiled ==
  ASSUME NEW stream, NEW S, NEW l, NEW at, NEW kind, NextPiece(stream, S, l, at, kind),
         NEW frames \in Seq(Frame), NEW old, old.pieces \in Seq(Place),
         LaneFiled(stream, S, frames, l, old),
         NEW new, new.pieces \in Seq(Place), NEW more, Entire(kind, at, l, old, frames, new, more)
  PROVE  LaneFiled(stream, S \cup {at}, more, l, new)
<1>1. PICK none, one : none = <<>> /\ one = <<at>>
  OBVIOUS
<1>2. Fresh(S, at) /\ at \in Place /\ kind = "complete" /\ HoldsBytes(stream, l, at)
  BY DEF NextPiece, Fresh, Entire, HoldsBytes
<1>3. PICK mid, f : /\ Cleared(frames, mid, l, old.pieces)
                    /\ FrameOf(f, l, one) /\ Reported(f) /\ more = Append(mid, f)
  BY <1>1 DEF Entire
<1>4. mid \in Seq(Frame) /\ Shelved(stream, S, mid, l, none) /\ Found(stream, S, mid, l)
  BY <1>1, <1>3, ClearedFiled DEF LaneFiled, LaneStored
<1>5. /\ none \in Seq(Place) /\ one = Append(none, at) /\ Len(one) = 1 /\ one[1] = at
      /\ one[Len(one)] = at
  BY <1>1, OnePlace
<1>6. one \in Seq(Place)
  BY <1>2, <1>5, PlaceAdded
<1>7. ~new.inside /\ Len(new.pieces) = 0 /\ new.pieces = none
  BY <1>1 DEF Entire
<1>8. f \in Frame /\ f.lane = l /\ f.pieces = one
  BY <1>3 DEF FrameOf
<1>9. Shelved(stream, S \cup {at}, mid, l, one)
  BY <1>2, <1>4, <1>5, ShelveAdd
<1>10. Shelved(stream, S \cup {at}, more, l, none)
  BY <1>1, <1>3, <1>4, <1>6, <1>9, ShelveEmit
<1>11. Decided(stream, S, l, at, kind)
  BY KindDecides
<1>12. /\ Len(mid) \in Nat /\ Len(more) = Len(mid) + 1 /\ more[Len(mid) + 1] = f
  BY <1>3, <1>4, <1>8, FrameMore
<1>13. ASSUME NEW a \in S \cup {at}, FrameSent(stream, l, a, at)
       PROVE  \E i \in 1..Len(more) : Reaches(more, l, i, a, at)
  <2>1. a = at
    BY <1>2, <1>11, <1>13 DEF Decided
  <2>2. PICK i : i = Len(mid) + 1
    OBVIOUS
  <2>3. i \in 1..Len(more) /\ more[i] = f
    BY <1>12, <2>2
  <2>4. Reaches(more, l, i, a, at)
    BY <1>3, <1>5, <1>8, <2>1, <2>3 DEF Reaches
  <2> QED BY <2>3, <2>4
<1>14. Found(stream, S \cup {at}, more, l)
  <2>1. Found(stream, S, more, l)
    BY <1>3, <1>4, <1>8, FoundMore
  <2> QED BY <1>2, <1>13, <2>1, FoundNext
<1>15. \A a : ~Unfinished(stream, S \cup {at}, l, a)
  BY <1>2, <1>11 DEF Decided
<1>16. new.inside <=> Len(new.pieces) > 0
  BY <1>7
<1>17. Shelved(stream, S \cup {at}, more, l, new.pieces)
  BY <1>7, <1>10
<1>18. LaneStored(stream, S \cup {at}, more, l, new)
  BY <1>14, <1>16, <1>17 DEF LaneStored
<1>19. Reads(stream, S \cup {at}, l, new)
  BY <1>15 DEF Reads
<1> QED BY <1>18, <1>19 DEF LaneFiled

LEMMA BreaksFiled ==
  ASSUME NEW stream, NEW S, NEW l, NEW at, NEW kind, NextPiece(stream, S, l, at, kind),
         NEW frames \in Seq(Frame), NEW old, old.pieces \in Seq(Place),
         LaneFiled(stream, S, frames, l, old),
         NEW new, new.pieces \in Seq(Place), NEW more, Breaks(kind, at, l, old, frames, new, more)
  PROVE  LaneFiled(stream, S \cup {at}, more, l, new)
<1>1. PICK none, open : none = <<>> /\ open = old.pieces
  OBVIOUS
<1>2. Fresh(S, at) /\ at \in Place /\ kind = "invalid" /\ ~HoldsBytes(stream, l, at)
  BY DEF NextPiece, Fresh, Breaks, HoldsBytes
<1>3. Shelved(stream, S, frames, l, open) /\ Found(stream, S, frames, l) /\ open \in Seq(Place)
  BY <1>1 DEF LaneFiled, LaneStored
<1>4. PICK f : FrameOf(f, l, open) /\ more = Append(frames, f)
  BY <1>1 DEF Breaks
<1>5. ~new.inside /\ Len(new.pieces) = 0 /\ new.pieces = none
  BY <1>1 DEF Breaks
<1>6. f \in Frame
  BY <1>4 DEF FrameOf
<1>7. Shelved(stream, S, more, l, none)
  BY <1>1, <1>3, <1>4, ShelveEmit
<1>8. Shelved(stream, S \cup {at}, more, l, new.pieces)
  BY <1>2, <1>5, <1>7, ShelveWider
<1>9. Decided(stream, S, l, at, kind)
  BY KindDecides
<1>10. /\ \A a \in S \cup {at} : ~FrameSent(stream, l, a, at)
       /\ \A a : ~Unfinished(stream, S \cup {at}, l, a)
  BY <1>2, <1>9 DEF Decided
<1>11. Found(stream, S \cup {at}, more, l)
  <2>1. Found(stream, S, more, l)
    BY <1>3, <1>4, <1>6, FoundMore
  <2> QED BY <1>2, <1>10, <2>1, FoundNext
<1>12. new.inside <=> Len(new.pieces) > 0
  BY <1>5
<1>13. LaneStored(stream, S \cup {at}, more, l, new)
  BY <1>8, <1>11, <1>12 DEF LaneStored
<1>14. Reads(stream, S \cup {at}, l, new)
  BY <1>10 DEF Reads
<1> QED BY <1>13, <1>14 DEF LaneFiled

(* What the capture makes of one piece of lane l.                            *)
Took(kind, at, l, old, frames, new, more) ==
  \/ Opens(kind, at, l, old, frames, new, more)
  \/ Continues(kind, at, l, old, frames, new, more)
  \/ Ends(kind, at, l, old, frames, new, more)
  \/ Entire(kind, at, l, old, frames, new, more)
  \/ Breaks(kind, at, l, old, frames, new, more)

LEMMA TookFiled ==
  ASSUME NEW stream, NEW S, NEW l, NEW at, NEW kind, NextPiece(stream, S, l, at, kind),
         NEW frames \in Seq(Frame), NEW old, old.pieces \in Seq(Place),
         LaneFiled(stream, S, frames, l, old),
         NEW new, new.pieces \in Seq(Place), NEW more, Took(kind, at, l, old, frames, new, more)
  PROVE  LaneFiled(stream, S \cup {at}, more, l, new)
BY OpensFiled, ContinuesFiled, EndsFiled, AloneFiled, BreaksFiled DEF Took

(* The other lanes.                                                          *)
Adds(frames, more, l) == \E f \in Frame : f.lane = l /\ more = Append(frames, f)

Grows(frames, more, l) ==
  more = frames \/ Adds(frames, more, l) \/ \E mid : Adds(frames, mid, l) /\ Adds(mid, more, l)

LEMMA OneMoreOther ==
  ASSUME NEW stream, NEW S, NEW frames \in Seq(Frame), NEW l, NEW m, m # l,
         NEW open \in Seq(Place),
         Shelved(stream, S, frames, m, open), Found(stream, S, frames, m),
         NEW more, Adds(frames, more, l)
  PROVE  more \in Seq(Frame) /\ Shelved(stream, S, more, m, open) /\ Found(stream, S, more, m)
<1>1. PICK f \in Frame : f.lane # m /\ more = Append(frames, f)
  BY DEF Adds
<1> QED BY <1>1, ShelveOther, FoundMore, FrameMore

LEMMA OthersFiled ==
  ASSUME NEW stream, NEW S, NEW frames \in Seq(Frame), NEW l, NEW m, m # l,
         NEW lane, lane.pieces \in Seq(Place), LaneFiled(stream, S, frames, m, lane),
         NEW more, Grows(frames, more, l)
  PROVE  more \in Seq(Frame) /\ LaneFiled(stream, S, more, m, lane)
<1>1. PICK open \in Seq(Place) : open = lane.pieces
  OBVIOUS
<1>2. Shelved(stream, S, frames, m, open) /\ Found(stream, S, frames, m)
  BY <1>1 DEF LaneFiled, LaneStored
<1>3. more \in Seq(Frame) /\ Shelved(stream, S, more, m, open) /\ Found(stream, S, more, m)
  <2>1. CASE more = frames
    BY <1>2, <2>1
  <2>2. CASE Adds(frames, more, l)
    BY <1>2, <2>2, OneMoreOther
  <2>3. ASSUME NEW mid, Adds(frames, mid, l), Adds(mid, more, l)
        PROVE  more \in Seq(Frame) /\ Shelved(stream, S, more, m, open) /\ Found(stream, S, more, m)
    <3>1. mid \in Seq(Frame) /\ Shelved(stream, S, mid, m, open) /\ Found(stream, S, mid, m)
      BY <1>2, <2>3, OneMoreOther
    <3> QED BY <2>3, <3>1, OneMoreOther
  <2> QED BY <2>1, <2>2, <2>3 DEF Grows
<1> QED BY <1>1, <1>3 DEF LaneFiled, LaneStored

LEMMA TookGrows ==
  ASSUME NEW kind, NEW at, NEW l, NEW old, NEW frames, NEW new, NEW more,
         Took(kind, at, l, old, frames, new, more)
  PROVE  Grows(frames, more, l)
<1>1. ASSUME NEW f, NEW pieces, NEW some, NEW all, FrameOf(f, l, pieces), all = Append(some, f)
      PROVE  Adds(some, all, l)
  BY <1>1 DEF FrameOf, Adds
<1>2. ASSUME NEW mid, NEW open, Cleared(frames, mid, l, open)
      PROVE  mid = frames \/ Adds(frames, mid, l)
  BY <1>1, <1>2 DEF Cleared
<1>3. CASE Opens(kind, at, l, old, frames, new, more)
  BY <1>2, <1>3 DEF Opens, Grows
<1>4. CASE Continues(kind, at, l, old, frames, new, more)
  BY <1>4 DEF Continues, Grows
<1>5. CASE Ends(kind, at, l, old, frames, new, more)
  <2>1. PICK f : FrameOf(f, l, Append(old.pieces, at)) /\ more = Append(frames, f)
    BY <1>5 DEF Ends
  <2> QED BY <1>1, <2>1 DEF Grows
<1>6. CASE Entire(kind, at, l, old, frames, new, more)
  <2>1. PICK mid, f : /\ Cleared(frames, mid, l, old.pieces)
                      /\ FrameOf(f, l, <<at>>) /\ more = Append(mid, f)
    BY <1>6 DEF Entire
  <2>2. Adds(mid, more, l)
    BY <1>1, <2>1
  <2>3. mid = frames \/ Adds(frames, mid, l)
    BY <1>2, <2>1
  <2> QED BY <2>2, <2>3 DEF Grows
<1>7. CASE Breaks(kind, at, l, old, frames, new, more)
  <2>1. PICK f : FrameOf(f, l, old.pieces) /\ more = Append(frames, f)
    BY <1>7 DEF Breaks
  <2> QED BY <1>1, <2>1 DEF Grows
<1> QED BY <1>3, <1>4, <1>5, <1>6, <1>7 DEF Took

(* A session whose lanes, and frames, account for the places in S.           *)
Filed(stream, S, s) ==
  s \in Sessions /\ \A l \in Lanes : LaneFiled(stream, S, s.frames, l, s.lanes[l])

(* From s to u the session has taken a piece of lane l.                      *)
Takes(s, u, l, at, kind) ==
  /\ u \in Sessions /\ u.receiving = s.receiving
  /\ \A m \in Lanes \ {l} : u.lanes[m] = s.lanes[m]
  /\ Took(kind, at, l, s.lanes[l], s.frames, u.lanes[l], u.frames)

LEMMA LaneWider ==
  ASSUME NEW stream, NEW S, NEW W, S \subseteq W, NEW l, \A p \in W \ S : ~PieceOf(stream, l, p),
         NEW frames, NEW lane, LaneFiled(stream, S, frames, l, lane)
  PROVE  LaneFiled(stream, W, frames, l, lane)
<1>1. \A p \in W \ S : ~HoldsBytes(stream, l, p)
  BY DEF HoldsBytes
<1>2. Shelved(stream, W, frames, l, lane.pieces)
  BY <1>1, ShelveWider DEF LaneFiled, LaneStored
<1>3. Found(stream, W, frames, l)
  BY FoundWider DEF LaneFiled, LaneStored
<1>4. Reads(stream, W, l, lane)
  BY ReadsWider DEF LaneFiled
<1> QED BY <1>2, <1>3, <1>4 DEF LaneFiled, LaneStored

LEMMA FiledWider ==
  ASSUME NEW stream, NEW S, NEW s, Filed(stream, S, s), NEW W, S \subseteq W,
         \A p \in W \ S : \A l \in Lanes : ~PieceOf(stream, l, p)
  PROVE  Filed(stream, W, s)
BY LaneWider DEF Filed

LEMMA TakesFiled ==
  ASSUME NEW stream, NEW S, NEW s, Filed(stream, S, s), NEW l \in Lanes, NEW at, NEW kind,
         NextPiece(stream, S, l, at, kind), \A m \in Lanes \ {l} : ~PieceOf(stream, m, at),
         NEW u, Takes(s, u, l, at, kind)
  PROVE  Filed(stream, S \cup {at}, u)
<1>1. s \in Sessions /\ u \in Sessions /\ s.frames \in Seq(Frame)
  BY DEF Filed, Takes, Sessions
<1>2. \A m \in Lanes : s.lanes[m].pieces \in Seq(Place) /\ u.lanes[m].pieces \in Seq(Place)
  BY <1>1, LaneKnown
<1>3. Took(kind, at, l, s.lanes[l], s.frames, u.lanes[l], u.frames)
  BY DEF Takes
<1>4. LaneFiled(stream, S \cup {at}, u.frames, l, u.lanes[l])
  BY <1>1, <1>2, <1>3, TookFiled DEF Filed
<1>5. ASSUME NEW m \in Lanes, m # l
      PROVE  LaneFiled(stream, S \cup {at}, u.frames, m, u.lanes[m])
  <2>1. Grows(s.frames, u.frames, l)
    BY <1>3, TookGrows
  <2>2. u.lanes[m] = s.lanes[m]
    BY <1>5 DEF Takes
  <2>3. LaneFiled(stream, S, s.frames, m, u.lanes[m]) /\ u.lanes[m].pieces \in Seq(Place)
    BY <1>2, <2>2 DEF Filed
  <2>4. LaneFiled(stream, S, u.frames, m, u.lanes[m])
    BY <1>1, <1>5, <2>1, <2>3, OthersFiled
  <2>5. \A p \in (S \cup {at}) \ S : ~PieceOf(stream, m, p)
    BY <1>5
  <2> QED BY <2>4, <2>5, LaneWider
<1> QED BY <1>1, <1>4, <1>5 DEF Filed

-----------------------------------------------------------------------------
(* Each method of the capture takes its piece.                               *)

(* One frame of lane l was emitted, and the lane is outside a frame.         *)
OneFrame(s, u, l, pieces, status, affected) ==
  /\ u \in Sessions /\ u.receiving = s.receiving
  /\ \A m \in Lanes \ {l} : u.lanes[m] = s.lanes[m]
  /\ ~u.lanes[l].inside /\ Len(u.lanes[l].pieces) = 0
  /\ \E f : /\ FrameOf(f, l, pieces) /\ f.status = status /\ f.affected = affected
            /\ u.frames = Append(s.frames, f)

Even(s, l) == s \in Sessions /\ (s.lanes[l].inside <=> Len(s.lanes[l].pieces) > 0)

LEMMA IdleEmpty == ~Idle.inside /\ Len(Idle.pieces) = 0
BY DEF Idle

LEMMA CloseOne ==
  ASSUME NEW s \in Sessions, NEW l \in Lanes, NEW status \in Statuses,
         NEW pieces \in Seq(Place), NEW affected \in BOOLEAN,
         NEW u, u = Close(s, l, status, pieces, affected)
  PROVE  OneFrame(s, u, l, pieces, status, affected)
<1>1. PICK f : f = [lane |-> l, status |-> status, pieces |-> pieces, affected |-> affected]
  OBVIOUS
<1>2. FrameOf(f, l, pieces) /\ f.status = status /\ f.affected = affected
  BY <1>1 DEF Frame, FrameOf
<1>3. Became(s, u, l, Idle, Append(s.frames, f))
  BY <1>1, Closed
<1> QED BY <1>2, <1>3, IdleEmpty DEF Became, OneFrame

LEMMA StrayOne ==
  ASSUME NEW s, NEW l \in Lanes, Even(s, l), ~s.lanes[l].inside, NEW status \in Statuses,
         NEW pieces \in Seq(Place), NEW affected \in BOOLEAN,
         NEW u, EmitsOne(s, u, l, status, pieces, affected)
  PROVE  OneFrame(s, u, l, pieces, status, affected)
<1> DEFINE old == s.lanes[l]
           lane == [old EXCEPT !.pending = FALSE]
<1>1. PICK f : f = [lane |-> l, status |-> status, pieces |-> pieces, affected |-> affected]
  OBVIOUS
<1>2. FrameOf(f, l, pieces) /\ f.status = status /\ f.affected = affected
  BY <1>1 DEF Frame, FrameOf
<1>3. PICK v : v = Emit(s, l, status, pieces, affected)
  OBVIOUS
<1>4. v \in Sessions /\ v.receiving = s.receiving /\ v.lanes = s.lanes
      /\ v.frames = Append(s.frames, f)
  BY <1>1, <1>3, Emitted DEF Even
<1>5. old \in LaneState /\ ~old.inside /\ old.pieces \in Seq(Place) /\ ~(Len(old.pieces) > 0)
  BY LaneKnown DEF Even
<1>6. Len(old.pieces) = 0
  <2>1. Len(old.pieces) \in Nat
    BY <1>5
  <2> QED BY <1>5, <2>1
<1>7. CASE u = v
  BY <1>2, <1>4, <1>5, <1>6, <1>7 DEF OneFrame
<1>8. CASE u = [v EXCEPT !.lanes[l].pending = FALSE]
  <2>1. u = [v EXCEPT !.lanes[l] = lane]
    BY <1>4, <1>8 DEF Sessions
  <2> HIDE DEF old
  <2>2. lane \in LaneState /\ ~lane.inside /\ lane.pieces = old.pieces
    BY <1>5 DEF LaneState
  <2> HIDE DEF lane
  <2>3. Became(v, u, l, lane, v.frames)
    BY <1>4, <2>1, <2>2, LaneSet
  <2> QED BY <1>2, <1>4, <1>6, <2>2, <2>3 DEF Became, OneFrame
<1> QED BY <1>3, <1>7, <1>8 DEF EmitsOne

LEMMA InterruptClears ==
  ASSUME NEW s, NEW l \in Lanes, Even(s, l), NEW t, t = Interrupt(s, l)
  PROVE  /\ t \in Sessions /\ t.receiving = s.receiving
         /\ \A m \in Lanes \ {l} : t.lanes[m] = s.lanes[m]
         /\ ~t.lanes[l].inside /\ Len(t.lanes[l].pieces) = 0 /\ Even(t, l)
         /\ Cleared(s.frames, t.frames, l, s.lanes[l].pieces)
<1>1. PICK open \in Seq(Place) : open = s.lanes[l].pieces
  BY LaneKnown DEF Even
<1>2. Len(open) \in Nat
  OBVIOUS
<1>3. CASE ~s.lanes[l].inside
  <2>1. t = s /\ Len(open) = 0
    BY <1>1, <1>2, <1>3 DEF Interrupt, Even
  <2> QED BY <1>1, <1>3, <2>1 DEF Even, Cleared
<1>4. CASE s.lanes[l].inside
  <2>1. PICK status, affected : status = "malformed" /\ affected = s.lanes[l].lost
    OBVIOUS
  <2>2. status \in Statuses /\ affected \in BOOLEAN
    BY <2>1, StatusesKnown, LaneKnown DEF Even
  <2>3. t = Close(s, l, status, open, affected)
    BY <1>1, <1>4, <2>1 DEF Interrupt
  <2>4. OneFrame(s, t, l, open, status, affected)
    BY <2>2, <2>3, CloseOne DEF Even
  <2> QED BY <1>1, <2>4 DEF OneFrame, Cleared, Even
<1> QED BY <1>3, <1>4

LEMMA StartTakes ==
  ASSUME NEW s, NEW l \in Lanes, Even(s, l), NEW at \in Place, NEW kind, kind = "start",
         NEW u, u = StartFrame(s, l, at)
  PROVE  Takes(s, u, l, at, kind)
<1>1. PICK t : t = Interrupt(s, l)
  OBVIOUS
<1>2. /\ t \in Sessions /\ t.receiving = s.receiving
      /\ \A m \in Lanes \ {l} : t.lanes[m] = s.lanes[m]
      /\ Cleared(s.frames, t.frames, l, s.lanes[l].pieces)
  BY <1>1, InterruptClears
<1> DEFINE lane == Opened(t.lanes[l], at)
<1>3. lane \in LaneState /\ lane.inside /\ lane.pieces = <<at>>
  <2>1. t.lanes[l].pending \in BOOLEAN
    BY <1>2, LaneKnown
  <2>2. <<at>> \in Seq(Place)
    OBVIOUS
  <2> QED BY <2>1, <2>2 DEF Opened, LaneState
<1>4. u = [t EXCEPT !.lanes[l] = lane]
  BY <1>1, <1>2 DEF StartFrame, Sessions
<1> HIDE DEF lane
<1>5. Became(t, u, l, lane, t.frames)
  BY <1>2, <1>3, <1>4, LaneSet
<1>6. /\ u \in Sessions /\ u.receiving = t.receiving /\ u.lanes[l] = lane /\ u.frames = t.frames
      /\ \A m \in Lanes \ {l} : u.lanes[m] = t.lanes[m]
  BY <1>5 DEF Became
<1>7. Opens(kind, at, l, s.lanes[l], s.frames, u.lanes[l], u.frames)
  BY <1>2, <1>3, <1>6 DEF Opens
<1> QED BY <1>2, <1>6, <1>7 DEF Takes, Took

LEMMA ExtendTakes ==
  ASSUME NEW s, NEW l \in Lanes, Even(s, l), s.lanes[l].inside, NEW at \in Place,
         NEW kind, kind \in {"data", "continuation"}, NEW u, u = Extend(s, l, at)
  PROVE  Takes(s, u, l, at, kind)
<1> DEFINE old == s.lanes[l]
           lane == [old EXCEPT !.pieces = Append(@, at)]
<1>1. s \in Sessions /\ old \in LaneState /\ old.pieces \in Seq(Place)
  BY LaneKnown DEF Even
<1>2. u = [s EXCEPT !.lanes[l] = lane]
  BY <1>1 DEF Extend, Sessions
<1>0. old.inside
  OBVIOUS
<1> HIDE DEF old
<1>3. Append(old.pieces, at) \in Seq(Place)
  BY <1>1
<1>4. lane \in LaneState /\ lane.pieces = Append(old.pieces, at) /\ lane.inside = old.inside
  BY <1>1, <1>3 DEF LaneState
<1> HIDE DEF lane
<1>5. Became(s, u, l, lane, s.frames)
  BY <1>1, <1>2, <1>4, LaneSet
<1>6. Continues(kind, at, l, old, s.frames, u.lanes[l], u.frames)
  BY <1>0, <1>4, <1>5 DEF Became, Continues
<1> QED BY <1>5, <1>6 DEF Became, Takes, Took, old

LEMMA JudgedReported ==
  ASSUME NEW b \in BOOLEAN, NEW status, status = Judged("complete", b)
  PROVE  status \in Statuses /\ (status = "complete" \/ b)
BY StatusesKnown DEF Judged

LEMMA EndTakes ==
  ASSUME NEW s, NEW l \in Lanes, Even(s, l), NEW at \in Place,
         NEW all, all = Append(s.lanes[l].pieces, at),
         NEW kind, kind \in {"data", "continuation", "end", "status"},
         kind \in {"data", "continuation"} => ~s.lanes[l].inside,
         NEW status, NEW affected, kind = "end" /\ s.lanes[l].inside => status = "complete" \/ affected,
         NEW u, OneFrame(s, u, l, all, status, affected)
  PROVE  Takes(s, u, l, at, kind)
<1>1. PICK f : /\ FrameOf(f, l, all) /\ f.status = status /\ f.affected = affected
               /\ u.frames = Append(s.frames, f)
  BY DEF OneFrame
<1>2. kind = "end" /\ s.lanes[l].inside => Reported(f)
  BY <1>1 DEF Reported
<1>3. Ends(kind, at, l, s.lanes[l], s.frames, u.lanes[l], u.frames)
  BY <1>1, <1>2 DEF Ends, OneFrame
<1> QED BY <1>3 DEF OneFrame, Takes, Took

LEMMA EmptyThenOne ==
  ASSUME NEW s, NEW l \in Lanes, Even(s, l), ~s.lanes[l].inside, NEW at
  PROVE  Append(s.lanes[l].pieces, at) = <<at>>
<1>1. PICK open \in Seq(Place) : open = s.lanes[l].pieces
  BY LaneKnown DEF Even
<1>2. Len(open) = 0
  <2>1. Len(open) \in Nat
    OBVIOUS
  <2> QED BY <1>1, <2>1 DEF Even
<1>3. open = <<>>
  BY <1>2
<1> QED BY <1>1, <1>3

LEMMA ByteTakes ==
  ASSUME NEW s, Even(s, Midi1), NEW kind \in ByteKinds, kind # "realtime", NEW at \in Place,
         NEW u, u = ConsumeByte(s, kind, at)
  PROVE  Takes(s, u, Midi1, at, kind)
<1> DEFINE lane == s.lanes[Midi1]
           all == Append(lane.pieces, at)
<1>1. Midi1 \in Lanes /\ s \in Sessions
  BY LanesKnown DEF Even
<1>2. /\ lane.lost \in BOOLEAN /\ lane.inside \in BOOLEAN /\ lane.pieces \in Seq(Place)
      /\ all \in Seq(Place)
  BY <1>1, LaneKnown
<1>3. CASE kind = "start"
  <2>1. u = StartFrame(s, Midi1, at)
    BY <1>3 DEF ConsumeByte
  <2> QED BY <1>1, <1>3, <2>1, StartTakes
<1>4. CASE kind \in {"data", "end", "status"} /\ ~lane.inside
  <2>1. PICK status, affected, one, pieces :
          status = "malformed" /\ affected = FALSE /\ one = <<at>> /\ pieces = all
    OBVIOUS
  <2>2. one = pieces
    BY <1>1, <1>4, <2>1, EmptyThenOne
  <2>3. u = Emit(s, Midi1, status, pieces, affected)
    <3>1. u = Emit(s, Midi1, status, one, affected)
      BY <1>4, <2>1 DEF ConsumeByte
    <3> QED BY <2>2, <3>1
  <2>4. status \in Statuses /\ affected \in BOOLEAN /\ pieces \in Seq(Place)
    BY <1>2, <2>1, StatusesKnown
  <2>5. EmitsOne(s, u, Midi1, status, pieces, affected)
    BY <2>3 DEF EmitsOne
  <2>6. OneFrame(s, u, Midi1, pieces, status, affected)
    BY <1>1, <1>4, <2>4, <2>5, StrayOne
  <2>7. kind \in {"data", "continuation", "end", "status"}
    BY <1>4
  <2> QED BY <1>1, <1>4, <2>1, <2>6, <2>7, EndTakes
<1>5. CASE kind = "data" /\ lane.inside
  <2>1. u = Extend(s, Midi1, at)
    BY <1>5 DEF ConsumeByte
  <2>2. kind \in {"data", "continuation"}
    BY <1>5
  <2> QED BY <1>1, <1>5, <2>1, <2>2, ExtendTakes
<1>6. CASE kind \in {"end", "status"} /\ lane.inside
  <2>1. PICK status, affected, pieces :
          /\ affected = lane.lost /\ pieces = all
          /\ status = IF kind = "end" THEN Judged("complete", lane.lost) ELSE "malformed"
    OBVIOUS
  <2>2. u = Close(s, Midi1, status, pieces, affected)
    BY <1>6, <2>1 DEF ConsumeByte
  <2>3. status \in Statuses /\ affected \in BOOLEAN /\ pieces \in Seq(Place)
    BY <1>2, <2>1, StatusesKnown DEF Judged
  <2>4. OneFrame(s, u, Midi1, pieces, status, affected)
    BY <1>1, <2>2, <2>3, CloseOne
  <2>5. kind = "end" => status = "complete" \/ affected
    BY <1>2, <2>1 DEF Judged
  <2>6. /\ kind \in {"data", "continuation", "end", "status"}
        /\ kind \notin {"data", "continuation"}
    BY <1>6
  <2> QED BY <1>1, <2>1, <2>4, <2>5, <2>6, EndTakes
<1> QED BY <1>2, <1>3, <1>4, <1>5, <1>6 DEF ByteKinds

LEMMA PacketTakes ==
  ASSUME NEW s, NEW g \in Lanes, Even(s, g), NEW kind \in PacketKinds, kind # "other",
         NEW at \in Place, NEW u, u = ConsumePacket(s, g, kind, at)
  PROVE  Takes(s, u, g, at, kind)
<1> DEFINE lane == s.lanes[g]
           all == Append(lane.pieces, at)
<1>1. s \in Sessions
  BY DEF Even
<1>2. /\ lane.lost \in BOOLEAN /\ lane.inside \in BOOLEAN /\ lane.pending \in BOOLEAN
      /\ lane.pieces \in Seq(Place) /\ all \in Seq(Place)
  BY <1>1, LaneKnown
<1>3. CASE kind = "invalid"
  <2>1. PICK status, affected : status = "malformed" /\ affected = (lane.lost \/ lane.pending)
    OBVIOUS
  <2>2. u = Close(s, g, status, lane.pieces, affected)
    BY <1>3, <2>1 DEF ConsumePacket
  <2>3. status \in Statuses /\ affected \in BOOLEAN
    BY <1>2, <2>1, StatusesKnown
  <2>4. OneFrame(s, u, g, lane.pieces, status, affected)
    BY <1>1, <1>2, <2>2, <2>3, CloseOne
  <2>5. Breaks(kind, at, g, lane, s.frames, u.lanes[g], u.frames)
    BY <1>3, <2>4 DEF OneFrame, Breaks
  <2> QED BY <2>4, <2>5 DEF OneFrame, Takes, Took
<1>4. CASE kind = "complete"
  <2>1. PICK t, status, affected, pieces, v :
          /\ t = Interrupt(s, g) /\ affected = t.lanes[g].pending /\ pieces = <<at>>
          /\ status = Judged("complete", affected)
          /\ v = Emit(t, g, status, pieces, affected)
    OBVIOUS
  <2>2. u = [v EXCEPT !.lanes[g].pending = FALSE]
    BY <1>4, <2>1 DEF ConsumePacket, ConsumePacketAlone
  <2>3. /\ t \in Sessions /\ t.receiving = s.receiving
        /\ \A m \in Lanes \ {g} : t.lanes[m] = s.lanes[m]
        /\ ~t.lanes[g].inside /\ Even(t, g)
        /\ Cleared(s.frames, t.frames, g, s.lanes[g].pieces)
    BY <2>1, InterruptClears
  <2>4. affected \in BOOLEAN
    BY <2>1, <2>3, LaneKnown
  <2>5. status \in Statuses /\ (status = "complete" \/ affected)
    BY <2>1, <2>4, JudgedReported
  <2>6. pieces \in Seq(Place)
    BY <2>1
  <2>7. EmitsOne(t, u, g, status, pieces, affected)
    BY <2>1, <2>2 DEF EmitsOne
  <2>8. OneFrame(t, u, g, pieces, status, affected)
    BY <2>3, <2>4, <2>5, <2>6, <2>7, StrayOne
  <2>9. PICK f : /\ FrameOf(f, g, pieces) /\ f.status = status /\ f.affected = affected
                 /\ u.frames = Append(t.frames, f)
    BY <2>8 DEF OneFrame
  <2>10. Reported(f)
    BY <2>5, <2>9 DEF Reported
  <2>11. Entire(kind, at, g, lane, s.frames, u.lanes[g], u.frames)
    BY <1>4, <2>1, <2>3, <2>8, <2>9, <2>10 DEF OneFrame, Entire
  <2> QED BY <2>3, <2>8, <2>11 DEF OneFrame, Takes, Took
<1>5. CASE kind = "start"
  <2>1. u = StartFrame(s, g, at)
    BY <1>5 DEF ConsumePacket
  <2> QED BY <1>5, <2>1, StartTakes
<1>6. CASE kind \in {"continuation", "end"} /\ ~lane.inside
  <2>1. PICK status, affected, one, pieces, v :
          /\ status = "malformed" /\ affected = lane.pending /\ one = <<at>> /\ pieces = all
          /\ v = Emit(s, g, status, pieces, affected)
    OBVIOUS
  <2>2. one = pieces
    BY <1>6, <2>1, EmptyThenOne
  <2>3. u = [v EXCEPT !.lanes[g].pending = FALSE]
    <3>1. u = [Emit(s, g, status, one, affected) EXCEPT !.lanes[g].pending = FALSE]
      BY <1>6, <2>1 DEF ConsumePacket, ConsumePacketStray
    <3> QED BY <2>1, <2>2, <3>1
  <2>4. status \in Statuses /\ affected \in BOOLEAN /\ pieces \in Seq(Place)
    BY <1>2, <2>1, StatusesKnown
  <2>5. EmitsOne(s, u, g, status, pieces, affected)
    BY <2>1, <2>3 DEF EmitsOne
  <2>6. OneFrame(s, u, g, pieces, status, affected)
    BY <1>6, <2>4, <2>5, StrayOne
  <2>7. kind \in {"data", "continuation", "end", "status"}
    BY <1>6
  <2> QED BY <1>6, <2>1, <2>6, <2>7, EndTakes
<1>7. CASE kind = "continuation" /\ lane.inside
  <2>1. u = Extend(s, g, at)
    BY <1>7 DEF ConsumePacket
  <2>2. kind \in {"data", "continuation"}
    BY <1>7
  <2> QED BY <1>7, <2>1, <2>2, ExtendTakes
<1>8. CASE kind = "end" /\ lane.inside
  <2>1. PICK status, affected, pieces :
          affected = lane.lost /\ status = Judged("complete", affected) /\ pieces = all
    OBVIOUS
  <2>2. u = Close(s, g, status, pieces, affected)
    BY <1>8, <2>1 DEF ConsumePacket
  <2>3. status \in Statuses /\ (status = "complete" \/ affected) /\ affected \in BOOLEAN
    BY <1>2, <2>1, JudgedReported
  <2>4. OneFrame(s, u, g, pieces, status, affected)
    BY <1>1, <1>2, <2>1, <2>2, <2>3, CloseOne
  <2>5. /\ kind \in {"data", "continuation", "end", "status"}
        /\ kind \notin {"data", "continuation"}
    BY <1>8
  <2> QED BY <2>1, <2>3, <2>4, <2>5, EndTakes
<1> QED BY <1>2, <1>3, <1>4, <1>5, <1>6, <1>7, <1>8 DEF PacketKinds

(* The k-th piece of the e-th event is the first that is not in S.           *)
PieceAt(stream, S, e, k, at) ==
  /\ IsStream(stream) /\ e \in DOMAIN stream /\ stream[e].type # "loss"
  /\ k \in 1..Len(stream[e].data) /\ at = <<e, k>> /\ Fresh(S, at)

LEMMA PieceFiled ==
  ASSUME NEW stream, NEW S, NEW e, NEW k, NEW at, PieceAt(stream, S, e, k, at),
         NEW s, Filed(stream, S, s), NEW u, u = ConsumePiece(s, stream[e], k),
         NEW W, W = S \cup {at}
  PROVE  Filed(stream, W, u) /\ u.receiving = s.receiving
<1>0. /\ IsStream(stream) /\ e \in DOMAIN stream /\ stream[e].type # "loss"
      /\ k \in 1..Len(stream[e].data) /\ at = <<e, k>> /\ Fresh(S, at)
  BY DEF PieceAt
<1>1. /\ stream[e].seq = e /\ stream[e].type \in {"midi1", "ump"}
      /\ DOMAIN stream[e].data = 1..Len(stream[e].data)
      /\ stream[e].type = "midi1" =>
           stream[e].data[k].lane = Midi1 /\ stream[e].data[k].kind \in ByteKinds
      /\ stream[e].type = "ump" =>
           stream[e].data[k].lane \in Lanes /\ stream[e].data[k].kind \in PacketKinds
  BY <1>0, DataKnown, LanesKnown
<1>2. PICK l, kind : l = stream[e].data[k].lane /\ kind = stream[e].data[k].kind
  OBVIOUS
<1>3. l \in Lanes /\ at \in Place /\ at[1] = e /\ at[2] = k
  BY <1>0, <1>1, <1>2, LanesKnown DEF Fresh
<1>4. KindAt(stream, at) = kind
  BY <1>2, <1>3 DEF KindAt
<1>5. \A m : PieceOf(stream, m, at) <=> m = l /\ kind \notin {"other", "realtime"}
  BY <1>0, <1>1, <1>2, <1>3 DEF PieceOf, OffsetsOf
<1>6. u = IF stream[e].type = "midi1" THEN ConsumeByte(s, kind, at) ELSE ConsumePacket(s, l, kind, at)
  BY <1>0, <1>1, <1>2 DEF ConsumePiece
<1>7. CASE kind \in {"other", "realtime"}
  <2>1. u = s
    BY <1>1, <1>2, <1>6, <1>7 DEF ConsumeByte, ConsumePacket, ByteKinds, PacketKinds
  <2>2. Filed(stream, S \cup {at}, s)
    BY <1>5, <1>7, FiledWider
  <2> QED BY <2>1, <2>2
<1>8. CASE kind \notin {"other", "realtime"}
  <2>1. NextPiece(stream, S, l, at, kind) /\ \A m \in Lanes \ {l} : ~PieceOf(stream, m, at)
    BY <1>0, <1>4, <1>5, <1>8 DEF NextPiece
  <2>2. Even(s, l)
    BY <1>3 DEF Even, Filed, LaneFiled, LaneStored
  <2>3. Takes(s, u, l, at, kind)
    <3>1. CASE stream[e].type = "midi1"
      BY <1>1, <1>2, <1>3, <1>6, <1>8, <2>2, <3>1, ByteTakes
    <3>2. CASE stream[e].type = "ump"
      BY <1>1, <1>2, <1>3, <1>6, <1>8, <2>2, <3>2, PacketTakes
    <3> QED BY <1>1, <3>1, <3>2
  <2>4. Filed(stream, S \cup {at}, u)
    BY <1>3, <2>1, <2>3, TakesFiled
  <2> QED BY <2>3, <2>4 DEF Takes
<1> QED BY <1>7, <1>8

(* The places of the events after c and up to e.                             *)
Through(c, e) == {p \in Place : c < p[1] /\ p[1] <= e}

(* ... and of the first i pieces of the next one.                            *)
Partly(c, e, i) == Through(c, e - 1) \cup {<<e, j>> : j \in 1..i}

LEMMA PartlyGrows ==
  ASSUME NEW c \in Nat, NEW e \in Nat, c < e, NEW i \in Nat, NEW at, at = <<e, i + 1>>
  PROVE  /\ Partly(c, e, 0) = Through(c, e - 1)
         /\ Fresh(Partly(c, e, i), at)
         /\ Partly(c, e, i + 1) = Partly(c, e, i) \cup {at}
<1>1. at \in Place /\ at[1] = e /\ at[2] = i + 1
  BY DEF Place
<1>2. Partly(c, e, 0) = Through(c, e - 1)
  BY DEF Partly
<1>3. ASSUME NEW p \in Partly(c, e, i) PROVE p \in Place /\ Precedes(p, at)
  <2>1. CASE p \in Through(c, e - 1)
    <3>1. p \in Place /\ p[1] \in Nat /\ p[1] <= e - 1
      BY <2>1 DEF Through, Place
    <3> QED BY <1>1, <3>1 DEF Precedes
  <2>2. CASE p \in {<<e, j>> : j \in 1..i}
    <3>1. PICK j \in 1..i : p = <<e, j>>
      BY <2>2
    <3>2. p \in Place /\ p[1] = e /\ p[2] = j
      BY <3>1 DEF Place
    <3> QED BY <1>1, <3>2 DEF Precedes
  <2> QED BY <2>1, <2>2 DEF Partly
<1>4. {<<e, j>> : j \in 1..(i + 1)} = {<<e, j>> : j \in 1..i} \cup {at}
  <2>1. \A j : j \in 1..(i + 1) <=> j \in 1..i \/ j = i + 1
    OBVIOUS
  <2> QED BY <2>1
<1>5. Partly(c, e, i + 1) = Partly(c, e, i) \cup {at}
  BY <1>4 DEF Partly
<1> QED BY <1>1, <1>2, <1>3, <1>5 DEF Fresh

(* Event e carries data; S are the places before it, after c, and W with it. *)
DataAfter(stream, c, e, S, W) ==
  /\ IsStream(stream) /\ e \in DOMAIN stream /\ stream[e].type # "loss"
  /\ c \in Nat /\ c < e /\ S = Through(c, e - 1) /\ W = Through(c, e)

LEMMA DataFiled ==
  ASSUME NEW stream, NEW c \in Nat, NEW e, NEW S, NEW W, DataAfter(stream, c, e, S, W),
         NEW s, Filed(stream, S, s), NEW u, u = ConsumeData(s, stream[e])
  PROVE  Filed(stream, W, u) /\ u.receiving = s.receiving
<1> DEFINE N == Len(stream[e].data)
           after[i \in 0..Len(stream[e].data)] ==
             IF i = 0 THEN s ELSE ConsumePiece(after[i - 1], stream[e], i)
<1>0. /\ IsStream(stream) /\ e \in DOMAIN stream /\ stream[e].type # "loss"
      /\ c \in Nat /\ c < e /\ S = Through(c, e - 1) /\ W = Through(c, e)
  BY DEF DataAfter
<1>1. N \in Nat /\ e \in Nat /\ DOMAIN stream[e].data = 1..N
  BY <1>0, DataKnown
<1>2. u = after[Len(stream[e].data)]
  BY DEF ConsumeData
<1>3. after = [i \in 0..Len(stream[e].data) |->
                 IF i = 0 THEN s ELSE ConsumePiece(after[i - 1], stream[e], i)]
  <2>1. PICK what : what = "consume"
    OBVIOUS
  <2>2. PICK f : Doing(what, stream[e], s, Len(stream[e].data), f)
    BY <1>1, DoingExists
  <2>3. f = [i \in 0..Len(stream[e].data) |->
               IF i = 0 THEN s ELSE ConsumePiece(f[i - 1], stream[e], i)]
    BY <2>1, <2>2 DEF Doing, Done
  <2>4. \E g : g = [i \in 0..Len(stream[e].data) |->
                      IF i = 0 THEN s ELSE ConsumePiece(g[i - 1], stream[e], i)]
    BY <2>3
  <2> QED BY <2>4, Zenon
<1> HIDE DEF after
<1>4. after[0] = s /\ \A i \in 1..N : after[i] = ConsumePiece(after[i - 1], stream[e], i)
  <2>1. 0 \in 0..N /\ \A i \in 1..N : i \in 0..N /\ i # 0
    BY <1>1
  <2>2. after[0] = s
    BY <1>3, <2>1
  <2>3. \A i \in 1..N : after[i] = ConsumePiece(after[i - 1], stream[e], i)
    BY <1>3, <2>1
  <2> QED BY <2>2, <2>3
<1> DEFINE Fine(i) == Filed(stream, Partly(c, e, i), after[i]) /\ after[i].receiving = s.receiving
           fine == [i \in 0..N |-> IF Fine(i) THEN TRUE ELSE FALSE]
<1>5. ASSUME NEW i \in 0..N, i < N, Fine(i) PROVE Fine(i + 1)
  <2>1. i + 1 \in 1..N /\ (i + 1) - 1 = i /\ i \in Nat
    BY <1>1, <1>5
  <2>2. after[i + 1] = ConsumePiece(after[i], stream[e], i + 1)
    BY <1>4, <2>1
  <2>3. PICK at, t, k : at = <<e, i + 1>> /\ t = after[i] /\ k = i + 1
    OBVIOUS
  <2>4. Fresh(Partly(c, e, i), at) /\ Partly(c, e, i + 1) = Partly(c, e, i) \cup {at}
    BY <1>0, <1>1, <2>1, <2>3, PartlyGrows
  <2>5. k \in 1..Len(stream[e].data) /\ at = <<e, k>> /\ after[i + 1] = ConsumePiece(t, stream[e], k)
    BY <2>1, <2>2, <2>3
  <2>6. Filed(stream, Partly(c, e, i), t)
    BY <1>5, <2>3
  <2>7. PICK P, Q, v : P = Partly(c, e, i) /\ Q = Partly(c, e, i + 1) /\ v = after[i + 1]
    OBVIOUS
  <2>8. Filed(stream, Q, v) /\ v.receiving = t.receiving
    <3>1. Filed(stream, P, t) /\ v = ConsumePiece(t, stream[e], k) /\ Q = P \cup {at}
      BY <2>4, <2>5, <2>6, <2>7
    <3>2. PieceAt(stream, P, e, k, at)
      BY <1>0, <2>4, <2>5, <2>7 DEF PieceAt
    <3> HIDE DEF N, fine, Fine
    <3> QED BY <3>1, <3>2, PieceFiled
  <2> QED BY <1>5, <2>3, <2>7, <2>8
<1>6. Fine(0)
  <2>1. Partly(c, e, 0) = Through(c, e - 1)
    <3>1. PICK at : at = <<e, 0 + 1>>
      OBVIOUS
    <3> QED BY <1>0, <1>1, <3>1, PartlyGrows
  <2> QED BY <1>0, <1>4, <2>1
<1>7. Fine(N)
  <2> HIDE DEF Fine
  <2>1. fine[0] = TRUE
    BY <1>1, <1>6
  <2>2. \A i \in 0..N : i < N /\ fine[i] = TRUE => fine[i + 1] = TRUE
    BY <1>1, <1>5
  <2>3. \A i \in 0..N : fine[i] = TRUE
    <3> HIDE DEF fine
    <3> QED BY <1>1, <2>1, <2>2, Upward
  <2>4. N \in 0..N
    BY <1>1
  <2>5. fine[N] = TRUE /\ fine[N] = IF Fine(N) THEN TRUE ELSE FALSE
    BY <2>3, <2>4
  <2> QED BY <2>5
<1>8. Partly(c, e, N) \subseteq Through(c, e)
  <2>1. ASSUME NEW p \in Through(c, e - 1) PROVE p \in Through(c, e)
    <3>1. p \in Place /\ p[1] \in Nat /\ c < p[1] /\ p[1] <= e - 1
      BY <2>1 DEF Through, Place
    <3> QED BY <1>0, <1>1, <3>1 DEF Through
  <2>2. ASSUME NEW j \in 1..N PROVE <<e, j>> \in Through(c, e)
    BY <1>0, <1>1 DEF Through, Place
  <2> QED BY <2>1, <2>2 DEF Partly
<1>9. ASSUME NEW p \in Through(c, e) \ Partly(c, e, N), NEW l \in Lanes PROVE ~PieceOf(stream, l, p)
  <2>1. /\ p \in Place /\ p[1] \in Nat /\ p[2] \in Nat /\ p = <<p[1], p[2]>>
        /\ c < p[1] /\ p[1] <= e
    BY DEF Through, Place
  <2>2. p[1] = e
    <3>1. p[1] <= e - 1 => p \in Through(c, e - 1)
      BY <2>1 DEF Through
    <3> QED BY <1>1, <2>1, <3>1 DEF Partly
  <2>3. p[2] \notin 1..N
    BY <2>1, <2>2 DEF Partly
  <2> QED BY <1>1, <2>2, <2>3 DEF PieceOf, OffsetsOf
<1>10. Filed(stream, Through(c, e), u)
  <2>1. Filed(stream, Partly(c, e, N), u)
    BY <1>2, <1>7
  <2> HIDE DEF N
  <2> QED BY <1>8, <1>9, <2>1, FiledWider
<1> QED BY <1>0, <1>2, <1>7, <1>10

LEMMA LossFiled ==
  ASSUME NEW stream, NEW S, NEW s, Filed(stream, S, s), NEW T, NEW u, u = NotifyLoss(s, T)
  PROVE  Filed(stream, S, u) /\ u.receiving = s.receiving
<1>1. s \in Sessions
  BY DEF Filed
<1>2. /\ u.receiving = s.receiving /\ u.frames = s.frames
      /\ u = [receiving |-> u.receiving, lanes |-> u.lanes, frames |-> u.frames]
      /\ u.lanes = [l \in Lanes |-> u.lanes[l]]
  BY <1>1 DEF NotifyLoss, Sessions
<1>3. \A l \in Lanes :
        u.lanes[l] = IF l \notin T THEN s.lanes[l]
                     ELSE IF s.lanes[l].inside THEN [s.lanes[l] EXCEPT !.lost = TRUE]
                     ELSE [s.lanes[l] EXCEPT !.pending = TRUE]
  BY <1>1 DEF NotifyLoss, Sessions
<1>4. ASSUME NEW l \in Lanes
      PROVE  /\ u.lanes[l] \in LaneState
             /\ u.lanes[l].inside = s.lanes[l].inside /\ u.lanes[l].pieces = s.lanes[l].pieces
  <2>1. s.lanes[l] \in LaneState
    BY <1>1, LaneKnown
  <2>2. CASE l \notin T
    BY <1>3, <2>1, <2>2
  <2>3. CASE l \in T /\ s.lanes[l].inside
    <3>1. u.lanes[l] = [s.lanes[l] EXCEPT !.lost = TRUE]
      BY <1>3, <2>3
    <3> QED BY <2>1, <3>1 DEF LaneState
  <2>4. CASE l \in T /\ ~s.lanes[l].inside
    <3>1. u.lanes[l] = [s.lanes[l] EXCEPT !.pending = TRUE]
      BY <1>3, <2>4
    <3> QED BY <2>1, <3>1 DEF LaneState
  <2> QED BY <2>2, <2>3, <2>4
<1>5. u \in Sessions
  <2>1. u.lanes \in [Lanes -> LaneState]
    BY <1>2, <1>4
  <2>2. u.receiving \in BOOLEAN /\ u.frames \in Seq(Frame)
    BY <1>1, <1>2 DEF Sessions
  <2> QED BY <1>2, <2>1, <2>2 DEF Sessions
<1>6. \A l \in Lanes : LaneFiled(stream, S, u.frames, l, u.lanes[l])
  BY <1>2, <1>4 DEF Filed, LaneFiled, LaneStored, Reads
<1> QED BY <1>2, <1>5, <1>6 DEF Filed

LEMMA EventFiled ==
  ASSUME NEW stream, IsStream(stream), NEW e \in DOMAIN stream, NEW c \in Nat, c < e,
         NEW s, Filed(stream, Through(c, e - 1), s),
         NEW u, u = IF stream[e].type = "loss" THEN NotifyLoss(s, Tainted(stream[e]))
                    ELSE ConsumeData(s, stream[e])
  PROVE  Filed(stream, Through(c, e), u) /\ u.receiving = s.receiving
<1>1. CASE stream[e].type = "loss"
  <2>1. PICK S, W : S = Through(c, e - 1) /\ W = Through(c, e)
    OBVIOUS
  <2>2. PICK T : T = Tainted(stream[e])
    OBVIOUS
  <2>3. u = NotifyLoss(s, T)
    BY <1>1, <2>2
  <2>0. Filed(stream, S, s)
    BY <2>1
  <2>4. Filed(stream, S, u) /\ u.receiving = s.receiving
    BY <2>0, <2>3, LossFiled
  <2>5. e \in Nat
    BY DEF IsStream
  <2>6. S \subseteq W
    <3>1. \A p \in S : p \in Place /\ p[1] \in Nat /\ c < p[1] /\ p[1] <= e - 1
      BY <2>1 DEF Through, Place
    <3> QED BY <2>1, <2>5, <3>1 DEF Through
  <2>7. ASSUME NEW p \in W \ S, NEW l \in Lanes PROVE ~PieceOf(stream, l, p)
    <3>1. p \in Place /\ p[1] \in Nat /\ c < p[1] /\ p[1] <= e /\ ~(p[1] <= e - 1)
      BY <2>1 DEF Through, Place
    <3>2. p[1] = e
      BY <2>5, <3>1
    <3> QED BY <1>1, <3>2 DEF PieceOf
  <2>8. Filed(stream, W, u)
    BY <2>4, <2>6, <2>7, FiledWider
  <2> QED BY <2>1, <2>4, <2>8
<1>2. CASE stream[e].type # "loss"
  <2>1. PICK S, W : S = Through(c, e - 1) /\ W = Through(c, e)
    OBVIOUS
  <2>2. u = ConsumeData(s, stream[e]) /\ Filed(stream, S, s)
    BY <1>2, <2>1
  <2>3. DataAfter(stream, c, e, S, W)
    BY <1>2, <2>1 DEF DataAfter
  <2>4. ASSUME NEW v, v = ConsumeData(s, stream[e])
        PROVE  Filed(stream, W, v) /\ v.receiving = s.receiving
    BY <2>2, <2>3, <2>4, DataFiled
  <2> QED BY <2>1, <2>2, <2>4
<1> QED BY <1>1, <1>2

(* What finish_receive() leaves standing.                                    *)
Stored(stream, S, s) ==
  s \in Sessions /\ \A l \in Lanes : LaneStored(stream, S, s.frames, l, s.lanes[l])

LEMMA FinishLaneStored ==
  ASSUME NEW stream, NEW S, NEW s, Stored(stream, S, s), NEW l \in Lanes, NEW u, u = FinishLane(s, l)
  PROVE  /\ Stored(stream, S, u) /\ u.receiving = s.receiving
         /\ ~u.lanes[l].inside
         /\ \A m \in Lanes : ~s.lanes[m].inside => ~u.lanes[m].inside
<1>1. PICK lane, open : lane = s.lanes[l] /\ open = lane.pieces
  OBVIOUS
<1>2. /\ s \in Sessions /\ Even(s, l) /\ s.frames \in Seq(Frame) /\ open \in Seq(Place)
      /\ lane.lost \in BOOLEAN /\ lane.inside \in BOOLEAN
      /\ Shelved(stream, S, s.frames, l, open) /\ Found(stream, S, s.frames, l)
  BY <1>1, LaneKnown DEF Stored, LaneStored, Even, Sessions
<1>3. ASSUME NEW status, NEW affected, OneFrame(s, u, l, open, status, affected)
      PROVE  /\ Stored(stream, S, u) /\ u.receiving = s.receiving
             /\ ~u.lanes[l].inside
             /\ \A m \in Lanes : ~s.lanes[m].inside => ~u.lanes[m].inside
  <2>1. PICK f, none : FrameOf(f, l, open) /\ u.frames = Append(s.frames, f) /\ none = <<>>
    BY <1>3 DEF OneFrame
  <2>2. /\ u \in Sessions /\ u.receiving = s.receiving
        /\ \A m \in Lanes \ {l} : u.lanes[m] = s.lanes[m]
        /\ ~u.lanes[l].inside /\ Len(u.lanes[l].pieces) = 0
    BY <1>3 DEF OneFrame
  <2>3. f \in Frame /\ Adds(s.frames, u.frames, l)
    BY <2>1 DEF FrameOf, Adds
  <2>4. Shelved(stream, S, u.frames, l, none) /\ Found(stream, S, u.frames, l)
    <3>1. PICK more : more = u.frames /\ more = Append(s.frames, f)
      BY <2>1
    <3>2. Shelved(stream, S, more, l, none)
      BY <1>2, <2>1, <3>1, ShelveEmit
    <3>3. Found(stream, S, more, l)
      BY <1>2, <2>3, <3>1, FoundMore
    <3> QED BY <3>1, <3>2, <3>3
  <2>5. u.lanes[l].pieces = none
    <3>1. u.lanes[l].pieces \in Seq(Place)
      BY <2>2, LaneKnown
    <3> QED BY <2>1, <2>2, <3>1
  <2>6. LaneStored(stream, S, u.frames, l, u.lanes[l])
    <3>1. u.lanes[l].inside <=> Len(u.lanes[l].pieces) > 0
      BY <2>2
    <3> QED BY <2>4, <2>5, <3>1 DEF LaneStored
  <2>7. ASSUME NEW m \in Lanes, m # l PROVE LaneStored(stream, S, u.frames, m, u.lanes[m])
    <3>1. PICK other : other = s.lanes[m] /\ other = u.lanes[m] /\ other.pieces \in Seq(Place)
      BY <1>2, <2>2, <2>7, LaneKnown
    <3>2. LaneStored(stream, S, s.frames, m, other)
      BY <3>1 DEF Stored
    <3>3. Shelved(stream, S, u.frames, m, other.pieces) /\ Found(stream, S, u.frames, m)
      BY <1>2, <2>3, <2>7, <3>1, <3>2, OneMoreOther DEF LaneStored
    <3> QED BY <3>1, <3>2, <3>3 DEF LaneStored
  <2>8. Stored(stream, S, u)
    BY <2>2, <2>6, <2>7 DEF Stored
  <2> QED BY <2>2, <2>8
<1>4. CASE lane.inside
  <2>1. PICK status, affected : status = Judged("incomplete", lane.lost) /\ affected = lane.lost
    OBVIOUS
  <2>2. status \in Statuses /\ affected \in BOOLEAN
    BY <1>2, <2>1, StatusesKnown DEF Judged
  <2>3. u = Close(s, l, status, open, affected)
    BY <1>1, <1>4, <2>1 DEF FinishLane
  <2>4. OneFrame(s, u, l, open, status, affected)
    BY <1>2, <2>2, <2>3, CloseOne
  <2> QED BY <1>3, <2>4
<1>5. CASE ~lane.inside /\ lane.pending
  <2>1. PICK status, pieces, affected :
          status = "malformed" /\ pieces = <<>> /\ affected = TRUE
    OBVIOUS
  <2>2. status \in Statuses /\ affected \in BOOLEAN
    BY <2>1, StatusesKnown
  <2>3. pieces = open
    <3>1. Len(open) \in Nat /\ ~(Len(open) > 0)
      BY <1>1, <1>2, <1>5 DEF Even
    <3> QED BY <1>2, <2>1, <3>1
  <2>4. u = Close(s, l, status, pieces, affected)
    BY <1>1, <1>5, <2>1 DEF FinishLane
  <2>5. OneFrame(s, u, l, pieces, status, affected)
    BY <1>2, <2>2, <2>3, <2>4, CloseOne
  <2> QED BY <1>3, <2>3, <2>5
<1>6. CASE ~lane.inside /\ ~lane.pending
  <2>1. u = s
    BY <1>1, <1>6 DEF FinishLane
  <2> QED BY <1>1, <1>6, <2>1
<1> QED BY <1>4, <1>5, <1>6

LEMMA FinishStored ==
  ASSUME NEW stream, NEW S, NEW s, Stored(stream, S, s), s.receiving, NEW u, u = FinishReceive(s)
  PROVE  Stored(stream, S, u) /\ ~u.receiving /\ \A l \in Lanes : ~u.lanes[l].inside
<1> DEFINE N == Len(LaneOrder)
           finished[i \in 0..Len(LaneOrder)] ==
             IF i = 0 THEN s ELSE FinishLane(finished[i - 1], LaneOrder[i])
<1>1. N \in Nat /\ \A i \in 1..N : LaneOrder[i] \in Lanes
  BY LanesKnown
<1>2. u = [finished[Len(LaneOrder)] EXCEPT !.receiving = FALSE]
  BY DEF FinishReceive
<1>3. finished = [i \in 0..Len(LaneOrder) |->
                    IF i = 0 THEN s ELSE FinishLane(finished[i - 1], LaneOrder[i])]
  <2>1. PICK what : what = "finish"
    OBVIOUS
  <2>2. PICK f : Doing(what, s, s, Len(LaneOrder), f)
    BY <1>1, DoingExists
  <2>3. f = [i \in 0..Len(LaneOrder) |->
               IF i = 0 THEN s ELSE FinishLane(f[i - 1], LaneOrder[i])]
    BY <2>1, <2>2 DEF Doing, Done
  <2>4. \E g : g = [i \in 0..Len(LaneOrder) |->
                      IF i = 0 THEN s ELSE FinishLane(g[i - 1], LaneOrder[i])]
    BY <2>3
  <2> QED BY <2>4, Zenon
<1> HIDE DEF finished
<1>4. finished[0] = s /\ \A i \in 1..N : finished[i] = FinishLane(finished[i - 1], LaneOrder[i])
  <2>1. 0 \in 0..N /\ \A i \in 1..N : i \in 0..N /\ i # 0
    BY <1>1
  <2>2. finished[0] = s
    BY <1>3, <2>1
  <2>3. \A i \in 1..N : finished[i] = FinishLane(finished[i - 1], LaneOrder[i])
    BY <1>3, <2>1
  <2> QED BY <2>2, <2>3
<1> DEFINE Fine(i) == /\ Stored(stream, S, finished[i])
                      /\ \A j \in 1..i : ~finished[i].lanes[LaneOrder[j]].inside
           fine == [i \in 0..N |-> IF Fine(i) THEN TRUE ELSE FALSE]
<1>5. Fine(0)
  BY <1>4
<1>6. ASSUME NEW i \in 0..N, i < N, Fine(i) PROVE Fine(i + 1)
  <2>1. i + 1 \in 1..N /\ (i + 1) - 1 = i /\ i \in Nat
    BY <1>1, <1>6
  <2>2. PICK t, v, l : t = finished[i] /\ v = finished[i + 1] /\ l = LaneOrder[i + 1]
    OBVIOUS
  <2>3. v = FinishLane(t, l) /\ l \in Lanes /\ Stored(stream, S, t)
    BY <1>1, <1>4, <1>6, <2>1, <2>2
  <2>4. /\ Stored(stream, S, v) /\ ~v.lanes[l].inside
        /\ \A m \in Lanes : ~t.lanes[m].inside => ~v.lanes[m].inside
    BY <2>3, FinishLaneStored
  <2>5. \A j \in 1..i : LaneOrder[j] \in Lanes
    BY <1>1, <2>1
  <2>6. \A j \in 1..i : ~v.lanes[LaneOrder[j]].inside
    BY <1>6, <2>2, <2>4, <2>5
  <2>7. \A j \in 1..(i + 1) : j \in 1..i \/ j = i + 1
    BY <2>1
  <2> QED BY <2>2, <2>4, <2>6, <2>7
<1>7. Fine(N)
  <2> HIDE DEF Fine
  <2>1. fine[0] = TRUE
    BY <1>1, <1>5
  <2>2. \A i \in 0..N : i < N /\ fine[i] = TRUE => fine[i + 1] = TRUE
    BY <1>1, <1>6
  <2>3. \A i \in 0..N : fine[i] = TRUE
    <3> HIDE DEF fine
    <3> QED BY <1>1, <2>1, <2>2, Upward
  <2>4. N \in 0..N
    BY <1>1
  <2>5. fine[N] = TRUE /\ fine[N] = IF Fine(N) THEN TRUE ELSE FALSE
    BY <2>3, <2>4
  <2> QED BY <2>5
<1>8. \A l \in Lanes : \E j \in 1..N : l = LaneOrder[j]
  BY LanesKnown
<1>9. PICK t : t = finished[N]
  OBVIOUS
<1>10. Stored(stream, S, t) /\ \A l \in Lanes : ~t.lanes[l].inside
  BY <1>7, <1>8, <1>9
<1>11. u = [t EXCEPT !.receiving = FALSE]
  BY <1>2, <1>9
<1>12. u \in Sessions /\ u.lanes = t.lanes /\ u.frames = t.frames /\ ~u.receiving
  BY <1>10, <1>11 DEF Stored, Sessions
<1> QED BY <1>10, <1>12 DEF Stored

(* The stream goes on; nothing that was said of its beginning changes.       *)
Prolongs(stream, longer) ==
  /\ IsStream(stream) /\ IsStream(longer) /\ Len(stream) <= Len(longer)
  /\ \A i \in 1..Len(stream) : longer[i] = stream[i]

LEMMA ProlongedPiece ==
  ASSUME NEW stream, NEW longer, Prolongs(stream, longer),
         NEW l, NEW p, p[1] \in 1..Len(stream)
  PROVE  /\ PieceOf(longer, l, p) <=> PieceOf(stream, l, p)
         /\ KindAt(longer, p) = KindAt(stream, p)
<1>1. /\ DOMAIN stream = 1..Len(stream) /\ DOMAIN longer = 1..Len(longer)
      /\ Len(stream) \in Nat /\ Len(longer) \in Nat
  BY DEF Prolongs, IsStream
<1>2. p[1] \in DOMAIN stream /\ p[1] \in DOMAIN longer /\ longer[p[1]] = stream[p[1]]
  BY <1>1 DEF Prolongs
<1> QED BY <1>2 DEF PieceOf, KindAt

LEMMA LongerLane ==
  ASSUME NEW stream, NEW longer, Prolongs(stream, longer),
         NEW S, \A p \in S : p[1] \in 1..Len(stream),
         NEW frames, NEW l, NEW lane, LaneFiled(stream, S, frames, l, lane)
  PROVE  LaneFiled(longer, S, frames, l, lane)
<1>1. \A p \in S : /\ PieceOf(longer, l, p) <=> PieceOf(stream, l, p)
                   /\ KindAt(longer, p) = KindAt(stream, p)
  BY ProlongedPiece
<1>2. \A p \in S : HoldsBytes(longer, l, p) <=> HoldsBytes(stream, l, p)
  BY <1>1 DEF HoldsBytes
<1>3. Shelved(longer, S, frames, l, lane.pieces)
  <2>1. Shelved(stream, S, frames, l, lane.pieces)
    BY DEF LaneFiled, LaneStored
  <2> QED BY <1>2, <2>1 DEF Shelved
<1>4. ASSUME NEW a \in S, NEW b \in S, FrameSent(longer, l, a, b) PROVE FrameSent(stream, l, a, b)
  <2>1. ASSUME OnlyDataBetween(longer, l, a, b) PROVE OnlyDataBetween(stream, l, a, b)
    <3>1. SUFFICES ASSUME NEW e \in DOMAIN stream, NEW k \in OffsetsOf(stream[e], l),
                          stream[e].type # "loss",
                          Precedes(a, <<e, k>>), Precedes(<<e, k>>, b)
                   PROVE  KindAt(stream, <<e, k>>) \in {"data", "continuation"}
      BY DEF OnlyDataBetween
    <3>2. e \in 1..Len(stream) /\ e \in DOMAIN longer /\ longer[e] = stream[e]
      BY DEF Prolongs, IsStream
    <3>3. PICK p : p = <<e, k>>
      OBVIOUS
    <3>4. p[1] \in 1..Len(stream)
      BY <3>2, <3>3
    <3>5. KindAt(longer, p) \in {"data", "continuation"}
      BY <2>1, <3>1, <3>2, <3>3 DEF OnlyDataBetween
    <3> QED BY <3>3, <3>4, <3>5, ProlongedPiece
  <2> QED BY <1>1, <1>4, <2>1 DEF FrameSent
<1>5. Found(longer, S, frames, l)
  <2>1. Found(stream, S, frames, l)
    BY DEF LaneFiled, LaneStored
  <2> QED BY <1>4, <2>1 DEF Found
<1>6. ASSUME NEW a, Unfinished(longer, S, l, a) PROVE Unfinished(stream, S, l, a)
  BY <1>1, <1>6 DEF Unfinished
<1>7. Reads(longer, S, l, lane)
  BY <1>6 DEF LaneFiled, Reads
<1> QED BY <1>3, <1>5, <1>7 DEF LaneFiled, LaneStored

LEMMA LongerFiled ==
  ASSUME NEW stream, NEW longer, Prolongs(stream, longer),
         NEW S, \A p \in S : p[1] \in 1..Len(stream), NEW s, Filed(stream, S, s)
  PROVE  Filed(longer, S, s)
BY LongerLane DEF Filed

(* A capture that has seen nothing yet.                                      *)
LEMMA NothingFiled ==
  ASSUME NEW stream, NEW S, S = {}, NEW s \in Sessions, s.frames = <<>>,
         \A l \in Lanes : ~s.lanes[l].inside /\ Len(s.lanes[l].pieces) = 0
  PROVE  Filed(stream, S, s)
<1>1. ASSUME NEW l \in Lanes PROVE LaneFiled(stream, S, s.frames, l, s.lanes[l])
  <2>1. PICK frames, open : frames = s.frames /\ open = s.lanes[l].pieces
    OBVIOUS
  <2>2. Len(frames) = 0 /\ Len(open) = 0
    BY <2>1
  <2>3. \A i, n, p : ~Standing(frames, l, open, i, n, p)
    <3>1. ASSUME NEW i, NEW n, NEW p, Standing(frames, l, open, i, n, p) PROVE FALSE
      <4>1. i = 1
        BY <2>2, <3>1 DEF Standing
      <4>2. PiecesIn(frames, l, open, i) = open
        BY <2>2, <4>1 DEF PiecesIn
      <4> QED BY <2>2, <3>1, <4>2 DEF Standing
    <3> QED BY <3>1
  <2>4. Shelved(stream, S, frames, l, open)
    BY <2>3 DEF Shelved
  <2>5. Found(stream, S, frames, l) /\ Reads(stream, S, l, s.lanes[l])
    BY DEF Found, Reads, Unfinished
  <2> QED BY <2>1, <2>4, <2>5 DEF LaneFiled, LaneStored
<1> QED BY <1>1 DEF Filed

LEMMA FiledStored ==
  ASSUME NEW stream, NEW S, NEW s, Filed(stream, S, s) PROVE Stored(stream, S, s)
BY DEF Filed, Stored, LaneFiled

LEMMA StoredStanding ==
  ASSUME NEW stream, NEW S, NEW s, Stored(stream, S, s), NEW i \in 1..Len(s.frames),
         NEW n \in 1..Len(s.frames[i].pieces), NEW l, l = s.frames[i].lane, NEW open
  PROVE  Standing(s.frames, l, open, i, n, s.frames[i].pieces[n])
<1>1. Len(s.frames) \in Nat
  BY DEF Stored, Sessions
<1>2. PiecesIn(s.frames, l, open, i) = s.frames[i].pieces
  BY <1>1 DEF PiecesIn
<1> QED BY <1>1, <1>2 DEF Standing

(* A frame that was sent is in the document, with all its pieces, once.      *)
LEMMA SpanFound ==
  ASSUME NEW stream, IsStream(stream), NEW S, S \subseteq Place, NEW s, Stored(stream, S, s),
         NEW l \in Lanes, NEW a \in S, NEW b \in S, FrameSent(stream, l, a, b),
         \A p \in Place : Precedes(a, p) /\ Precedes(p, b) => p \in S
  PROVE  InDocument(stream, s.frames, l, a, b)
<1>1. PICK frames, open : frames = s.frames /\ open = s.lanes[l].pieces
  OBVIOUS
<1>2. /\ frames \in Seq(Frame) /\ open \in Seq(Place)
      /\ Shelved(stream, S, frames, l, open) /\ Found(stream, S, frames, l)
  BY <1>1, LaneKnown DEF Stored, LaneStored, Sessions
<1>3. PICK i \in 1..Len(frames) : Reaches(frames, l, i, a, b)
  BY <1>2 DEF Found
<1>4. PICK pieces, last : pieces = frames[i].pieces /\ last = Len(pieces)
  OBVIOUS
<1>5. /\ frames[i].lane = l /\ Reported(frames[i]) /\ last > 0 /\ pieces[1] = a /\ pieces[last] = b
      /\ pieces \in Seq(Place) /\ last \in Nat /\ Len(frames) \in Nat
  <2>1. frames[i] \in Frame /\ Len(frames) \in Nat
    BY <1>2
  <2>2. pieces \in Seq(Place)
    BY <1>4, <2>1 DEF Frame
  <2>3. last \in Nat
    BY <1>4, <2>2
  <2>4. /\ frames[i].lane = l /\ Reported(frames[i]) /\ last > 0
        /\ pieces[1] = a /\ pieces[last] = b
    BY <1>3, <1>4 DEF Reaches
  <2> QED BY <2>1, <2>2, <2>3, <2>4
<1>6. \A n \in 1..last : Standing(frames, l, open, i, n, pieces[n])
  BY <1>1, <1>4, <1>5, StoredStanding
<1>7. \A n \in 1..last : PieceOf(stream, l, pieces[n])
  BY <1>2, <1>6 DEF Shelved, HoldsBytes
<1>8. \A n \in 2..last : Precedes(pieces[n - 1], pieces[n])
  <2> SUFFICES ASSUME NEW n \in 2..last PROVE Precedes(pieces[n - 1], pieces[n])
    OBVIOUS
  <2>1. n - 1 \in 1..last /\ n \in 1..last /\ Before(i, n - 1, i, n)
    BY <1>5 DEF Before
  <2> QED BY <1>2, <1>6, <2>1 DEF Shelved
<1>9. 1 \in 1..last /\ last \in 1..last
  BY <1>5
<1>10. Standing(frames, l, open, i, 1, a) /\ Standing(frames, l, open, i, last, b)
  BY <1>5, <1>6, <1>9
<1>11. ASSUME NEW e \in DOMAIN stream, NEW k \in OffsetsOf(stream[e], l), stream[e].type # "loss",
              Precedes(a, <<e, k>>), Precedes(<<e, k>>, b)
       PROVE  \E n \in 1..last : pieces[n] = <<e, k>>
  <2>1. PICK p : p = <<e, k>>
    OBVIOUS
  <2>2. /\ PieceOf(stream, l, p) /\ p \in Place /\ Precedes(a, p) /\ Precedes(p, b)
        /\ a \in Place /\ b \in Place
    <3>1. e \in Nat /\ k \in Nat
      BY OffsetsAreNumbers DEF IsStream
    <3> QED BY <1>11, <2>1, <3>1 DEF PieceOf, Place
  <2>3. p \in S
    BY <2>2
  <2>4. KindAt(stream, p) \in {"data", "continuation"}
    <3>1. a # b
      BY <2>2, PrecedesOnce
    <3>2. OnlyDataBetween(stream, l, a, b)
      BY <3>1 DEF FrameSent
    <3> QED BY <1>11, <2>1, <3>2 DEF OnlyDataBetween
  <2>5. PICK j, n : Standing(frames, l, open, j, n, p)
    BY <1>2, <2>2, <2>3, <2>4 DEF Shelved, HoldsBytes
  <2>6. j \in 1..(Len(frames) + 1)
    BY <2>5 DEF Standing
  <2>7. ~(j < i)
    <3>1. SUFFICES ASSUME j < i PROVE FALSE
      OBVIOUS
    <3>2. Before(j, n, i, 1)
      BY <3>1 DEF Before
    <3>3. Precedes(p, a)
      BY <1>2, <1>10, <2>5, <3>2 DEF Shelved
    <3> QED BY <2>2, <3>3, PrecedesOnce
  <2>8. ~(i < j)
    <3>1. SUFFICES ASSUME i < j PROVE FALSE
      OBVIOUS
    <3>2. Before(i, last, j, n)
      BY <3>1 DEF Before
    <3>3. Precedes(b, p)
      BY <1>2, <1>10, <2>5, <3>2 DEF Shelved
    <3> QED BY <2>2, <3>3, PrecedesOnce
  <2>9. j = i
    BY <1>5, <2>6, <2>7, <2>8
  <2>10. PiecesIn(frames, l, open, i) = pieces
    BY <1>4, <1>5 DEF PiecesIn
  <2> QED BY <1>4, <2>1, <2>5, <2>9, <2>10 DEF Standing
<1>12. Spans(stream, l, pieces, a, b)
  BY <1>4, <1>5, <1>7, <1>8, <1>11 DEF Spans
<1>13. ASSUME NEW j \in 1..Len(frames), j # i, frames[j].pieces = pieces PROVE FALSE
  <2>1. PICK m, other : m = frames[j].lane /\ other = s.lanes[m].pieces
    OBVIOUS
  <2>2. 1 \in 1..Len(frames[j].pieces) /\ frames[j].pieces[1] = a /\ m \in Lanes
    <3>1. frames[j] \in Frame
      BY <1>2
    <3> QED BY <1>4, <1>5, <1>9, <1>13, <2>1, <3>1 DEF Frame
  <2>3. Standing(frames, m, other, j, 1, a)
    BY <1>1, <2>1, <2>2, StoredStanding
  <2>4. Shelved(stream, S, frames, m, other)
    BY <1>1, <2>1, <2>2 DEF Stored, LaneStored
  <2>5. PieceOf(stream, m, a) /\ PieceOf(stream, l, a)
    BY <2>3, <2>4 DEF Shelved, HoldsBytes, FrameSent
  <2>6. m = l
    BY <2>5 DEF PieceOf, OffsetsOf
  <2>7. other = open
    BY <1>1, <2>1, <2>6
  <2>8. Before(i, 1, j, 1) \/ Before(j, 1, i, 1)
    BY <1>5, <1>13 DEF Before
  <2>9. Precedes(a, a)
    BY <1>2, <1>10, <2>3, <2>6, <2>7, <2>8 DEF Shelved
  <2>10. a \in Place
    OBVIOUS
  <2> QED BY <2>9, <2>10, PrecedesOnce
<1>14. DOMAIN frames = 1..Len(frames)
  BY <1>2
<1>15. \A j \in DOMAIN frames \ {i} : frames[j].pieces # frames[i].pieces
  BY <1>4, <1>13, <1>14
<1> QED BY <1>1, <1>4, <1>5, <1>12, <1>14, <1>15 DEF InDocument, Reported

(* The inductive invariant: what was heard stands in the document and in the *)
(* lanes; outside a capture the lanes hold nothing.                          *)
Shelving ==
  LET seen == Through(0, Len(heard)) IN
  /\ Stored(heard, seen, receiver)
  /\ receiver.receiving => Filed(heard, seen, receiver)
  /\ ~receiver.receiving => \A l \in Lanes : ~receiver.lanes[l].inside

LEMMA NothingThrough == ASSUME NEW c \in Nat, NEW e \in Nat, e <= c PROVE Through(c, e) = {}
<1> SUFFICES ASSUME NEW p \in Place, c < p[1], p[1] <= e PROVE FALSE
  BY DEF Through
<1>1. p[1] \in Nat
  BY DEF Place
<1> QED BY <1>1

LEMMA NothingShelved ==
  ASSUME heard' = <<>>, receiver' \in Sessions, receiver'.frames = <<>>,
         \A l \in Lanes : ~receiver'.lanes[l].inside /\ Len(receiver'.lanes[l].pieces) = 0
  PROVE  Shelving'
<1>1. PICK stream, S, s : stream = heard' /\ S = Through(0, Len(heard')) /\ s = receiver'
  OBVIOUS
<1>2. Len(stream) = 0 /\ S = {}
  BY <1>1, NothingThrough
<1>3. Filed(stream, S, s) /\ Stored(stream, S, s)
  BY <1>1, <1>2, NothingFiled, FiledStored
<1> QED BY <1>1, <1>3 DEF Shelving

LEMMA InitShelving == CaptureInit => Shelving
<1> SUFFICES ASSUME CaptureInit PROVE Shelving
  OBVIOUS
<1>1. PICK stream, S, s : stream = heard /\ S = Through(0, Len(heard)) /\ s = receiver
  OBVIOUS
<1>2. stream = <<>> /\ s = NewSession
  BY <1>1 DEF CaptureInit
<1>3. Len(stream) = 0 /\ S = {}
  BY <1>1, <1>2, NothingThrough
<1>4. /\ s \in Sessions /\ s.frames = <<>>
      /\ \A l \in Lanes : ~s.lanes[l].inside /\ Len(s.lanes[l].pieces) = 0
  BY <1>2, AsNew, IdleEmpty
<1>5. Filed(stream, S, s) /\ Stored(stream, S, s)
  BY <1>3, <1>4, NothingFiled, FiledStored
<1> QED BY <1>1, <1>4, <1>5 DEF Shelving

LEMMA BeginShelving == Shelving /\ BeginCapture => Shelving'
<1> SUFFICES ASSUME Shelving, BeginCapture PROVE Shelving'
  OBVIOUS
<1>1. heard' = <<>> /\ receiver' = [NewSession EXCEPT !.receiving = TRUE]
  BY DEF BeginCapture, BeginReceive
<1>2. /\ receiver' \in Sessions /\ receiver'.frames = <<>>
      /\ \A l \in Lanes : receiver'.lanes[l] = Idle
  BY <1>1, AsNew DEF Sessions
<1> QED BY <1>1, <1>2, IdleEmpty, NothingShelved

LEMMA ClearShelving == Shelving /\ ClearCapture => Shelving'
<1> SUFFICES ASSUME Shelving, ClearCapture PROVE Shelving'
  OBVIOUS
<1>1. /\ heard' = <<>> /\ ~receiver.receiving
      /\ receiver' = [receiver EXCEPT !.frames = <<>>]
  BY DEF ClearCapture, ClearDocument
<1>2. <<>> \in Seq(Frame) /\ receiver \in Sessions
  BY DEF Shelving, Stored
<1>3. receiver' \in Sessions /\ receiver'.frames = <<>> /\ receiver'.lanes = receiver.lanes
  BY <1>1, <1>2 DEF Sessions
<1>4. ASSUME NEW l \in Lanes PROVE ~receiver.lanes[l].inside /\ Len(receiver.lanes[l].pieces) = 0
  <2>1. ~receiver.lanes[l].inside
    BY <1>1 DEF Shelving
  <2>2. receiver.lanes[l].pieces \in Seq(Place)
    BY <1>2, LaneKnown
  <2>3. ~(Len(receiver.lanes[l].pieces) > 0)
    BY <2>1 DEF Shelving, Stored, LaneStored
  <2> QED BY <2>1, <2>2, <2>3
<1> QED BY <1>1, <1>3, <1>4, NothingShelved

LEMMA FinishShelving == Shelving /\ FinishCapture => Shelving'
<1> SUFFICES ASSUME Shelving, FinishCapture PROVE Shelving'
  OBVIOUS
<1>1. PICK stream, S, s, u :
        stream = heard /\ S = Through(0, Len(heard)) /\ s = receiver /\ u = receiver'
  OBVIOUS
<1>2. s.receiving /\ u = FinishReceive(s) /\ heard' = heard
  BY <1>1 DEF FinishCapture
<1>3. Stored(stream, S, s)
  BY <1>1 DEF Shelving
<1>4. Stored(stream, S, u) /\ ~u.receiving /\ \A l \in Lanes : ~u.lanes[l].inside
  BY <1>2, <1>3, FinishStored
<1> QED BY <1>1, <1>2, <1>4 DEF Shelving

LEMMA AppendProlongs ==
  ASSUME NEW stream, IsStream(stream), NEW event \in Events, event.seq = Len(stream) + 1,
         NEW longer, longer = Append(stream, event)
  PROVE  /\ Prolongs(stream, longer) /\ Len(longer) = Len(stream) + 1 /\ Len(stream) \in Nat
         /\ Len(longer) \in DOMAIN longer /\ longer[Len(longer)] = event
<1>1. /\ IsStream(longer) /\ Len(longer) = Len(stream) + 1
      /\ Len(longer) \in DOMAIN longer /\ longer[Len(longer)] = event
  BY LongerStream
<1>2. IsSeq(stream) /\ Len(stream) \in Nat
  BY DEF IsSeq, IsStream
<1>3. \A i \in 1..Len(stream) : longer[i] = stream[i]
  BY <1>2, AppendPlaces
<1> QED BY <1>1, <1>2, <1>3 DEF Prolongs

LEMMA HearShelving ==
  ASSUME Listening, Shelving, NEW input \in feed.inputs, Hear(input)
  PROVE  Shelving'
<1>1. PICK stream, s, u, event, longer :
        /\ stream = heard /\ s = receiver /\ u = receiver'
        /\ event = Numbered(input, Len(heard) + 1) /\ longer = Append(heard, event)
  OBVIOUS
<1>2. s.receiving /\ u = ConsumeEvent(s, event) /\ heard' = longer
  BY <1>1 DEF Hear
<1>3. IsStream(stream) /\ feed \in Feeds
  BY <1>1 DEF Listening
<1>4. event \in Events /\ event.seq = Len(stream) + 1
  <2>1. input \in Events /\ Len(heard) + 1 \in Nat
    BY <1>1, <1>3, FeedsAssumption DEF IsStream
  <2> QED BY <1>1, <2>1, NumberedKnown
<1>5. /\ Prolongs(stream, longer) /\ Len(longer) = Len(stream) + 1 /\ Len(stream) \in Nat
      /\ Len(longer) \in DOMAIN longer /\ longer[Len(longer)] = event
  BY <1>1, <1>3, <1>4, AppendProlongs
<1>6. PICK e, c, S, W : e = Len(longer) /\ c = 0 /\ S = Through(c, e - 1) /\ W = Through(c, e)
  OBVIOUS
<1>7. Filed(stream, S, s)
  <2>1. e - 1 = Len(stream)
    BY <1>5, <1>6
  <2>2. Filed(heard, Through(0, Len(heard)), receiver)
    BY <1>1, <1>2 DEF Shelving
  <2> QED BY <1>1, <1>6, <2>1, <2>2
<1>8. \A p \in S : p[1] \in 1..Len(stream)
  <2>1. \A p \in S : p \in Place /\ p[1] \in Nat /\ c < p[1] /\ p[1] <= e - 1
    BY <1>6 DEF Through, Place
  <2> QED BY <1>5, <1>6, <2>1
<1>9. Filed(longer, S, s)
  BY <1>5, <1>7, <1>8, LongerFiled
<1>10. u = IF longer[e].type = "loss" THEN NotifyLoss(s, Tainted(longer[e]))
           ELSE ConsumeData(s, longer[e])
  BY <1>2, <1>5, <1>6 DEF ConsumeEvent
<1>11. Filed(longer, W, u) /\ u.receiving = s.receiving
  <2>1. IsStream(longer) /\ e \in DOMAIN longer /\ c \in Nat /\ c < e
    BY <1>5, <1>6 DEF Prolongs
  <2>2. Filed(longer, Through(c, e - 1), s)
    BY <1>6, <1>9
  <2>3. Filed(longer, Through(c, e), u) /\ u.receiving = s.receiving
    BY <1>10, <2>1, <2>2, EventFiled
  <2> QED BY <1>6, <2>3
<1>12. Stored(longer, W, u)
  BY <1>11, FiledStored
<1>13. W = Through(0, Len(heard')) /\ longer = heard' /\ u = receiver' /\ u.receiving
  BY <1>1, <1>2, <1>6, <1>11
<1> QED BY <1>11, <1>12, <1>13 DEF Shelving

LEMMA StepShelving == Listening /\ Shelving /\ [CaptureNext]_captureVars => Shelving'
<1> SUFFICES ASSUME Listening, Shelving, [CaptureNext]_captureVars PROVE Shelving'
  OBVIOUS
<1>1. CASE BeginCapture
  BY <1>1, BeginShelving
<1>2. ASSUME NEW input \in feed.inputs, Hear(input) PROVE Shelving'
  BY <1>2, HearShelving
<1>3. CASE FinishCapture
  BY <1>3, FinishShelving
<1>4. CASE ClearCapture
  BY <1>4, ClearShelving
<1>5. CASE UNCHANGED captureVars
  BY <1>5 DEF captureVars, Shelving
<1> QED BY <1>1, <1>2, <1>3, <1>4, <1>5 DEF CaptureNext

LEMMA ShelvingConserves == Listening /\ Shelving => PiecesConserved
<1> SUFFICES ASSUME Listening, Shelving, NEW l \in Lanes
             PROVE  LET book    == 1..(Len(receiver.frames) + 1)
                        kept(i) == PiecesIn(receiver.frames, l, receiver.lanes[l].pieces, i)
                    IN /\ \A i \in book : \A n \in 1..Len(kept(i)) : HoldsBytes(heard, l, kept(i)[n])
                       /\ \A e \in DOMAIN heard : \A k \in OffsetsOf(heard[e], l) :
                            HoldsBytes(heard, l, <<e, k>>) =>
                              \E i \in book : \E n \in 1..Len(kept(i)) : kept(i)[n] = <<e, k>>
                       /\ \A i, j \in book : \A m \in 1..Len(kept(i)), n \in 1..Len(kept(j)) :
                            i < j \/ (i = j /\ m < n) => Precedes(kept(i)[m], kept(j)[n])
  BY DEF PiecesConserved
<1>1. PICK frames, open, S : /\ frames = receiver.frames /\ open = receiver.lanes[l].pieces
                             /\ S = Through(0, Len(heard))
  OBVIOUS
<1>2. Shelved(heard, S, frames, l, open)
  BY <1>1 DEF Shelving, Stored, LaneStored
<1> DEFINE book    == 1..(Len(frames) + 1)
           kept(i) == PiecesIn(frames, l, open, i)
<1>3. ASSUME NEW i \in book, NEW n \in 1..Len(kept(i)) PROVE Standing(frames, l, open, i, n, kept(i)[n])
  BY <1>3 DEF Standing
<1>4. ASSUME NEW i, NEW n, NEW p, Standing(frames, l, open, i, n, p)
      PROVE  i \in book /\ n \in 1..Len(kept(i)) /\ kept(i)[n] = p
  BY <1>4 DEF Standing
<1> HIDE DEF book, kept
<1>5. ASSUME NEW i \in book, NEW n \in 1..Len(kept(i)) PROVE HoldsBytes(heard, l, kept(i)[n])
  BY <1>2, <1>3 DEF Shelved
<1>6. ASSUME NEW e \in DOMAIN heard, NEW k \in OffsetsOf(heard[e], l), HoldsBytes(heard, l, <<e, k>>)
      PROVE  \E i \in book : \E n \in 1..Len(kept(i)) : kept(i)[n] = <<e, k>>
  <2>1. PICK p : p = <<e, k>>
    OBVIOUS
  <2>2. e \in 1..Len(heard) /\ e \in Nat /\ k \in Nat /\ Len(heard) \in Nat
    <3>1. IsStream(heard)
      BY DEF Listening
    <3>2. k \in Nat
      BY <3>1, OffsetsAreNumbers
    <3> HIDE DEF Listening, Shelving
    <3> QED BY <3>1, <3>2 DEF IsStream
  <2>3. p \in S
    BY <1>1, <2>1, <2>2 DEF Through, Place
  <2>4. PICK i, n : Standing(frames, l, open, i, n, p)
    BY <1>2, <1>6, <2>1, <2>3 DEF Shelved
  <2> QED BY <1>4, <2>1, <2>4
<1>7. ASSUME NEW i \in book, NEW j \in book, NEW m \in 1..Len(kept(i)), NEW n \in 1..Len(kept(j)),
             i < j \/ (i = j /\ m < n)
      PROVE  Precedes(kept(i)[m], kept(j)[n])
  <2>1. PICK p, q : p = kept(i)[m] /\ q = kept(j)[n]
    OBVIOUS
  <2>2. Standing(frames, l, open, i, m, p) /\ Standing(frames, l, open, j, n, q)
    BY <1>3, <2>1
  <2>3. Before(i, m, j, n)
    BY <1>7 DEF Before
  <2> QED BY <1>2, <2>1, <2>2, <2>3 DEF Shelved
<1> QED BY <1>1, <1>5, <1>6, <1>7 DEF book, kept

LEMMA ShelvingKeeps == Listening /\ Shelving => EveryWholeFrameKept
<1> SUFFICES ASSUME Listening, Shelving, NEW l \in Lanes, NEW d \in DOMAIN heard,
                    NEW e \in DOMAIN heard, NEW j \in OffsetsOf(heard[d], l),
                    NEW k \in OffsetsOf(heard[e], l), FrameSent(heard, l, <<d, j>>, <<e, k>>)
             PROVE  InDocument(heard, receiver.frames, l, <<d, j>>, <<e, k>>)
  BY DEF EveryWholeFrameKept
<1>1. PICK stream, S, s, a, b : /\ stream = heard /\ S = Through(0, Len(heard)) /\ s = receiver
                                /\ a = <<d, j>> /\ b = <<e, k>>
  OBVIOUS
<1>2. IsStream(stream) /\ Stored(stream, S, s) /\ FrameSent(stream, l, a, b)
  BY <1>1 DEF Listening, Shelving
<1>3. /\ d \in 1..Len(stream) /\ e \in 1..Len(stream) /\ Len(stream) \in Nat
      /\ d \in Nat /\ e \in Nat /\ j \in Nat /\ k \in Nat
  BY <1>1, <1>2, OffsetsAreNumbers DEF IsStream
<1>4. a \in S /\ b \in S /\ S \subseteq Place
  BY <1>1, <1>3 DEF Through, Place
<1>5. ASSUME NEW p \in Place, Precedes(a, p), Precedes(p, b) PROVE p \in S
  <2>1. p[1] \in Nat /\ a[1] = d /\ b[1] = e
    BY <1>1 DEF Place
  <2>2. 0 < p[1] /\ p[1] <= Len(stream)
    BY <1>3, <1>5, <2>1 DEF Precedes
  <2> QED BY <1>1, <2>2 DEF Through
<1>6. InDocument(stream, s.frames, l, a, b)
  BY <1>2, <1>4, <1>5, SpanFound
<1> QED BY <1>1, <1>6

LEMMA ShelvingAlways == CaptureSpec => [](Listening /\ Shelving)
<1>1. CaptureInit => (Listening /\ Remembered /\ Shelving)
  BY InitListening, InitShelving
<1>2. (Listening /\ Remembered /\ Shelving) /\ [CaptureNext]_captureVars
      => (Listening /\ Remembered /\ Shelving)'
  BY StepListening, StepShelving
<1>3. CaptureSpec => [](Listening /\ Remembered /\ Shelving)
  BY <1>1, <1>2, PTL DEF CaptureSpec
<1> QED BY <1>3, PTL

(* The document keeps everything that was heard of a lane, in order: nothing *)
(* is dropped, nothing is there twice and nothing is invented, whatever the  *)
(* wire carries (core/sysex: the byte parser and the packet assembler).      *)
THEOREM PiecesKept == CaptureSpec => []PiecesConserved
BY ShelvingAlways, ShelvingConserves, PTL

(* A frame that was sent whole is in the document, once, with exactly its    *)
(* pieces, and complete unless it is marked as hit by a loss.                *)
THEOREM WholeFramesKept == CaptureSpec => []EveryWholeFrameKept
BY ShelvingAlways, ShelvingKeeps, PTL

-----------------------------------------------------------------------------
(* What the worker took is a stream too, numbered as the transport numbered  *)
(* it: a marker stands in the place of each event that was dropped.          *)
Renumbered(items) == [i \in 1..Len(items) |-> Numbered(items[i], i)]

LEMMA NumberedSame ==
  ASSUME NEW x \in Events, NEW i \in Nat
  PROVE  /\ Numbered(x, i).type = x.type
         /\ x.type = "loss" => Tainted(Numbered(x, i)) = Tainted(x)
         /\ x.seq = i => Numbered(x, i) = x
<1>1. CASE x \in [type : {"midi1"}, seq : Nat, backend : Backends,
                  data : Seq([lane : {Midi1}, kind : ByteKinds])]
  <2> DEFINE D == Seq([lane : {Midi1}, kind : ByteKinds])
  <2>1. x \in [type : {"midi1"}, seq : Nat, backend : Backends, data : D]
    BY <1>1
  <2> HIDE DEF D
  <2> QED BY <2>1 DEF Numbered
<1>2. CASE x \in [type : {"ump"}, seq : Nat, backend : Backends,
                  data : Seq([lane : Groups, kind : PacketKinds])]
  <2> DEFINE D == Seq([lane : Groups, kind : PacketKinds])
  <2>1. x \in [type : {"ump"}, seq : Nat, backend : Backends, data : D]
    BY <1>2
  <2> HIDE DEF D
  <2> QED BY <2>1 DEF Numbered
<1>3. CASE x \in [type : {"loss"}, seq : Nat, backend : Backends, group : Lanes,
                  affects : BOOLEAN]
  <2>1. PICK y : y = [x EXCEPT !.seq = i]
    OBVIOUS
  <2>2. /\ y.type = x.type /\ y.backend = x.backend /\ y.group = x.group
        /\ y.affects = x.affects /\ (x.seq = i => y = x)
    BY <1>3, <2>1
  <2>3. Numbered(x, i) = y
    BY <2>1 DEF Numbered
  <2>4. Tainted(y) = Tainted(x)
    BY <2>2 DEF Tainted
  <2> QED BY <2>2, <2>3, <2>4
<1> QED BY <1>1, <1>2, <1>3 DEF Events

LEMMA RenumberedStream ==
  ASSUME NEW items, IsSeq(items), \A i \in 1..Len(items) : items[i] \in Events,
         NEW stream, stream = Renumbered(items)
  PROVE  /\ IsStream(stream) /\ Len(stream) = Len(items) /\ Len(items) \in Nat
         /\ \A i \in 1..Len(items) : stream[i] = Numbered(items[i], i)
<1>1. Len(items) \in Nat
  BY AppendPlaces
<1>2. \A i \in 1..Len(items) : Numbered(items[i], i) \in Events /\ Numbered(items[i], i).seq = i
  <2> TAKE i \in 1..Len(items)
  <2>1. items[i] \in Events /\ i \in Nat
    BY <1>1
  <2> QED BY <2>1, NumberedKnown
<1>3. stream = [i \in 1..Len(items) |-> Numbered(items[i], i)]
  BY DEF Renumbered
<1>4. stream \in [1..Len(items) -> Events]
  BY <1>2, <1>3
<1>5. stream \in Seq(Events) /\ Len(stream) = Len(items)
  BY <1>1, <1>4
<1> QED BY <1>1, <1>2, <1>3, <1>5 DEF IsStream

LEMMA RenumberedProlongs ==
  ASSUME NEW items, IsSeq(items), \A i \in 1..Len(items) : items[i] \in Events,
         NEW item \in Events, NEW more, more = Append(items, item)
  PROVE  Prolongs(Renumbered(items), Renumbered(more))
<1>1. PICK stream, longer : stream = Renumbered(items) /\ longer = Renumbered(more)
  OBVIOUS
<1>2. /\ IsSeq(more) /\ Len(items) \in Nat /\ Len(more) = Len(items) + 1
      /\ \A i \in 1..Len(items) : more[i] = items[i]
      /\ more[Len(items) + 1] = item
  BY AppendPlaces
<1>3. \A i \in 1..Len(more) : more[i] \in Events
  <2>1. \A i \in 1..Len(more) : i \in 1..Len(items) \/ i = Len(items) + 1
    BY <1>2
  <2> QED BY <1>2, <2>1
<1>4. /\ IsStream(stream) /\ Len(stream) = Len(items)
      /\ \A i \in 1..Len(items) : stream[i] = Numbered(items[i], i)
  BY <1>1, RenumberedStream
<1>5. /\ IsStream(longer) /\ Len(longer) = Len(more)
      /\ \A i \in 1..Len(more) : longer[i] = Numbered(more[i], i)
  BY <1>1, <1>2, <1>3, RenumberedStream
<1>6. \A i \in 1..Len(stream) : longer[i] = stream[i]
  BY <1>2, <1>4, <1>5
<1> QED BY <1>1, <1>2, <1>4, <1>5, <1>6 DEF Prolongs

(* A frame of which no piece was dropped is the same frame in both streams.  *)
LEMMA SameFrame ==
  ASSUME NEW stream, IsStream(stream), NEW seen, IsStream(seen), Len(seen) <= Len(stream),
         \A e \in 1..Len(seen) : seen[e] = stream[e] \/ seen[e].type = "loss",
         NEW l, NEW a \in Place, NEW b \in Place, b[1] <= Len(seen), FrameSent(stream, l, a, b),
         \A e \in a[1]..b[1] :
           stream[e].type # "loss" /\ OffsetsOf(stream[e], l) # {} => seen[e] = stream[e]
  PROVE  /\ FrameSent(seen, l, a, b)
         /\ \A frames : InDocument(seen, frames, l, a, b) => InDocument(stream, frames, l, a, b)
<1>1. /\ DOMAIN stream = 1..Len(stream) /\ Len(stream) \in Nat
      /\ DOMAIN seen = 1..Len(seen) /\ Len(seen) \in Nat
      /\ a[1] \in Nat /\ b[1] \in Nat
  BY DEF IsStream, Place
<1>2. a[1] <= b[1]
  <2>1. a = b \/ Precedes(a, b)
    BY DEF FrameSent
  <2> QED BY <1>1, <2>1 DEF Precedes
<1>3. ASSUME NEW e \in DOMAIN seen, seen[e].type # "loss"
      PROVE  e \in DOMAIN stream /\ seen[e] = stream[e]
  BY <1>1, <1>3
<1>4. ASSUME NEW p, PieceOf(stream, l, p), a[1] <= p[1], p[1] <= b[1]
      PROVE  PieceOf(seen, l, p) /\ KindAt(seen, p) = KindAt(stream, p)
  <2>1. p[1] \in DOMAIN stream /\ stream[p[1]].type # "loss" /\ p[2] \in OffsetsOf(stream[p[1]], l)
    BY <1>4 DEF PieceOf
  <2>2. p[1] \in DOMAIN seen /\ p[1] \in a[1]..b[1]
    BY <1>1, <1>4, <2>1
  <2>3. seen[p[1]] = stream[p[1]]
    BY <2>1, <2>2
  <2> QED BY <2>1, <2>2, <2>3 DEF PieceOf, KindAt
<1>5. ASSUME OnlyDataBetween(stream, l, a, b) PROVE OnlyDataBetween(seen, l, a, b)
  <2>1. SUFFICES ASSUME NEW e \in DOMAIN seen, NEW k \in OffsetsOf(seen[e], l),
                        seen[e].type # "loss", Precedes(a, <<e, k>>), Precedes(<<e, k>>, b)
                 PROVE  KindAt(seen, <<e, k>>) \in {"data", "continuation"}
    BY DEF OnlyDataBetween
  <2>2. e \in DOMAIN stream /\ seen[e] = stream[e]
    BY <1>3, <2>1
  <2>3. KindAt(stream, <<e, k>>) \in {"data", "continuation"}
    BY <1>5, <2>1, <2>2 DEF OnlyDataBetween
  <2> QED BY <2>2, <2>3 DEF KindAt
<1>6. FrameSent(seen, l, a, b)
  <2>1. PieceOf(stream, l, a) /\ PieceOf(stream, l, b)
    BY DEF FrameSent
  <2>2. /\ PieceOf(seen, l, a) /\ KindAt(seen, a) = KindAt(stream, a)
        /\ PieceOf(seen, l, b) /\ KindAt(seen, b) = KindAt(stream, b)
    BY <1>1, <1>2, <1>4, <2>1
  <2> QED BY <1>5, <2>2 DEF FrameSent
<1>7. ASSUME NEW pieces, Spans(seen, l, pieces, a, b) PROVE Spans(stream, l, pieces, a, b)
  <2>1. PICK last : last = Len(pieces)
    OBVIOUS
  <2>2. /\ last > 0 /\ pieces[1] = a /\ pieces[last] = b
        /\ \A n \in 1..last : PieceOf(seen, l, pieces[n])
        /\ \A n \in 2..last : Precedes(pieces[n - 1], pieces[n])
    BY <1>7, <2>1 DEF Spans
  <2>3. \A n \in 1..last : PieceOf(stream, l, pieces[n])
    BY <1>3, <2>2 DEF PieceOf
  <2>4. ASSUME NEW e \in DOMAIN stream, NEW k \in OffsetsOf(stream[e], l), stream[e].type # "loss",
               Precedes(a, <<e, k>>), Precedes(<<e, k>>, b)
        PROVE  \E n \in 1..last : pieces[n] = <<e, k>>
    <3>1. PICK p : p = <<e, k>>
      OBVIOUS
    <3>2. PieceOf(stream, l, p) /\ p[1] = e /\ p[2] = k
      BY <2>4, <3>1 DEF PieceOf
    <3>3. a[1] <= e /\ e <= b[1]
      <4>1. e \in Nat
        BY <1>1
      <4> QED BY <1>1, <2>4, <4>1 DEF Precedes
    <3>4. PieceOf(seen, l, p)
      BY <1>4, <3>2, <3>3
    <3>5. e \in DOMAIN seen /\ k \in OffsetsOf(seen[e], l) /\ seen[e].type # "loss"
      BY <3>2, <3>4 DEF PieceOf
    <3> QED BY <1>7, <2>1, <2>4, <3>5 DEF Spans
  <2> QED BY <2>1, <2>2, <2>3, <2>4 DEF Spans
<1>8. \A frames : InDocument(seen, frames, l, a, b) => InDocument(stream, frames, l, a, b)
  BY <1>7 DEF InDocument
<1> QED BY <1>6, <1>8

-----------------------------------------------------------------------------
(* The inductive invariant.  Whatever is on its way is an event; a command   *)
(* was stamped with what had been published by then; and while a capture     *)
(* runs, what the worker consumed since it began stands in the document.     *)
Carried ==
  /\ \A i \in 1..Len(taken) : taken[i] \in Events
  /\ \A i \in 1..Len(queue) : queue[i] \in Events
  /\ owed \in [count : Nat, seq : Nat, backend : Backends, group : Lanes]

Stamped ==
  /\ job.published \in 0..sent
  /\ IsSeq(commands)
  /\ \A i \in 1..Len(commands) : commands[i].published \in 0..sent

Captured ==
  /\ session \in Sessions
  /\ held # <<>> => Head(held) = taken[Len(taken)]
  /\ session.receiving =>
       /\ began \in Nat /\ began <= Consumed
       /\ Filed(Renumbered(taken), Through(began, Consumed), session)

LEMMA MarkerEvent == Carried => Marker \in Events
<1> SUFFICES ASSUME Carried PROVE Marker \in Events
  OBVIOUS
<1>1. owed.seq \in Nat /\ owed.backend \in Backends /\ owed.group \in Lanes
  BY DEF Carried
<1>2. Marker \in [type : {"loss"}, seq : Nat, backend : Backends, group : Lanes,
                  affects : BOOLEAN]
  BY <1>1 DEF Marker
<1> QED BY <1>2 DEF Events

LEMMA AddressKnown ==
  ASSUME NEW event \in Published
  PROVE  AddressOf(event).backend \in Backends /\ AddressOf(event).group \in Lanes
BY EventKnown, LanesKnown DEF AddressOf

LEMMA PublishCarried == Placed /\ HeldKnown /\ Carried /\ Publish => Carried'
<1> SUFFICES ASSUME Placed, HeldKnown, Carried, Publish PROVE Carried'
  OBVIOUS
<1> DEFINE event == Stream[sent + 1]
<1>1. sent' = sent + 1 /\ taken' = taken /\ Offer(event) /\ sent < Len(script) /\ sent \in Nat
  BY DEF Publish, workerVars, Placed
<1>2. event \in Published /\ event \in Events /\ event.seq \in Nat
  <2>1. sent + 1 \in DOMAIN Stream /\ sent + 1 \in Nat
    BY <1>1, StreamKnown
  <2>2. event \in Published /\ event.seq = sent + 1
    BY <2>1, StreamKnown DEF IsStream
  <2> QED BY <2>1, <2>2 DEF Published
<1> HIDE DEF event
<1>3. Marker \in Events
  BY MarkerEvent
<1>4. /\ Pushed \in Nat /\ Pushed <= owed.count
      /\ IsSeq(PaidQueue)
      /\ Len(PaidQueue) = Len(queue) + Pushed
  BY PaidPlaced
<1>5. \A i \in 1..Len(PaidQueue) : PaidQueue[i] \in Events
  <2> DEFINE markers == [i \in 1..Pushed |-> Marker]
  <2>1. IsSeq(queue) /\ Len(queue) \in Nat
    BY AppendPlaces DEF Placed
  <2>2. IsSeq(markers) /\ Len(markers) = Pushed /\ \A i \in 1..Pushed : markers[i] = Marker
    BY <1>4, RepeatPlaces
  <2>3. PaidQueue = queue \o markers
    BY DEF PaidQueue
  <2> HIDE DEF markers
  <2>4. /\ \A i \in 1..Len(queue) : PaidQueue[i] = queue[i]
        /\ \A i \in 1..Pushed : PaidQueue[Len(queue) + i] = Marker
    BY <2>1, <2>2, <2>3, ConcatPlaces
  <2> TAKE i \in 1..Len(PaidQueue)
  <2>5. CASE i \in 1..Len(queue)
    BY <2>4, <2>5 DEF Carried
  <2>6. CASE i > Len(queue)
    <3>1. i - Len(queue) \in 1..Pushed /\ i = Len(queue) + (i - Len(queue))
      BY <1>4, <2>1, <2>6
    <3>2. PaidQueue[i] = Marker
      BY <2>4, <3>1
    <3> QED BY <1>3, <3>2
  <2> QED BY <1>4, <2>1, <2>5, <2>6
<1>6. CASE Len(PaidQueue) = Capacity
  <2>1. /\ queue' = PaidQueue
        /\ owed' = [count |-> (owed.count - Pushed) + 1, seq |-> event.seq,
                    backend |-> AddressOf(event).backend, group |-> AddressOf(event).group]
    BY <1>1, <1>6 DEF Offer, RecordDrop
  <2>2. (owed.count - Pushed) + 1 \in Nat
    BY <1>4 DEF Carried
  <2>3. owed' \in [count : Nat, seq : Nat, backend : Backends, group : Lanes]
    BY <1>2, <2>1, <2>2, AddressKnown
  <2> QED BY <1>1, <1>5, <2>1, <2>3 DEF Carried
<1>7. CASE Len(PaidQueue) # Capacity
  <2>1. queue' = Append(PaidQueue, event) /\ owed' = [owed EXCEPT !.count = @ - Pushed]
    BY <1>1, <1>7 DEF Offer
  <2>2. /\ Len(Append(PaidQueue, event)) = Len(PaidQueue) + 1 /\ Len(PaidQueue) \in Nat
        /\ \A i \in 1..Len(PaidQueue) : Append(PaidQueue, event)[i] = PaidQueue[i]
        /\ Append(PaidQueue, event)[Len(PaidQueue) + 1] = event
    BY <1>4, AppendPlaces
  <2>3. \A i \in 1..Len(queue') : queue'[i] \in Events
    <3>1. \A i \in 1..Len(queue') : i \in 1..Len(PaidQueue) \/ i = Len(PaidQueue) + 1
      BY <2>1, <2>2
    <3> QED BY <1>2, <1>5, <2>1, <2>2, <3>1
  <2>4. owed.count - Pushed \in Nat
    BY <1>4 DEF Carried
  <2>5. owed' \in [count : Nat, seq : Nat, backend : Backends, group : Lanes]
    BY <2>1, <2>4 DEF Carried
  <2> QED BY <1>1, <2>3, <2>5 DEF Carried
<1> QED BY <1>6, <1>7

(* What the worker takes is an event, whether it was queued or owed.         *)
LEMMA TakenCarried ==
  ASSUME Placed, Carried, NEW item \in Events, taken' = Append(taken, item)
  PROVE  \A i \in 1..Len(taken') : taken'[i] \in Events
<1>1. /\ Len(taken') = Len(taken) + 1 /\ Len(taken) \in Nat
      /\ \A i \in 1..Len(taken) : taken'[i] = taken[i]
      /\ taken'[Len(taken) + 1] = item
  BY AppendPlaces DEF Placed
<1>2. \A i \in 1..Len(taken') : i \in 1..Len(taken) \/ i = Len(taken) + 1
  BY <1>1
<1> QED BY <1>1, <1>2 DEF Carried

LEMMA TakeEventCarried ==
  Placed /\ Carried /\ TakeEvent => Carried' /\ Head(queue) \in Events
<1> SUFFICES ASSUME Placed, Carried, TakeEvent PROVE Carried' /\ Head(queue) \in Events
  OBVIOUS
<1>1. /\ queue # <<>> /\ taken' = Append(taken, Head(queue)) /\ queue' = Tail(queue)
      /\ owed' = owed
  BY DEF TakeEvent
<1>2. /\ Len(queue) \in Nat \ {0} /\ Len(queue') = Len(queue) - 1 /\ Head(queue) = queue[1]
      /\ \A i \in 1..Len(queue') : queue'[i] = queue[i + 1]
  BY <1>1, TailPlaces DEF Placed
<1>3. Head(queue) \in Events
  <2>1. 1 \in 1..Len(queue)
    BY <1>2
  <2> QED BY <1>2, <2>1 DEF Carried
<1>4. \A i \in 1..Len(queue') : queue'[i] \in Events
  <2> TAKE i \in 1..Len(queue')
  <2>1. i + 1 \in 1..Len(queue)
    BY <1>2
  <2> QED BY <1>2, <2>1 DEF Carried
<1>5. \A i \in 1..Len(taken') : taken'[i] \in Events
  BY <1>1, <1>3, TakenCarried
<1> QED BY <1>1, <1>3, <1>4, <1>5 DEF Carried

LEMMA TakeMarkerCarried == Placed /\ Carried /\ TakeMarker => Carried'
<1> SUFFICES ASSUME Placed, Carried, TakeMarker PROVE Carried'
  OBVIOUS
<1>1. /\ taken' = Append(taken, Marker) /\ queue' = queue
      /\ owed' = [owed EXCEPT !.count = @ - 1] /\ owed.count > 0
  BY DEF TakeMarker
<1>2. \A i \in 1..Len(taken') : taken'[i] \in Events
  BY <1>1, MarkerEvent, TakenCarried
<1>3. owed.count - 1 \in Nat
  BY <1>1 DEF Carried
<1>4. owed' \in [count : Nat, seq : Nat, backend : Backends, group : Lanes]
  BY <1>1, <1>3 DEF Carried
<1> QED BY <1>1, <1>2, <1>4 DEF Carried

LEMMA StepCarried == Placed /\ HeldKnown /\ Carried /\ [Next]_vars => Carried'
<1> SUFFICES ASSUME Placed, HeldKnown, Carried, [Next]_vars PROVE Carried'
  OBVIOUS
<1>1. ASSUME UNCHANGED <<taken, queue, owed>> PROVE Carried'
  BY <1>1 DEF Carried
<1>2. CASE Publish
  BY <1>2, PublishCarried
<1>3. ASSUME NEW name \in Commands, Enqueue(name) PROVE Carried'
  BY <1>1, <1>3 DEF Enqueue, transportVars, workerVars
<1>4. CASE Stop
  BY <1>1, <1>4 DEF Stop, transportVars, workerVars
<1>5. CASE Reconnect
  BY <1>1, <1>5 DEF Reconnect, transportVars, workerVars
<1>6. CASE TakeCommand
  BY <1>1, <1>6 DEF TakeCommand, transportVars
<1>7. CASE TakeEvent
  BY <1>7, TakeEventCarried
<1>8. CASE TakeMarker
  BY <1>8, TakeMarkerCarried
<1>9. CASE Consume
  BY <1>1, <1>9 DEF Consume, transportVars
<1>10. CASE BeginReceiving
  BY <1>1, <1>10 DEF BeginReceiving, Answer, transportVars
<1>11. ASSUME NEW name \in Ending, FinishReceiving(name) PROVE Carried'
  BY <1>1, <1>11 DEF FinishReceiving, Answer, transportVars
<1>12. CASE ClearWorkspace
  BY <1>1, <1>12 DEF ClearWorkspace, Answer, transportVars
<1>13. CASE Exit
  BY <1>1, <1>13 DEF Exit, transportVars
<1>14. CASE UNCHANGED vars
  BY <1>1, <1>14 DEF vars, transportVars, workerVars
<1> QED
  BY <1>2, <1>3, <1>4, <1>5, <1>6, <1>7, <1>8, <1>9, <1>10, <1>11, <1>12, <1>13, <1>14
  DEF Next, Worker

LEMMA StepStamped == Placed /\ Stamped /\ [Next]_vars => Stamped'
<1> SUFFICES ASSUME Placed, Stamped, [Next]_vars PROVE Stamped'
  OBVIOUS
<1>0. sent \in Nat
  BY DEF Placed
<1>1. ASSUME UNCHANGED <<sent, commands, job>> PROVE Stamped'
  BY <1>1 DEF Stamped
<1>2. ASSUME UNCHANGED <<sent, commands>>, job'.published = 0 PROVE Stamped'
  BY <1>0, <1>2 DEF Stamped
<1>3. ASSUME UNCHANGED <<sent, commands>>, Answer PROVE Stamped'
  <2>1. job'.published = 0
    BY <1>3 DEF Answer, Job
  <2> QED BY <1>2, <1>3, <2>1
<1>4. CASE Publish
  <2>1. sent' = sent + 1 /\ UNCHANGED <<commands, job>>
    BY <1>4 DEF Publish, clientVars, workerVars
  <2> QED BY <1>0, <2>1 DEF Stamped
<1>5. ASSUME NEW name \in Commands, Enqueue(name) PROVE Stamped'
  <2> DEFINE stamp == IF name \in Ending THEN sent ELSE 0
             added == Job(name, stamp)
  <2>1. commands' = Append(commands, added) /\ job' = job /\ sent' = sent
    BY <1>5 DEF Enqueue, transportVars, workerVars
  <2>2. added.published \in 0..sent
    <3>1. stamp \in 0..sent
      BY <1>0
    <3> HIDE DEF stamp
    <3> QED BY <3>1 DEF Job
  <2> HIDE DEF added
  <2>3. /\ IsSeq(commands') /\ Len(commands) \in Nat /\ Len(commands') = Len(commands) + 1
        /\ \A i \in 1..Len(commands) : commands'[i] = commands[i]
        /\ commands'[Len(commands) + 1] = added
    BY <2>1, AppendPlaces DEF Stamped
  <2>4. \A i \in 1..Len(commands') : i \in 1..Len(commands) \/ i = Len(commands) + 1
    BY <2>3
  <2>5. \A i \in 1..Len(commands') : commands'[i].published \in 0..sent
    BY <2>2, <2>3, <2>4 DEF Stamped
  <2> QED BY <2>1, <2>3, <2>5 DEF Stamped
<1>6. CASE Stop
  BY <1>1, <1>6 DEF Stop, transportVars, workerVars
<1>7. CASE Reconnect
  BY <1>1, <1>7 DEF Reconnect, transportVars, clientVars, workerVars
<1>8. CASE TakeCommand
  <2>1. commands # <<>> /\ job' = Head(commands) /\ commands' = Tail(commands) /\ sent' = sent
    BY <1>8 DEF TakeCommand, transportVars
  <2>2. /\ IsSeq(commands') /\ Len(commands) \in Nat \ {0} /\ Len(commands') = Len(commands) - 1
        /\ job' = commands[1]
        /\ \A i \in 1..Len(commands') : commands'[i] = commands[i + 1]
    BY <2>1, TailPlaces DEF Stamped
  <2>3. 1 \in 1..Len(commands) /\ \A i \in 1..Len(commands') : i + 1 \in 1..Len(commands)
    BY <2>2
  <2> QED BY <2>1, <2>2, <2>3 DEF Stamped
<1>9. CASE TakeEvent
  BY <1>1, <1>9 DEF TakeEvent, clientVars
<1>10. CASE TakeMarker
  BY <1>1, <1>10 DEF TakeMarker, clientVars
<1>11. CASE Consume
  BY <1>1, <1>11 DEF Consume, transportVars, clientVars
<1>12. CASE BeginReceiving
  BY <1>3, <1>12 DEF BeginReceiving, Answer, transportVars, clientVars
<1>13. ASSUME NEW name \in Ending, FinishReceiving(name) PROVE Stamped'
  BY <1>3, <1>13 DEF FinishReceiving, Answer, transportVars, clientVars
<1>14. CASE ClearWorkspace
  BY <1>3, <1>14 DEF ClearWorkspace, Answer, transportVars, clientVars
<1>15. CASE Exit
  <2>1. UNCHANGED <<sent, commands>> /\ job'.published = 0
    BY <1>15 DEF Exit, Job, transportVars, clientVars
  <2> QED BY <1>2, <2>1
<1>16. CASE UNCHANGED vars
  BY <1>1, <1>16 DEF vars, transportVars, clientVars, workerVars
<1> QED
  BY <1>4, <1>5, <1>6, <1>7, <1>8, <1>9, <1>10, <1>11, <1>12, <1>13, <1>14, <1>15, <1>16
  DEF Next, Worker

(* Taking one more changes nothing for what was consumed before.             *)
LEMMA TakingCaptured ==
  ASSUME Placed, Carried, Captured, held = <<>>, NEW item \in Events, held' = <<item>>,
         taken' = Append(taken, item), session' = session, began' = began
  PROVE  Captured'
<1>1. /\ Len(taken) \in Nat /\ Len(taken') = Len(taken) + 1 /\ taken'[Len(taken')] = item
  BY AppendPlaces DEF Placed
<1>2. held' # <<>> /\ Head(held') = item
  <2>1. <<item>> # <<>> /\ Head(<<item>>) = item
    OBVIOUS
  <2> QED BY <2>1
<1>3. Consumed = Len(taken) /\ Consumed' = Len(taken)
  BY <1>1, <1>2 DEF Consumed
<1>4. SUFFICES ASSUME session.receiving
               PROVE  Filed(Renumbered(taken'), Through(began, Consumed), session)
  BY <1>1, <1>2, <1>3 DEF Captured
<1>5. PICK stream, longer, S : /\ stream = Renumbered(taken) /\ longer = Renumbered(taken')
                               /\ S = Through(began, Consumed)
  OBVIOUS
<1>6. Filed(stream, S, session) /\ began \in Nat
  BY <1>4, <1>5 DEF Captured
<1>7. Prolongs(stream, longer)
  BY <1>5, RenumberedProlongs DEF Placed, Carried
<1>8. Len(stream) = Len(taken)
  BY <1>5, RenumberedStream DEF Placed, Carried
<1>9. \A p \in S : p[1] \in 1..Len(stream)
  <2>1. \A p \in S : p[1] \in Nat /\ began < p[1] /\ p[1] <= Len(taken)
    BY <1>3, <1>5 DEF Through, Place
  <2> QED BY <1>1, <1>6, <1>8, <2>1
<1>10. Filed(longer, S, session)
  BY <1>6, <1>7, <1>9, LongerFiled
<1> QED BY <1>5, <1>10

(* What is consumed now stands in the document too.                          *)
LEMMA ConsumeCaptured ==
  ASSUME Placed, HeldKnown, Carried, Captured, Consume
  PROVE  Captured' /\ (session.receiving => session'.receiving)
<1>1. /\ held # <<>> /\ held' = <<>> /\ taken' = taken /\ began' = began
      /\ session' = ConsumeEvent(session, Head(held))
  BY DEF Consume, Free
<1>2. PICK e, item, s, u, stream :
        /\ e = Len(taken) /\ item = Head(held) /\ s = session /\ u = session'
        /\ stream = Renumbered(taken)
  OBVIOUS
<1>3. e \in Nat /\ e \in 1..Len(taken) /\ item = taken[e] /\ item \in Events
  <2>1. Len(taken) \in Nat /\ Len(taken) > 0
    BY <1>1, AppendPlaces DEF Placed, HeldKnown
  <2>2. e \in Nat /\ e \in 1..Len(taken)
    BY <1>2, <2>1
  <2> QED BY <1>1, <1>2, <2>2 DEF Captured, Carried
<1>4. Consumed = e - 1 /\ Consumed' = e
  BY <1>1, <1>2 DEF Consumed
<1>5. CASE ~session.receiving
  <2>1. session' = session
    BY <1>1, <1>5 DEF ConsumeEvent
  <2> QED BY <1>1, <1>5, <2>1 DEF Captured
<1>6. CASE session.receiving
  <2>1. began \in Nat /\ began < e /\ Filed(stream, Through(began, e - 1), s)
    BY <1>2, <1>3, <1>4, <1>6 DEF Captured
  <2>2. /\ IsStream(stream) /\ e \in DOMAIN stream
        /\ stream[e] = Numbered(item, e)
    <3>1. /\ IsStream(stream) /\ Len(stream) = Len(taken)
          /\ \A i \in 1..Len(taken) : stream[i] = Numbered(taken[i], i)
      BY <1>2, RenumberedStream DEF Placed, Carried
    <3> QED BY <1>3, <3>1 DEF IsStream
  <2>3. /\ stream[e].type = item.type
        /\ item.type = "loss" => Tainted(stream[e]) = Tainted(item)
    BY <1>3, <2>2, NumberedSame
  <2>4. item.type # "loss" => stream[e] = item
    <3>1. StandsFor(item, e, Stream, sent)
      BY <1>3 DEF Placed
    <3>2. ASSUME item = Stream[e] PROVE stream[e] = item
      <4>1. e <= sent /\ sent <= Len(script) /\ sent \in Nat
        BY <1>3, AppendPlaces DEF Placed, HeldKnown
      <4>2. Len(script) \in Nat /\ DOMAIN Stream = 1..Len(script) /\ IsStream(Stream)
        BY StreamKnown
      <4>3. e \in DOMAIN Stream
        BY <1>3, <4>1, <4>2
      <4>4. item.seq = e
        BY <3>2, <4>2, <4>3 DEF IsStream
      <4> QED BY <1>3, <2>2, <4>4, NumberedSame
    <3> QED BY <3>1, <3>2 DEF StandsFor
  <2>5. u = IF item.type = "loss" THEN NotifyLoss(s, Tainted(item)) ELSE ConsumeData(s, item)
    BY <1>1, <1>2, <1>6 DEF ConsumeEvent
  <2>6. u = IF stream[e].type = "loss" THEN NotifyLoss(s, Tainted(stream[e]))
            ELSE ConsumeData(s, stream[e])
    BY <2>3, <2>4, <2>5
  <2>7. Filed(stream, Through(began, e), u) /\ u.receiving = s.receiving
    BY <2>1, <2>2, <2>6, EventFiled
  <2>8. session' \in Sessions /\ session'.receiving
    BY <1>2, <1>6, <2>7 DEF Filed
  <2>9. Filed(Renumbered(taken'), Through(began', Consumed'), session')
    BY <1>1, <1>2, <1>4, <2>7
  <2>10. began' \in Nat /\ began' <= Consumed'
    BY <1>1, <1>3, <1>4, <2>1
  <2> QED BY <1>1, <2>8, <2>9, <2>10 DEF Captured
<1> QED BY <1>5, <1>6

(* A capture begins with nothing behind it.                                  *)
LEMMA BeginCaptured ==
  ASSUME Placed, Captured, BeginReceiving
  PROVE  Captured' /\ (session.receiving => session'.receiving)
<1>1. /\ held = <<>> /\ held' = <<>> /\ taken' = taken
      /\ session' = IF ready THEN BeginReceive(session) ELSE session
      /\ began' = IF ready /\ ~session.receiving THEN Len(taken) ELSE began
  BY DEF BeginReceiving, Drained, Free, Answer
<1>2. Consumed = Len(taken) /\ Consumed' = Len(taken) /\ Len(taken) \in Nat
  BY <1>1, AppendPlaces DEF Consumed, Placed
<1>3. CASE ~ready \/ session.receiving
  <2>1. session' = session /\ began' = began
    BY <1>1, <1>3 DEF BeginReceive
  <2> QED BY <1>1, <1>2, <2>1 DEF Captured
<1>4. CASE ready /\ ~session.receiving
  <2>1. session' = [NewSession EXCEPT !.receiving = TRUE] /\ began' = Len(taken)
    BY <1>1, <1>4 DEF BeginReceive
  <2>2. PICK u, stream, S : /\ u = session' /\ stream = Renumbered(taken)
                            /\ S = Through(Len(taken), Len(taken))
    OBVIOUS
  <2>3. S = {}
    BY <1>2, <2>2, NothingThrough
  <2>4. /\ u \in Sessions /\ u.frames = <<>>
        /\ \A l \in Lanes : u.lanes[l] = Idle
    BY <2>1, <2>2, AsNew DEF Sessions
  <2>5. Filed(stream, S, u)
    BY <2>3, <2>4, IdleEmpty, NothingFiled
  <2>6. began' = Len(taken) /\ Consumed' = Len(taken) /\ taken' = taken
    BY <1>1, <1>2, <2>1
  <2>7. Filed(Renumbered(taken'), Through(began', Consumed'), session')
    BY <2>2, <2>5, <2>6
  <2>8. session' \in Sessions /\ began' \in Nat /\ began' <= Consumed'
    BY <1>2, <2>2, <2>4, <2>6
  <2>9. Captured'
    BY <1>1, <2>7, <2>8 DEF Captured
  <2> QED BY <1>4, <2>9
<1> QED BY <1>3, <1>4

LEMMA InitCaptured == Init => Carried /\ Stamped /\ Captured
<1> SUFFICES ASSUME Init PROVE Carried /\ Stamped /\ Captured
  OBVIOUS
<1>1. /\ taken = <<>> /\ queue = <<>> /\ sent = 0 /\ commands = <<>> /\ held = <<>>
      /\ owed = [count |-> 0, seq |-> 0, backend |-> "winmm", group |-> Midi1]
      /\ session = NewSession
  BY DEF Init
<1>2. job.published = 0
  BY DEF Init, Job
<1>3. Len(taken) = 0 /\ Len(queue) = 0 /\ Len(commands) = 0 /\ IsSeq(commands)
  BY <1>1 DEF IsSeq
<1>4. owed \in [count : Nat, seq : Nat, backend : Backends, group : Lanes]
  BY <1>1, LanesKnown DEF Backends
<1>5. session \in Sessions /\ ~session.receiving
  BY <1>1, AsNew
<1>6. Carried
  BY <1>3, <1>4 DEF Carried
<1>7. Stamped
  BY <1>1, <1>2, <1>3 DEF Stamped
<1>8. Captured
  BY <1>1, <1>5 DEF Captured
<1> QED BY <1>6, <1>7, <1>8

LEMMA FinishedCaptured ==
  ASSUME Captured, UNCHANGED <<held, taken, began>>, session' = FinishReceive(session)
  PROVE  Captured'
<1>1. Consumed' = Consumed
  BY DEF Consumed
<1>2. CASE session.receiving
  <2>1. PICK s, u, stream, S : /\ s = session /\ u = session' /\ stream = Renumbered(taken)
                               /\ S = Through(began, Consumed)
    OBVIOUS
  <2>2. Filed(stream, S, s)
    BY <1>2, <2>1 DEF Captured
  <2>3. Stored(stream, S, s) /\ s.receiving /\ u = FinishReceive(s)
    BY <1>2, <2>1, <2>2, FiledStored
  <2>4. Stored(stream, S, u) /\ ~u.receiving
    BY <2>3, FinishStored
  <2>5. session' \in Sessions /\ ~session'.receiving
    BY <2>1, <2>4 DEF Stored
  <2> QED BY <2>5 DEF Captured
<1>3. CASE ~session.receiving
  <2>1. session' = session
    BY <1>3 DEF FinishReceive
  <2> QED BY <1>3, <2>1 DEF Captured
<1> QED BY <1>2, <1>3

LEMMA ClearedCaptured ==
  ASSUME Captured, UNCHANGED <<held, taken, began>>, session' = ClearDocument(session)
  PROVE  Captured' /\ (session.receiving => session'.receiving)
<1>1. Consumed' = Consumed
  BY DEF Consumed
<1>2. CASE session.receiving
  <2>1. session' = session
    BY <1>2 DEF ClearDocument
  <2> QED BY <1>1, <2>1 DEF Captured
<1>3. CASE ~session.receiving
  <2>1. session' = [session EXCEPT !.frames = <<>>] /\ session \in Sessions /\ <<>> \in Seq(Frame)
    BY <1>3 DEF ClearDocument, Captured
  <2>2. session' \in Sessions /\ session'.receiving = session.receiving
    BY <2>1 DEF Sessions
  <2>3. ~session'.receiving
    BY <1>3, <2>2
  <2> QED BY <1>3, <2>2, <2>3 DEF Captured
<1> QED BY <1>2, <1>3

(* A step keeps the invariant, and only the end of a command, or of the      *)
(* worker, ends a capture.                                                   *)
Known == Placed /\ Whole /\ Carried /\ Stamped /\ Captured

EndsIt == \/ \E name \in Ending : FinishReceiving(name)
          \/ Exit

LEMMA StepCaptured ==
  ASSUME Known, [Next]_vars
  PROVE  Captured' /\ (session.receiving => session'.receiving \/ EndsIt)
<1>0. Placed /\ HeldKnown /\ Carried /\ Captured
  BY DEF Known, Whole
<1> DEFINE Goal == Captured' /\ (session.receiving => session'.receiving \/ EndsIt)
<1>1. ASSUME UNCHANGED <<held, taken, session, began>> PROVE Goal
  <2>1. Consumed' = Consumed
    BY <1>1 DEF Consumed
  <2> QED BY <1>0, <1>1, <2>1 DEF Captured
<1>2. CASE Publish
  BY <1>1, <1>2 DEF Publish, workerVars
<1>3. ASSUME NEW name \in Commands, Enqueue(name) PROVE Goal
  BY <1>1, <1>3 DEF Enqueue, workerVars
<1>4. CASE Stop
  BY <1>1, <1>4 DEF Stop, workerVars
<1>5. CASE Reconnect
  BY <1>1, <1>5 DEF Reconnect, workerVars
<1>6. CASE TakeCommand
  BY <1>1, <1>6 DEF TakeCommand
<1>7. CASE TakeEvent
  <2>1. /\ held = <<>> /\ held' = <<Head(queue)>> /\ taken' = Append(taken, Head(queue))
        /\ session' = session /\ began' = began
    BY <1>7 DEF TakeEvent, MayTakeEvent, Free
  <2>2. Head(queue) \in Events
    BY <1>0, <1>7, TakeEventCarried
  <2>3. Captured'
    BY <1>0, <2>1, <2>2, TakingCaptured
  <2> QED BY <2>1, <2>3
<1>8. CASE TakeMarker
  <2>1. /\ held = <<>> /\ held' = <<Marker>> /\ taken' = Append(taken, Marker)
        /\ session' = session /\ began' = began
    BY <1>8 DEF TakeMarker, MayTakeEvent, Free
  <2>2. Marker \in Events
    BY <1>0, MarkerEvent
  <2>3. Captured'
    BY <1>0, <2>1, <2>2, TakingCaptured
  <2> QED BY <2>1, <2>3
<1>9. CASE Consume
  BY <1>0, <1>9, ConsumeCaptured
<1>10. CASE BeginReceiving
  BY <1>0, <1>10, BeginCaptured
<1>11. ASSUME NEW name \in Ending, FinishReceiving(name) PROVE Goal
  <2>1. UNCHANGED <<held, taken, began>> /\ session' = FinishReceive(session)
    BY <1>11 DEF FinishReceiving, Answer
  <2>2. Captured'
    BY <1>0, <2>1, FinishedCaptured
  <2>3. EndsIt
    BY <1>11 DEF EndsIt
  <2> QED BY <2>2, <2>3
<1>12. CASE ClearWorkspace
  <2>1. UNCHANGED <<held, taken, began>> /\ session' = ClearDocument(session)
    BY <1>12 DEF ClearWorkspace, Answer
  <2>2. Captured' /\ (session.receiving => session'.receiving)
    BY <1>0, <2>1, ClearedCaptured
  <2> QED BY <2>2
<1>13. CASE Exit
  <2>1. UNCHANGED <<held, taken, began>> /\ session' = FinishReceive(session)
    BY <1>13 DEF Exit
  <2>2. Captured'
    BY <1>0, <2>1, FinishedCaptured
  <2>3. EndsIt
    BY <1>13 DEF EndsIt
  <2> QED BY <2>2, <2>3
<1>14. CASE UNCHANGED vars
  BY <1>1, <1>14 DEF vars, workerVars
<1> QED
  BY <1>2, <1>3, <1>4, <1>5, <1>6, <1>7, <1>8, <1>9, <1>10, <1>11, <1>12, <1>13, <1>14
  DEF Next, Worker

(* What is in the document when a command ends the capture: by then all that *)
(* was published before it has been consumed.                                *)
LEMMA FinishKeeps ==
  ASSUME Known, NEW name \in Ending, FinishReceiving(name), session.receiving,
         NEW l \in Lanes, NEW d \in (began + 1)..job.published, NEW e \in (began + 1)..job.published,
         NEW j \in OffsetsOf(Stream[d], l), NEW k \in OffsetsOf(Stream[e], l),
         NEW a, a = <<d, j>>, NEW b, b = <<e, k>>,
         FrameSent(Stream, l, a, b), NothingDropped(l, a, b)
  PROVE  InDocument(Stream, session'.frames, l, a, b)
<1>1. PICK stream, seen, S, s, u :
        /\ stream = Stream /\ seen = Renumbered(taken) /\ S = Through(began, Len(taken))
        /\ s = session /\ u = session'
  OBVIOUS
<1>2. held = <<>> /\ queue = <<>> /\ owed.count = 0 /\ u = FinishReceive(s) /\ s.receiving
  BY <1>1 DEF FinishReceiving, Drained, Free
<1>3. Placed /\ HeldKnown /\ Carried /\ Stamped /\ Captured
  BY DEF Known, Whole
<1>4. Len(taken) = sent /\ sent \in Nat /\ sent <= Len(script) /\ Consumed = Len(taken)
  <2>1. Len(queue) = 0 /\ Len(taken) \in Nat
    BY <1>2, <1>3, AppendPlaces DEF Placed
  <2> QED BY <1>2, <1>3, <2>1 DEF Placed, HeldKnown, Consumed
<1>5. /\ IsStream(seen) /\ Len(seen) = Len(taken)
      /\ \A i \in 1..Len(taken) : seen[i] = Numbered(taken[i], i)
  BY <1>1, <1>3, RenumberedStream DEF Placed, Carried
<1>6. /\ IsStream(stream) /\ DOMAIN stream = 1..Len(script) /\ Len(script) \in Nat
      /\ Len(stream) = Len(script)
  <2>1. IsStream(stream) /\ DOMAIN stream = 1..Len(script) /\ Len(script) \in Nat
    BY <1>1, <1>3, StreamKnown
  <2> QED BY <2>1 DEF IsStream
<1>7. ASSUME NEW i \in 1..Len(taken), taken[i] = stream[i] PROVE seen[i] = stream[i]
  <2>1. i \in DOMAIN stream /\ i \in Nat
    BY <1>4, <1>6
  <2>2. taken[i] \in Events /\ taken[i].seq = i
    BY <1>3, <1>6, <1>7, <2>1 DEF Carried, IsStream
  <2> QED BY <1>5, <1>7, <2>1, <2>2, NumberedSame
<1>8. \A i \in 1..Len(seen) : seen[i] = stream[i] \/ seen[i].type = "loss"
  <2> SUFFICES ASSUME NEW i \in 1..Len(taken) PROVE seen[i] = stream[i] \/ seen[i].type = "loss"
    BY <1>5
  <2>1. StandsFor(taken[i], i, Stream, sent) /\ taken[i] \in Events /\ i \in Nat
    BY <1>3, <1>4 DEF Placed, Carried
  <2>2. seen[i].type = taken[i].type
    BY <1>5, <2>1, NumberedSame
  <2> QED BY <1>1, <1>7, <2>1, <2>2 DEF StandsFor
<1>9. /\ began \in Nat /\ Stored(seen, S, u)
  <2>1. Filed(seen, S, s) /\ began \in Nat
    BY <1>1, <1>2, <1>3, <1>4 DEF Captured
  <2>2. Stored(seen, S, s)
    BY <2>1, FiledStored
  <2> QED BY <1>2, <2>1, <2>2, FinishStored
<1>10. /\ d \in Nat /\ e \in Nat /\ began < d /\ d <= Len(taken) /\ began < e /\ e <= Len(taken)
       /\ j \in Nat /\ k \in Nat
  <2>1. job.published \in 0..sent
    BY <1>3 DEF Stamped
  <2>2. /\ d \in Nat /\ e \in Nat /\ began < d /\ d <= Len(taken) /\ began < e /\ e <= Len(taken)
    BY <1>4, <1>9, <2>1
  <2>3. d \in DOMAIN stream /\ e \in DOMAIN stream
    BY <1>4, <1>6, <1>9, <2>2
  <2>4. stream[d] \in Events /\ stream[e] \in Events
    BY <1>6, <2>3 DEF IsStream
  <2> QED BY <1>1, <1>6, <2>2, <2>3, <2>4, OffsetsAreNumbers
<1>11. a \in Place /\ b \in Place /\ a[1] = d /\ b[1] = e
  BY <1>10 DEF Place
<1>12. a \in S /\ b \in S /\ S \subseteq Place
  BY <1>1, <1>10, <1>11 DEF Through
<1>13. ASSUME NEW p \in Place, Precedes(a, p), Precedes(p, b) PROVE p \in S
  <2>1. p[1] \in Nat
    BY DEF Place
  <2>2. began < p[1] /\ p[1] <= Len(taken)
    BY <1>4, <1>9, <1>10, <1>11, <1>13, <2>1 DEF Precedes
  <2> QED BY <1>1, <2>2 DEF Through
<1>14. ASSUME NEW i \in a[1]..b[1], stream[i].type # "loss", OffsetsOf(stream[i], l) # {}
       PROVE  seen[i] = stream[i]
  <2>1. i \in 1..Len(taken)
    BY <1>4, <1>9, <1>10, <1>11
  <2>2. i \notin DOMAIN taken \/ taken[i] = stream[i]
    BY <1>1, <1>14 DEF NothingDropped
  <2>3. DOMAIN taken = 1..Len(taken)
    BY <1>3 DEF Placed, IsSeq
  <2> QED BY <1>7, <2>1, <2>2, <2>3
<1>15. /\ FrameSent(seen, l, a, b)
       /\ \A frames : InDocument(seen, frames, l, a, b) => InDocument(stream, frames, l, a, b)
  <2>1. Len(seen) <= Len(stream) /\ b[1] <= Len(seen) /\ FrameSent(stream, l, a, b)
    BY <1>1, <1>4, <1>5, <1>6, <1>10, <1>11
  <2> QED BY <1>5, <1>6, <1>8, <1>11, <1>14, <2>1, SameFrame
<1>16. InDocument(seen, u.frames, l, a, b)
  BY <1>5, <1>9, <1>12, <1>13, <1>15, SpanFound
<1> QED BY <1>1, <1>15, <1>16

LEMMA StepKnown == Known /\ [Next]_vars => Known'
<1> SUFFICES ASSUME Known, [Next]_vars PROVE Known'
  OBVIOUS
<1>1. Placed /\ Whole /\ HeldKnown /\ Carried /\ Stamped
  BY DEF Known, Whole
<1>2. Placed' /\ Whole'
  BY <1>1, StepPlaced, StepWhole
<1>3. Carried' /\ Stamped' /\ Captured'
  BY <1>1, StepCarried, StepStamped, StepCaptured
<1> QED BY <1>2, <1>3 DEF Known

(* Pressing Stop loses nothing that came before: whatever the queue dropped  *)
(* and however late the worker comes to the command, a frame that had been   *)
(* published whole by then, and of which no piece was dropped, is in the     *)
(* document.                                                                 *)
THEOREM StopKeepsFrames == Spec => StopKeepsEarlierFrames
<1>1. Init => Known
  BY InitPlaced, InitWhole, InitCaptured DEF Known
<1>2. Known /\ [Next]_vars => Known'
  BY StepKnown
<1> DEFINE Goal == \A l \in Lanes : \A d, e \in (began + 1)..job.published :
                     \A j \in OffsetsOf(Stream[d], l), k \in OffsetsOf(Stream[e], l) :
                       LET a == <<d, j>>
                           b == <<e, k>>
                       IN FrameSent(Stream, l, a, b) /\ NothingDropped(l, a, b) =>
                            InDocument(Stream, session'.frames, l, a, b)
<1>3. Known /\ [Next]_vars => [EndsCapture /\ job.name # "run" => Goal]_vars
  <2> SUFFICES ASSUME Known, [Next]_vars, EndsCapture, job.name # "run" PROVE Goal
    OBVIOUS
  <2>1. session.receiving /\ ~session'.receiving
    BY DEF EndsCapture
  <2>2. PICK name \in Ending : FinishReceiving(name)
    BY <2>1, StepCaptured DEF EndsIt, Exit
  <2> QED BY <2>1, <2>2, FinishKeeps
<1> QED BY <1>1, <1>2, <1>3, PTL DEF Spec, StopKeepsEarlierFrames

=============================================================================
