---------------------------- MODULE MonitorProofs ----------------------------
(***************************************************************************)
(* For any capacity, batch and history limits, and any messages in any     *)
(* order: every message is accounted for once, the history is a gapless    *)
(* end of what was displayed, and a SysEx in pieces is recognised.         *)
(*                                                                         *)
(* The first two need to know that numbers grow along the queue, and that  *)
(* what is queued came after all the model has seen (Line, Shown); the     *)
(* history moreover that each row stands where its number stands from the  *)
(* end of what was given (History).  A piece is recognised because what is *)
(* queued between it and its start keeps the SysEx open (Pieces).          *)
(***************************************************************************)
EXTENDS Monitor, SequenceTheorems, FiniteSetTheorems, WellFoundedInduction, TLAPS

-----------------------------------------------------------------------------
(* Sequences, whatever they hold. *)

AnySeq(s) == \E S : s \in Seq(S)

(* A part of a sequence, place by place. *)
LEMMA PartOf ==
  ASSUME NEW s, AnySeq(s), NEW a \in Nat \ {0}, NEW b \in Nat, a <= b + 1, b <= Len(s)
  PROVE  /\ AnySeq(SubSeq(s, a, b))
         /\ Len(SubSeq(s, a, b)) = b - a + 1
         /\ \A i \in 1..(b - a + 1) : SubSeq(s, a, b)[i] = s[a + i - 1]
<1>1. PICK S : s \in Seq(S)
  BY DEF AnySeq
<1>2. \A i \in a..b : s[i] \in S
  BY <1>1
<1>3. /\ SubSeq(s, a, b) \in Seq(S)
      /\ Len(SubSeq(s, a, b)) = IF a <= b THEN b - a + 1 ELSE 0
      /\ \A i \in 1..(b - a + 1) : SubSeq(s, a, b)[i] = s[a + i - 1]
  BY <1>2, SubSeqProperties
<1> QED BY <1>3 DEF AnySeq

(* Its last n places. *)
LEMMA EndOf ==
  ASSUME NEW s, AnySeq(s), NEW n \in Nat, n <= Len(s)
  PROVE  /\ AnySeq(Last(s, n))
         /\ Len(Last(s, n)) = n
         /\ \A i \in 1..n : Last(s, n)[i] = s[Len(s) - n + i]
<1>1. Len(s) \in Nat
  BY DEF AnySeq
<1> DEFINE a == Len(s) - n + 1
<1>2. a \in Nat \ {0} /\ a <= Len(s) + 1 /\ Len(s) - a + 1 = n
  BY <1>1
<1>3. \A i \in 1..n : a + i - 1 = Len(s) - n + i
  BY <1>1
<1> QED BY <1>1, <1>2, <1>3, PartOf DEF Last

(* One sequence after the other. *)
LEMMA Chained ==
  ASSUME NEW s, AnySeq(s), NEW t, AnySeq(t)
  PROVE  /\ AnySeq(s \o t)
         /\ Len(s) \in Nat /\ Len(t) \in Nat
         /\ Len(s \o t) = Len(s) + Len(t)
         /\ \A i \in 1..(Len(s) + Len(t)) :
              (s \o t)[i] = IF i <= Len(s) THEN s[i] ELSE t[i - Len(s)]
<1>1. PICK S : s \in Seq(S)
  BY DEF AnySeq
<1>2. PICK T : t \in Seq(T)
  BY DEF AnySeq
<1> DEFINE U == S \cup T
<1>3. s \in Seq(U) /\ t \in Seq(U)
  BY <1>1, <1>2, SeqMonotonic
<1> HIDE DEF U
<1>4. Len(s) \in Nat /\ Len(t) \in Nat
  BY <1>3
<1> QED BY <1>3, <1>4, ConcatProperties DEF AnySeq

(* Some n values, given by place. *)
LEMMA ByPlace ==
  ASSUME NEW n \in Nat, NEW f, f = [i \in 1..n |-> f[i]]
  PROVE  AnySeq(f) /\ Len(f) = n
<1> DEFINE S == {f[i] : i \in 1..n}
<1>1. f \in [1..n -> S]
  OBVIOUS
<1>2. f \in Seq(S)
  BY <1>1, SeqDef
<1>3. Len(f) = n
  BY <1>1, <1>2, LenProperties
<1> QED BY <1>2, <1>3 DEF AnySeq

(* One more at the end. *)
LEMMA OneMore ==
  ASSUME NEW s, AnySeq(s), NEW x
  PROVE  /\ AnySeq(Append(s, x))
         /\ Len(s) \in Nat /\ Len(Append(s, x)) = Len(s) + 1
         /\ \A i \in 1..(Len(s) + 1) : Append(s, x)[i] = IF i <= Len(s) THEN s[i] ELSE x
<1>1. PICK S : s \in Seq(S)
  BY DEF AnySeq
<1> DEFINE T == S \cup {x}
<1>2. s \in Seq(T) /\ x \in T
  BY <1>1, SeqMonotonic
<1> HIDE DEF T
<1>3. Append(s, x) \in Seq(T) /\ Len(s) \in Nat /\ Len(Append(s, x)) = Len(s) + 1
  BY <1>2
<1>4. \A i \in 1..(Len(s) + 1) : Append(s, x)[i] = IF i <= Len(s) THEN s[i] ELSE x
  BY <1>2
<1> QED BY <1>3, <1>4 DEF AnySeq

-----------------------------------------------------------------------------
(* The invariant. *)

Growing(events) == \A i, j \in 1..Len(events) : i < j => events[i].number < events[j].number

(* What is queued, in order. *)
Line ==
  /\ arrived \in Nat
  /\ AnySeq(queue)
  /\ \A i \in 1..Len(queue) : queue[i].number \in 1..arrived
  /\ Growing(queue)

(* What was counted. *)
Counts ==
  /\ stats \in [Counters -> Nat]
  /\ Len(queue) \in 0..Capacity
  /\ arrived = stats["accepted"] + stats["dropped"] + stats["rejected"]
  /\ stats["accepted"] = stats["displayed"] + stats["pausedAway"] + stats["closedAway"]
                           + Len(queue)

(* What the model has seen came before what is queued. *)
Shown ==
  /\ IsFiniteSet(seen)
  /\ stats["displayed"] = Cardinality(seen)
  /\ seen \subseteq 1..arrived
  /\ \A n \in seen : \A i \in 1..Len(queue) : n < queue[i].number

(* Each row stands where its number stands. *)
History ==
  /\ limit \in Nat \ {0}
  /\ AnySeq(rows) /\ AnySeq(given) /\ AnySeq(categories)
  /\ Len(rows) <= limit /\ Len(rows) <= Len(given) /\ Len(categories) = Len(rows)
  /\ \A i \in 1..Len(rows) : rows[i].number = given[Len(given) - Len(rows) + i]
  /\ \A i \in 1..Len(given) : given[i] \in seen
  /\ \A i, j \in 1..Len(given) : i < j => given[i] < given[j]
  /\ \A i \in 1..Len(rows) :
       ~IsData(rows[i].message) => categories[i] = EventCategory(rows[i].message)

IInv == Line /\ Counts /\ Shown /\ History

(* Nothing has arrived, nothing is shown. *)
LEMMA InitIInv == Init => IInv
<1> SUFFICES ASSUME Init PROVE IInv
  OBVIOUS
<1>1. AnySeq(<<>>) /\ Len(<<>>) = 0
  BY EmptySeq DEF AnySeq
<1>2. limit \in Nat \ {0}
  BY MonitorAssumption DEF Init
<1>3. Line
  BY <1>1 DEF Init, Line, Growing
<1>6. Counts
  BY <1>1, MonitorAssumption DEF Init, Counts, Counters
<1>4. Shown
  BY <1>1, FS_EmptySet DEF Init, Shown, Counters
<1>5. History
  BY <1>1, <1>2 DEF Init, History
<1> QED BY <1>3, <1>4, <1>5, <1>6 DEF IInv

-----------------------------------------------------------------------------
(* The transport's thread. *)

(* One counter moves, the others stay. *)
LEMMA Counted ==
  ASSUME stats \in [Counters -> Nat], NEW name \in Counters, NEW n \in Nat, Count(name, n)
  PROVE  /\ stats' \in [Counters -> Nat]
         /\ stats'[name] = stats[name] + n
         /\ \A c \in Counters \ {name} : stats'[c] = stats[c]
<1>1. stats' = [stats EXCEPT ![name] = @ + n]
  BY DEF Count
<1> QED BY <1>1

(* What all counters hold, and their sums. *)
LEMMA Sums ==
  ASSUME Line, Counts
  PROVE  /\ arrived \in Nat /\ Capacity \in Nat /\ Len(queue) \in 0..Capacity
         /\ stats \in [Counters -> Nat]
         /\ \A c \in Counters : stats[c] \in Nat
         /\ arrived = stats["accepted"] + stats["dropped"] + stats["rejected"]
         /\ stats["accepted"] = stats["displayed"] + stats["pausedAway"] + stats["closedAway"]
                                  + Len(queue)
BY MonitorAssumption DEF Line, Counts

(* A message is counted once, and queued after all others.                   *)
LEMMA TransportCounts ==
  ASSUME Line, Counts, NEW event, Push(event), arrived' = arrived + 1
  PROVE  Counts' /\ stats'["displayed"] = stats["displayed"]
<1> DEFINE a == stats["accepted"]
           d == stats["dropped"]
           r == stats["rejected"]
           s == stats["displayed"]
           p == stats["pausedAway"]
           c == stats["closedAway"]
<1>1. /\ a \in Nat /\ d \in Nat /\ r \in Nat /\ s \in Nat /\ p \in Nat /\ c \in Nat
      /\ arrived = a + d + r /\ a = s + p + c + Len(queue)
      /\ Len(queue) \in Nat /\ Capacity \in Nat /\ Len(queue) <= Capacity
      /\ stats \in [Counters -> Nat]
  BY Sums DEF Counters
<1>2. \A name \in Counters : Count(name, 1) =>
        /\ stats' \in [Counters -> Nat]
        /\ stats'[name] = stats[name] + 1
        /\ \A other \in Counters \ {name} : stats'[other] = stats[other]
  BY <1>1, Counted
<1>3. ASSUME Count("rejected", 1), queue' = queue
      PROVE  Counts' /\ stats'["displayed"] = stats["displayed"]
  <2>1. /\ stats' \in [Counters -> Nat] /\ stats'["rejected"] = r + 1
        /\ a' = a /\ d' = d /\ s' = s /\ p' = p /\ c' = c
    BY <1>2, <1>3 DEF Counters
  <2> HIDE DEF a, d, r, s, p, c
  <2>2. arrived' = a' + d' + (r + 1) /\ a' = s' + p' + c' + Len(queue') /\ Len(queue') \in 0..Capacity
    BY <1>1, <1>3, <2>1
  <2> QED BY <2>1, <2>2 DEF Counts, a, d, r, s, p, c
<1>4. ASSUME Count("dropped", 1), queue' = queue
      PROVE  Counts' /\ stats'["displayed"] = stats["displayed"]
  <2>1. /\ stats' \in [Counters -> Nat] /\ stats'["dropped"] = d + 1
        /\ a' = a /\ r' = r /\ s' = s /\ p' = p /\ c' = c
    BY <1>2, <1>4 DEF Counters
  <2> HIDE DEF a, d, r, s, p, c
  <2>2. arrived' = a' + (d + 1) + r' /\ a' = s' + p' + c' + Len(queue') /\ Len(queue') \in 0..Capacity
    BY <1>1, <1>4, <2>1
  <2> QED BY <2>1, <2>2 DEF Counts, a, d, r, s, p, c
<1>5. ASSUME Count("accepted", 1), queue' = Append(queue, event), Len(queue) # Capacity
      PROVE  Counts' /\ stats'["displayed"] = stats["displayed"]
  <2>1. /\ stats' \in [Counters -> Nat] /\ stats'["accepted"] = a + 1
        /\ d' = d /\ r' = r /\ s' = s /\ p' = p /\ c' = c
    BY <1>2, <1>5 DEF Counters
  <2>2. Len(queue') = Len(queue) + 1
    BY <1>5, OneMore DEF Line
  <2> HIDE DEF a, d, r, s, p, c
  <2>3. /\ arrived' = (a + 1) + d' + r' /\ a + 1 = s' + p' + c' + Len(queue')
        /\ Len(queue') \in 0..Capacity
    BY <1>1, <1>5, <2>1, <2>2
  <2> QED BY <2>1, <2>3 DEF Counts, a, d, r, s, p, c
<1> QED BY <1>3, <1>4, <1>5 DEF Push, queueVars

(* Its number is above all numbers before it.                                *)
LEMMA TransportKeeps ==
  ASSUME IInv, Transport
  PROVE  IInv'
<1>1. PICK message, begun : Arrive(message, begun)
  BY DEF Transport, ArriveStart, ArriveMessage, ArrivePiece
<1> DEFINE event == [number |-> arrived + 1, message |-> message, begun |-> begun]
<1>2. /\ arrived' = arrived + 1
      /\ Push(event)
      /\ UNCHANGED <<rows, categories, limit, open, given, seen>>
  BY <1>1 DEF Arrive, modelVars
<1>3. event.number = arrived + 1
  OBVIOUS
<1> HIDE DEF event
<1>4. /\ arrived \in Nat /\ Len(queue) \in Nat
      /\ \A i \in 1..Len(queue) : queue[i].number \in 1..arrived
      /\ \A i, j \in 1..Len(queue) : i < j => queue[i].number < queue[j].number
      /\ \A n \in seen : n \in 1..arrived /\ \A i \in 1..Len(queue) : n < queue[i].number
  BY DEF IInv, Line, Counts, Shown, Growing
<1>5. Counts' /\ stats'["displayed"] = stats["displayed"]
  BY <1>2, TransportCounts DEF IInv
<1>6. CASE queue' = queue
  <2>1. Line'
    BY <1>2, <1>4, <1>6 DEF IInv, Line, Growing, AnySeq
  <2>2. \A n \in seen : \A i \in 1..Len(queue') : n < queue'[i].number
    BY <1>4, <1>6
  <2>3. Shown'
    BY <1>2, <1>4, <1>5, <2>2 DEF IInv, Shown
  <2>4. History'
    BY <1>2 DEF IInv, History, AnySeq
  <2> QED BY <1>5, <2>1, <2>3, <2>4 DEF IInv
<1>7. CASE queue' = Append(queue, event)
  <2>1. /\ AnySeq(queue') /\ Len(queue') = Len(queue) + 1
        /\ \A i \in 1..(Len(queue) + 1) : queue'[i] = IF i <= Len(queue) THEN queue[i] ELSE event
    BY <1>7, OneMore DEF IInv, Line
  <2>2. \A i \in 1..Len(queue) : queue'[i] = queue[i]
    BY <1>4, <2>1
  <2>3. queue'[Len(queue) + 1].number = arrived + 1
    BY <1>3, <1>4, <2>1
  <2>4. \A i \in 1..Len(queue') : i \in 1..Len(queue) \/ i = Len(queue) + 1
    BY <1>4, <2>1
  <2>5. \A i \in 1..Len(queue') : queue'[i].number \in 1..(arrived + 1)
    BY <1>4, <2>2, <2>3, <2>4
  <2>6. \A i, j \in 1..Len(queue') : i < j => queue'[i].number < queue'[j].number
    <3> SUFFICES ASSUME NEW i \in 1..Len(queue'), NEW j \in 1..Len(queue'), i < j
                 PROVE  queue'[i].number < queue'[j].number
      OBVIOUS
    <3>1. i \in 1..Len(queue)
      BY <1>4, <2>1
    <3>2. CASE j \in 1..Len(queue)
      BY <1>4, <2>2, <3>1, <3>2
    <3>3. CASE j = Len(queue) + 1
      <4>1. queue'[i].number \in 1..arrived
        BY <1>4, <2>2, <3>1
      <4> QED BY <1>4, <2>3, <3>3, <4>1
    <3> QED BY <2>4, <3>2, <3>3
  <2>7. \A n \in seen : \A i \in 1..Len(queue') : n < queue'[i].number
    <3> SUFFICES ASSUME NEW n \in seen, NEW i \in 1..Len(queue') PROVE n < queue'[i].number
      OBVIOUS
    <3>1. CASE i \in 1..Len(queue)
      BY <1>4, <2>2, <3>1
    <3>2. CASE i = Len(queue) + 1
      BY <1>4, <2>3, <3>2
    <3> QED BY <2>4, <3>1, <3>2
  <2>8. arrived' \in Nat /\ seen' \subseteq 1..arrived'
    BY <1>2, <1>4
  <2>9. Line'
    BY <1>2, <2>1, <2>5, <2>6, <2>8 DEF Line, Growing, AnySeq
  <2>10. Shown'
    BY <1>2, <1>5, <2>7, <2>8 DEF IInv, Shown
  <2> QED BY <1>2, <1>5, <2>9, <2>10 DEF IInv, History, AnySeq
<1> QED BY <1>2, <1>6, <1>7 DEF Push, queueVars

-----------------------------------------------------------------------------
(* The GUI thread. *)

(* A message that is not a data byte has its own category.                   *)
LEMMA OwnCategory ==
  ASSUME NEW m, NEW o, ~IsData(m)
  PROVE  Classified(m, o).category = EventCategory(m)
<1>1. CASE m.form = "midi1" /\ m.first \in {240, 247}
  <2>1. EventCategory(m) = "sysex"
    BY <1>1 DEF EventCategory, SystemCategory
  <2>2. Classified(m, o).category = "sysex"
    BY <1>1 DEF Classified, IsData
  <2> QED BY <2>1, <2>2
<1>2. CASE ~(m.form = "midi1" /\ m.first \in {240, 247})
  BY <1>2 DEF Classified
<1> QED BY <1>1, <1>2

(* A batch has a category for each of its messages.                          *)
LEMMA BatchCategories ==
  ASSUME NEW events, AnySeq(events)
  PROVE  /\ AnySeq(ClassifiedAll(events).category)
         /\ Len(ClassifiedAll(events).category) = Len(events)
         /\ \A i \in 1..Len(events) : ~IsData(events[i].message) =>
              ClassifiedAll(events).category[i] = EventCategory(events[i].message)
<1>1. Len(events) \in Nat /\ DOMAIN events = 1..Len(events)
  BY DEF AnySeq
<1> DEFINE upTo[i \in 0..Len(events)] ==
             IF i = 0 THEN open ELSE Classified(events[i].message, upTo[i - 1]).open
<1>2. ClassifiedAll(events).category =
        [i \in DOMAIN events |-> Classified(events[i].message, upTo[i - 1]).category]
  BY DEF ClassifiedAll
<1> HIDE DEF upTo
<1>3. /\ AnySeq(ClassifiedAll(events).category)
      /\ Len(ClassifiedAll(events).category) = Len(events)
  BY <1>1, <1>2, ByPlace
<1>4. \A i \in 1..Len(events) : ~IsData(events[i].message) =>
        ClassifiedAll(events).category[i] = EventCategory(events[i].message)
  BY <1>1, <1>2, OwnCategory
<1> QED BY <1>3, <1>4

(* As many numbers as messages.                                              *)
LEMMA NumbersOf ==
  ASSUME NEW events, AnySeq(events), Growing(events),
         \A i \in 1..Len(events) : events[i].number \in Nat,
         NEW numbers, numbers = {events[i].number : i \in DOMAIN events}
  PROVE  IsFiniteSet(numbers) /\ Cardinality(numbers) = Len(events)
<1> DEFINE n == Len(events)
           f == [i \in 1..n |-> events[i].number]
<1>1. n \in Nat /\ DOMAIN events = 1..n
  BY DEF AnySeq
<1>2. \A i, j \in 1..n : f[i] = f[j] => i = j
  <2> SUFFICES ASSUME NEW i \in 1..n, NEW j \in 1..n, i # j PROVE f[i] # f[j]
    OBVIOUS
  <2>1. i < j \/ j < i
    BY <1>1
  <2>2. events[i].number < events[j].number \/ events[j].number < events[i].number
    BY <2>1 DEF Growing
  <2> QED BY <2>2
<1>3. f \in Bijection(1..n, numbers)
  BY <1>1, <1>2 DEF Bijection, Injection, Surjection, IsInjective
<1>4. IsFiniteSet(1..n) /\ Cardinality(1..n) = n
  <2> HIDE DEF n
  <2>1. 1 \in Int /\ n \in Int /\ (IF 1 > n THEN 0 ELSE n - 1 + 1) = n
    BY <1>1
  <2>2. IsFiniteSet(1..n) /\ Cardinality(1..n) = IF 1 > n THEN 0 ELSE n - 1 + 1
    BY <2>1, FS_Interval
  <2> QED BY <2>1, <2>2
<1>5. ExistsBijection(1..n, numbers)
  BY <1>3 DEF ExistsBijection
<1> QED BY <1>4, <1>5, FS_Bijection

(* What a tick takes from the front of the queue, and what it leaves.        *)
LEMMA Divided ==
  ASSUME Line, Counts, NEW taken \in 1..Len(queue)
  PROVE  LET events == SubSeq(queue, 1, taken)
             rest   == SubSeq(queue, taken + 1, Len(queue)) IN
         /\ AnySeq(events) /\ Len(events) = taken
         /\ \A i \in 1..taken : events[i] = queue[i]
         /\ AnySeq(rest) /\ Len(rest) = Len(queue) - taken
         /\ \A i \in 1..Len(rest) : taken + i \in 1..Len(queue) /\ rest[i] = queue[taken + i]
<1> DEFINE events == SubSeq(queue, 1, taken)
           rest   == SubSeq(queue, taken + 1, Len(queue))
<1>1. taken \in Nat /\ Len(queue) \in Nat /\ taken <= Len(queue) /\ AnySeq(queue)
  BY DEF Line, Counts
<1>2. /\ AnySeq(events) /\ Len(events) = taken
      /\ \A i \in 1..taken : events[i] = queue[i]
  <2>1. /\ AnySeq(events) /\ Len(events) = taken - 1 + 1
        /\ \A i \in 1..(taken - 1 + 1) : events[i] = queue[1 + i - 1]
    BY <1>1, PartOf
  <2>2. taken - 1 + 1 = taken /\ \A i \in 1..taken : 1 + i - 1 = i
    BY <1>1
  <2> HIDE DEF events
  <2> QED BY <2>1, <2>2
<1>3. /\ AnySeq(rest) /\ Len(rest) = Len(queue) - taken
      /\ \A i \in 1..Len(rest) : taken + i \in 1..Len(queue) /\ rest[i] = queue[taken + i]
  <2>1. /\ AnySeq(rest) /\ Len(rest) = Len(queue) - (taken + 1) + 1
        /\ \A i \in 1..(Len(queue) - (taken + 1) + 1) : rest[i] = queue[taken + 1 + i - 1]
    <3>1. taken + 1 \in Nat \ {0} /\ taken + 1 <= Len(queue) + 1
      BY <1>1
    <3> QED BY <1>1, <3>1, PartOf
  <2>2. /\ Len(queue) - (taken + 1) + 1 = Len(queue) - taken
        /\ \A i \in 1..(Len(queue) - taken) :
             taken + 1 + i - 1 = taken + i /\ taken + i \in 1..Len(queue)
    BY <1>1
  <2> HIDE DEF rest
  <2> QED BY <2>1, <2>2
<1> QED BY <1>2, <1>3

(* A queue of which the front was taken is still in order.                   *)
LEMMA StillInLine ==
  ASSUME Line, Counts, NEW taken \in 1..Len(queue),
         queue' = SubSeq(queue, taken + 1, Len(queue)), arrived' = arrived
  PROVE  Line'
<1>1. /\ AnySeq(queue') /\ Len(queue') \in Nat
      /\ \A i \in 1..Len(queue') : taken + i \in 1..Len(queue) /\ queue'[i] = queue[taken + i]
  BY Divided DEF Counts
<1>2. \A i \in 1..Len(queue') : queue'[i].number \in 1..arrived'
  BY <1>1 DEF Line
<1>3. \A i, j \in 1..Len(queue') : i < j => queue'[i].number < queue'[j].number
  <2> SUFFICES ASSUME NEW i \in 1..Len(queue'), NEW j \in 1..Len(queue'), i < j
               PROVE  queue'[i].number < queue'[j].number
    OBVIOUS
  <2>1. taken + i < taken + j
    BY <1>1
  <2> QED BY <1>1, <2>1 DEF Line, Growing
<1> QED BY <1>1, <1>2, <1>3 DEF Line, Growing, AnySeq

(* What leaves the queue is counted once.                                    *)
LEMMA LeavingCounts ==
  ASSUME Line, Counts, NEW taken \in 1..Len(queue), arrived' = arrived,
         Len(queue') = Len(queue) - taken,
         NEW name \in {"displayed", "pausedAway", "closedAway"}, Count(name, taken)
  PROVE  Counts' /\ stats'["displayed"] = IF name = "displayed" THEN stats["displayed"] + taken
                                          ELSE stats["displayed"]
<1> DEFINE a == stats["accepted"]
           d == stats["dropped"]
           r == stats["rejected"]
           s == stats["displayed"]
           p == stats["pausedAway"]
           c == stats["closedAway"]
<1>1. /\ a \in Nat /\ d \in Nat /\ r \in Nat /\ s \in Nat /\ p \in Nat /\ c \in Nat
      /\ arrived = a + d + r /\ a = s + p + c + Len(queue)
      /\ Len(queue) \in Nat /\ Capacity \in Nat /\ Len(queue) <= Capacity
      /\ stats \in [Counters -> Nat] /\ taken \in Nat /\ taken <= Len(queue)
  BY Sums DEF Counters
<1>2. /\ stats' \in [Counters -> Nat]
      /\ stats'[name] = stats[name] + taken
      /\ \A other \in Counters \ {name} : stats'[other] = stats[other]
  BY <1>1, Counted DEF Counters
<1>3. a' = a /\ d' = d /\ r' = r
  BY <1>2 DEF Counters
<1>4. /\ s' \in Nat /\ p' \in Nat /\ c' \in Nat
      /\ s' + p' + c' = s + p + c + taken
      /\ s' = IF name = "displayed" THEN s + taken ELSE s
  <2>1. CASE name = "displayed"
    <3>1. s' = s + taken /\ p' = p /\ c' = c
      BY <1>2, <2>1 DEF Counters
    <3> HIDE DEF s, p, c
    <3> QED BY <1>1, <2>1, <3>1
  <2>2. CASE name = "pausedAway"
    <3>1. s' = s /\ p' = p + taken /\ c' = c
      BY <1>2, <2>2 DEF Counters
    <3> HIDE DEF s, p, c
    <3> QED BY <1>1, <2>2, <3>1
  <2>3. CASE name = "closedAway"
    <3>1. s' = s /\ p' = p /\ c' = c + taken
      BY <1>2, <2>3 DEF Counters
    <3> HIDE DEF s, p, c
    <3> QED BY <1>1, <2>3, <3>1
  <2> QED BY <2>1, <2>2, <2>3
<1> HIDE DEF a, d, r, s, p, c
<1>5. /\ arrived' = a' + d' + r' /\ a' = s' + p' + c' + Len(queue')
      /\ Len(queue') \in 0..Capacity
  <2>1. arrived' = a' + d' + r'
    BY <1>1, <1>3
  <2>2. s' + p' + c' \in Nat /\ s' + p' + c' = s + p + c + taken
    BY <1>4
  <2>3. a' = s' + p' + c' + Len(queue')
    BY <1>1, <1>3, <2>2
  <2>4. Len(queue') \in 0..Capacity
    BY <1>1
  <2> QED BY <2>1, <2>3, <2>4
<1> QED BY <1>2, <1>4, <1>5 DEF Counts, a, d, r, s, p, c

(* A batch is appended to the history.                                       *)
LEMMA BatchKeepsHistory ==
  ASSUME History, NEW events, AnySeq(events), Growing(events),
         \A i \in 1..Len(events) : events[i].number \in Nat,
         \A n \in seen : n \in Nat /\ \A i \in 1..Len(events) : n < events[i].number,
         AppendBatch(events), limit' = limit,
         given' = given \o Numbers(events),
         seen' = seen \cup {events[i].number : i \in DOMAIN events}
  PROVE  History'
<1> DEFINE L == Len(rows)
           N == Len(events)
           G == Len(given)
           numbers == Numbers(events)
           kinds == ClassifiedAll(events).category
           overflow == IF L + N > limit THEN L + N - limit ELSE 0
           k == L - overflow
<1>1. /\ L \in Nat /\ N \in Nat /\ G \in Nat /\ limit \in Nat \ {0} /\ L <= limit /\ L <= G
      /\ Len(categories) = L /\ DOMAIN events = 1..N
  BY DEF History, AnySeq
<1>2. AnySeq(numbers) /\ Len(numbers) = N /\ \A i \in 1..N : numbers[i] = events[i].number
  BY <1>1, ByPlace DEF Numbers
<1>3. /\ AnySeq(kinds) /\ Len(kinds) = N
      /\ \A i \in 1..N : ~IsData(events[i].message) => kinds[i] = EventCategory(events[i].message)
  BY BatchCategories
<1>4. /\ AnySeq(given') /\ Len(given') = G + N
      /\ \A i \in 1..(G + N) : given'[i] = IF i <= G THEN given[i] ELSE numbers[i - G]
  <2> HIDE DEF numbers
  <2>1. given' = given \o numbers
    BY DEF numbers
  <2>2. AnySeq(given)
    BY DEF History
  <2>3. /\ AnySeq(given \o numbers)
        /\ Len(given \o numbers) = Len(given) + Len(numbers)
        /\ \A i \in 1..(Len(given) + Len(numbers)) :
             (given \o numbers)[i] = IF i <= Len(given) THEN given[i] ELSE numbers[i - Len(given)]
    BY <1>2, <2>2, Chained
  <2>4. Len(numbers) = N
    BY <1>2
  <2> HIDE DEF N
  <2> QED BY <2>1, <2>3, <2>4 DEF AnySeq
<1>5. /\ \A i \in 1..G : given'[i] = given[i]
      /\ \A i \in 1..N : given'[G + i] = events[i].number
  BY <1>1, <1>2, <1>4
<1>6. \A i \in 1..Len(given') : i \in 1..G \/ (i - G \in 1..N /\ i = G + (i - G))
  BY <1>1, <1>4
<1>7. \A i \in 1..Len(given') : given'[i] \in seen'
  <2> SUFFICES ASSUME NEW i \in 1..Len(given') PROVE given'[i] \in seen'
    OBVIOUS
  <2>1. CASE i \in 1..G
    BY <1>5, <2>1 DEF History
  <2>2. CASE i - G \in 1..N /\ i = G + (i - G)
    BY <1>1, <1>5, <2>2
  <2> QED BY <1>6, <2>1, <2>2
<1>8. \A i, j \in 1..Len(given') : i < j => given'[i] < given'[j]
  <2> SUFFICES ASSUME NEW i \in 1..Len(given'), NEW j \in 1..Len(given'), i < j
               PROVE  given'[i] < given'[j]
    OBVIOUS
  <2>1. CASE i \in 1..G /\ j \in 1..G
    BY <1>5, <2>1 DEF History
  <2>2. CASE i \in 1..G /\ j - G \in 1..N /\ j = G + (j - G)
    <3>1. given[i] \in seen /\ given'[i] = given[i] /\ given'[j] = events[j - G].number
      BY <1>5, <2>2 DEF History
    <3> QED BY <2>2, <3>1
  <2>3. CASE i - G \in 1..N /\ i = G + (i - G) /\ j - G \in 1..N /\ j = G + (j - G)
    <3>1. given'[i] = events[i - G].number /\ given'[j] = events[j - G].number
      BY <1>5, <2>3
    <3>2. i - G < j - G
      BY <1>1, <1>4
    <3> QED BY <2>3, <3>1, <3>2 DEF Growing
  <2>4. ~(i - G \in 1..N /\ j \in 1..G)
    BY <1>1, <1>4
  <2> QED BY <1>6, <2>1, <2>2, <2>3, <2>4
<1>9. CASE N >= limit
  <2>1. rows' = Last(events, limit) /\ categories' = Last(kinds, limit)
    BY <1>1, <1>9 DEF AppendBatch
  <2>2. /\ AnySeq(rows') /\ Len(rows') = limit
        /\ \A i \in 1..limit : rows'[i] = events[N - limit + i]
    BY <1>1, <1>9, <2>1, EndOf
  <2>3. /\ AnySeq(categories') /\ Len(categories') = limit
        /\ \A i \in 1..limit : categories'[i] = kinds[N - limit + i]
    <3> HIDE DEF kinds
    <3> QED BY <1>1, <1>3, <1>9, <2>1, EndOf
  <2>4. \A i \in 1..limit : /\ N - limit + i \in 1..N
                            /\ Len(given') - limit + i = G + (N - limit + i)
    BY <1>1, <1>4, <1>9
  <2>5. /\ \A i \in 1..limit : rows'[i].number = given'[Len(given') - limit + i]
        /\ \A i \in 1..limit :
             ~IsData(rows'[i].message) => categories'[i] = EventCategory(rows'[i].message)
    BY <1>3, <1>5, <2>2, <2>3, <2>4
  <2>6. limit <= Len(given')
    BY <1>1, <1>4, <1>9
  <2>7. limit' \in Nat \ {0}
    BY <1>1
  <2> HIDE DEF L, N, G
  <2>8. AnySeq(rows)' /\ AnySeq(given)' /\ AnySeq(categories)'
    BY <1>4, <2>2, <2>3 DEF AnySeq
  <2>9. (Len(rows) <= limit /\ Len(rows) <= Len(given) /\ Len(categories) = Len(rows))'
    BY <1>1, <2>2, <2>3, <2>6
  <2>10. (\A i \in 1..Len(rows) : rows[i].number = given[Len(given) - Len(rows) + i])'
    BY <2>2, <2>5
  <2>11. (\A i \in 1..Len(rows) :
            ~IsData(rows[i].message) => categories[i] = EventCategory(rows[i].message))'
    BY <2>2, <2>5
  <2> QED BY <1>7, <1>8, <2>7, <2>8, <2>9, <2>10, <2>11 DEF History
<1>10. CASE ~(N >= limit)
  <2>1. /\ rows' = Last(rows, k) \o events /\ categories' = Last(categories, k) \o kinds
        /\ k \in Nat /\ k <= L /\ k + N <= limit
    <3>1. k \in Nat /\ k <= L /\ k + N <= limit
      BY <1>1, <1>10
    <3>2. rows' = Last(rows, k) \o events /\ categories' = Last(categories, k) \o kinds
      BY <1>10 DEF AppendBatch
    <3> QED BY <3>1, <3>2
  <2> HIDE DEF k
  <2>2. /\ AnySeq(Last(rows, k)) /\ Len(Last(rows, k)) = k
        /\ \A i \in 1..k : Last(rows, k)[i] = rows[L - k + i]
    BY <2>1, EndOf DEF History
  <2>3. /\ AnySeq(Last(categories, k)) /\ Len(Last(categories, k)) = k
        /\ \A i \in 1..k : Last(categories, k)[i] = categories[L - k + i]
    <3>1. AnySeq(categories) /\ Len(categories) = L /\ L \in Nat
      BY <1>1 DEF History
    <3> HIDE DEF L
    <3> QED BY <2>1, <3>1, EndOf
  <2>4. /\ AnySeq(rows') /\ Len(rows') = k + N
        /\ \A i \in 1..(k + N) : rows'[i] = IF i <= k THEN Last(rows, k)[i] ELSE events[i - k]
    <3> HIDE DEF N
    <3>1. Len(events) = N
      BY DEF N
    <3> DEFINE kept == Last(rows, k)
    <3> HIDE DEF kept
    <3>2. AnySeq(kept) /\ Len(kept) = k /\ rows' = kept \o events
      BY <2>1, <2>2 DEF kept
    <3>3. /\ AnySeq(kept \o events) /\ Len(kept \o events) = Len(kept) + Len(events)
          /\ \A i \in 1..(Len(kept) + Len(events)) :
               (kept \o events)[i] = IF i <= Len(kept) THEN kept[i] ELSE events[i - Len(kept)]
      BY <3>2, Chained
    <3>4. /\ AnySeq(rows') /\ Len(rows') = k + N
          /\ \A i \in 1..(k + N) : rows'[i] = IF i <= k THEN kept[i] ELSE events[i - k]
      BY <3>1, <3>2, <3>3
    <3> QED BY <3>4 DEF kept
  <2>5. /\ AnySeq(categories') /\ Len(categories') = k + N
        /\ \A i \in 1..(k + N) :
             categories'[i] = IF i <= k THEN Last(categories, k)[i] ELSE kinds[i - k]
    <3> HIDE DEF N, kinds
    <3> DEFINE kept == Last(categories, k)
    <3> HIDE DEF kept
    <3>2. /\ AnySeq(kept) /\ Len(kept) = k /\ categories' = kept \o kinds
          /\ AnySeq(kinds) /\ Len(kinds) = N
      BY <1>3, <2>1, <2>3 DEF kept
    <3>3. /\ AnySeq(kept \o kinds) /\ Len(kept \o kinds) = Len(kept) + Len(kinds)
          /\ \A i \in 1..(Len(kept) + Len(kinds)) :
               (kept \o kinds)[i] = IF i <= Len(kept) THEN kept[i] ELSE kinds[i - Len(kept)]
      BY <3>2, Chained
    <3>4. /\ AnySeq(categories') /\ Len(categories') = k + N
          /\ \A i \in 1..(k + N) : categories'[i] = IF i <= k THEN kept[i] ELSE kinds[i - k]
      BY <3>2, <3>3
    <3> QED BY <3>4 DEF kept
  <2>6. ASSUME NEW i \in 1..(k + N)
        PROVE  /\ rows'[i].number = given'[Len(given') - (k + N) + i]
               /\ ~IsData(rows'[i].message) => categories'[i] = EventCategory(rows'[i].message)
    <3>1. CASE i <= k
      <4>1. /\ i \in 1..k /\ L - k + i \in 1..L /\ G - k + i \in 1..G
            /\ Len(given') - (k + N) + i = G - k + i /\ G - L + (L - k + i) = G - k + i
        BY <1>1, <1>4, <2>1, <3>1
      <4>2. rows'[i] = rows[L - k + i] /\ categories'[i] = categories[L - k + i]
        BY <2>2, <2>3, <2>4, <2>5, <3>1, <4>1
      <4>3. rows[L - k + i].number = given[G - k + i]
        BY <4>1 DEF History
      <4> QED BY <1>5, <4>1, <4>2, <4>3 DEF History
    <3>2. CASE ~(i <= k)
      <4>1. i - k \in 1..N /\ Len(given') - (k + N) + i = G + (i - k)
        BY <1>1, <1>4, <2>1, <3>2
      <4>2. rows'[i] = events[i - k] /\ categories'[i] = kinds[i - k]
        BY <2>4, <2>5, <3>2
      <4> QED BY <1>3, <1>5, <4>1, <4>2
    <3> QED BY <3>1, <3>2
  <2>7. k + N <= Len(given')
    BY <1>1, <1>4, <2>1
  <2> QED BY <1>1, <1>4, <1>7, <1>8, <2>1, <2>4, <2>5, <2>6, <2>7 DEF History, AnySeq
<1> QED BY <1>9, <1>10

(* A tick: the batch is shown, or discarded under a pause.                   *)
LEMMA DrainKeeps ==
  ASSUME IInv, DrainOnce
  PROVE  IInv'
<1> DEFINE taken == Smaller(BatchLimit, Len(queue))
           events == SubSeq(queue, 1, taken)
<1>1. /\ queue' = SubSeq(queue, taken + 1, Len(queue))
      /\ arrived' = arrived
  BY DEF DrainOnce
<1>2. taken \in 1..Len(queue)
  BY MonitorAssumption DEF DrainOnce, Smaller, IInv, Counts
<1> HIDE DEF taken
<1>3. /\ AnySeq(events) /\ Len(events) = taken /\ DOMAIN events = 1..taken
      /\ \A i \in 1..taken : events[i] = queue[i]
      /\ AnySeq(queue') /\ Len(queue') = Len(queue) - taken
      /\ \A i \in 1..Len(queue') : taken + i \in 1..Len(queue) /\ queue'[i] = queue[taken + i]
  <2>1. /\ AnySeq(events) /\ Len(events) = taken
        /\ \A i \in 1..taken : events[i] = queue[i]
    BY <1>2, Divided DEF IInv
  <2> DEFINE rest == SubSeq(queue, taken + 1, Len(queue))
  <2>2. /\ AnySeq(rest) /\ Len(rest) = Len(queue) - taken
        /\ \A i \in 1..Len(rest) : taken + i \in 1..Len(queue) /\ rest[i] = queue[taken + i]
    BY <1>2, Divided DEF IInv
  <2>3. queue' = rest
    BY <1>1
  <2> HIDE DEF rest, events
  <2>4. DOMAIN events = 1..taken
    BY <2>1 DEF AnySeq
  <2> QED BY <2>1, <2>2, <2>3, <2>4
<1>4. /\ taken \in Nat /\ Len(queue) \in Nat /\ taken <= Len(queue) /\ arrived \in Nat
      /\ \A i \in 1..Len(queue) : queue[i].number \in 1..arrived
      /\ \A i, j \in 1..Len(queue) : i < j => queue[i].number < queue[j].number
      /\ \A n \in seen : n \in 1..arrived /\ \A i \in 1..Len(queue) : n < queue[i].number
  BY <1>2 DEF IInv, Line, Counts, Shown, Growing
<1>5. Line'
  BY <1>1, <1>2, StillInLine DEF IInv
<1>6. \A n \in seen : \A i \in 1..Len(queue') : n < queue'[i].number
  BY <1>3, <1>4
<1>7. CASE paused
  <2>1. Count("pausedAway", taken) /\ UNCHANGED modelVars
    BY <1>7 DEF DrainOnce, taken
  <2>2. Counts' /\ stats'["displayed"] = stats["displayed"]
    BY <1>1, <1>2, <1>3, <2>1, LeavingCounts DEF IInv
  <2>3. Shown'
    BY <1>1, <1>6, <2>1, <2>2 DEF IInv, Shown, modelVars
  <2>4. History'
    BY <2>1 DEF IInv, History, modelVars, AnySeq
  <2> QED BY <1>5, <2>2, <2>3, <2>4 DEF IInv
<1>8. CASE ~paused
  <2> DEFINE numbers == {events[i].number : i \in DOMAIN events}
  <2>1. /\ Count("displayed", taken)
        /\ AppendBatch(events)
        /\ given' = given \o Numbers(events)
        /\ seen' = seen \cup numbers
        /\ limit' = limit
    BY <1>8 DEF DrainOnce, taken
  <2>2. Counts' /\ stats'["displayed"] = stats["displayed"] + taken
    BY <1>1, <1>2, <1>3, <2>1, LeavingCounts DEF IInv
  <2> HIDE DEF events
  <2>3. /\ \A i \in 1..taken : i \in 1..Len(queue) /\ events[i].number \in 1..arrived
        /\ Growing(events)
        /\ \A n \in seen : n \in Nat /\ \A i \in 1..Len(events) : n < events[i].number
    <3>1. \A i \in 1..taken : i \in 1..Len(queue) /\ events[i] = queue[i]
      BY <1>3, <1>4
    <3>2. \A i, j \in 1..Len(events) : i < j => events[i].number < events[j].number
      BY <1>3, <1>4, <3>1
    <3>3. \A n \in seen : n \in Nat /\ \A i \in 1..Len(events) : n < events[i].number
      BY <1>3, <1>4, <3>1
    <3> QED BY <1>4, <3>1, <3>2, <3>3 DEF Growing
  <2>4. IsFiniteSet(numbers) /\ Cardinality(numbers) = taken
    <3>1. \A i \in 1..Len(events) : events[i].number \in Nat
      BY <1>3, <1>4, <2>3
    <3>2. numbers = {events[i].number : i \in DOMAIN events}
      OBVIOUS
    <3>3. AnySeq(events) /\ Growing(events) /\ Len(events) = taken
      BY <1>3, <2>3
    <3> HIDE DEF numbers
    <3> QED BY <3>1, <3>2, <3>3, NumbersOf
  <2>5. numbers \subseteq 1..arrived /\ seen \cap numbers = {}
    BY <1>3, <1>4, <2>3
  <2>6. \A n \in numbers : \A i \in 1..Len(queue') : n < queue'[i].number
    <3> SUFFICES ASSUME NEW k \in 1..taken, NEW i \in 1..Len(queue')
                 PROVE  events[k].number < queue'[i].number
      BY <1>3
    <3>1. taken + i \in 1..Len(queue) /\ queue'[i] = queue[taken + i] /\ events[k] = queue[k]
      BY <1>3
    <3>2. k \in 1..Len(queue) /\ k < taken + i
      BY <1>3, <1>4
    <3> QED BY <1>4, <3>1, <3>2
  <2>7. IsFiniteSet(seen') /\ Cardinality(seen') = Cardinality(seen) + taken
    <3> HIDE DEF numbers
    <3>1. IsFiniteSet(seen) /\ Cardinality(seen) \in Nat
      BY FS_CardinalityType DEF IInv, Shown
    <3>2. Cardinality(seen \cap numbers) = 0
      BY <2>5, FS_EmptySet
    <3>3. /\ IsFiniteSet(seen \cup numbers)
          /\ Cardinality(seen \cup numbers) =
               Cardinality(seen) + Cardinality(numbers) - Cardinality(seen \cap numbers)
      BY <2>4, <3>1, FS_Union
    <3> QED BY <1>4, <2>1, <2>4, <3>1, <3>2, <3>3
  <2>8. Shown'
    <3> HIDE DEF numbers
    <3>1. stats["displayed"] = Cardinality(seen) /\ seen \subseteq 1..arrived
      BY DEF IInv, Shown
    <3> QED BY <1>1, <1>6, <2>1, <2>2, <2>5, <2>6, <2>7, <3>1 DEF Shown
  <2>9. History'
    <3>1. \A i \in 1..Len(events) : events[i].number \in Nat
      BY <1>3, <1>4, <2>3
    <3> QED BY <1>3, <2>1, <2>3, <3>1, BatchKeepsHistory DEF IInv
  <2> QED BY <1>5, <2>2, <2>8, <2>9 DEF IInv
<1> QED BY <1>7, <1>8

(* The controls of the page.                                                 *)
LEMMA ClicksKeep ==
  ASSUME IInv, Pause \/ Clear \/ (\E n \in Limits : SetHistoryLimit(n)) \/ BeginShutdown
  PROVE  IInv'
<1>1. UNCHANGED <<arrived, queue, stats, seen>>
  BY DEF Pause, Clear, SetHistoryLimit, BeginShutdown, Click, queueVars, modelVars
<1>2. Line' /\ Counts' /\ Shown'
  BY <1>1 DEF IInv, Line, Counts, Shown, Growing, AnySeq
<1>3. CASE Pause \/ BeginShutdown
  BY <1>2, <1>3 DEF Pause, BeginShutdown, modelVars, IInv, History, AnySeq
<1>4. CASE Clear
  <2>1. AnySeq(<<>>) /\ Len(<<>>) = 0
    BY EmptySeq DEF AnySeq
  <2>2. /\ rows' = <<>> /\ categories' = <<>> /\ given' = <<>> /\ limit' = limit
    BY <1>4 DEF Clear
  <2>3. History'
    BY <2>1, <2>2 DEF IInv, History, AnySeq
  <2> QED BY <1>2, <2>3 DEF IInv
<1>5. CASE \E n \in Limits : SetHistoryLimit(n)
  <2>1. PICK n \in Limits : SetHistoryLimit(n)
    BY <1>5
  <2>2. /\ n \in Nat \ {0} /\ limit' = n /\ given' = given
        /\ rows' = Recent(rows, n) /\ categories' = Recent(categories, n)
    BY <2>1, MonitorAssumption DEF SetHistoryLimit
  <2> DEFINE L == Len(rows)
             G == Len(given)
             k == Smaller(n, L)
  <2>3. /\ L \in Nat /\ G \in Nat /\ L <= G /\ Len(categories) = L
        /\ k \in Nat /\ k <= n /\ k <= L
    BY <2>2 DEF IInv, History, AnySeq, Smaller
  <2>4. rows' = Last(rows, k) /\ categories' = Last(categories, k)
    BY <2>2, <2>3 DEF Recent
  <2> HIDE DEF k
  <2>5. /\ AnySeq(rows') /\ Len(rows') = k
        /\ \A i \in 1..k : rows'[i] = rows[L - k + i]
    BY <2>3, <2>4, EndOf DEF IInv, History
  <2>6. /\ AnySeq(categories') /\ Len(categories') = k
        /\ \A i \in 1..k : categories'[i] = categories[L - k + i]
    <3>1. AnySeq(categories) /\ Len(categories) = L
      BY <2>3 DEF IInv, History
    <3> HIDE DEF L
    <3>2. k \in Nat /\ k <= Len(categories)
      BY <2>3
    <3>3. /\ AnySeq(Last(categories, k)) /\ Len(Last(categories, k)) = k
          /\ \A i \in 1..k : Last(categories, k)[i] = categories[Len(categories) - k + i]
      BY <3>1, <3>2, EndOf
    <3> QED BY <2>4, <3>1, <3>3
  <2>7. \A i \in 1..k : /\ rows'[i].number = given'[Len(given') - k + i]
                        /\ ~IsData(rows'[i].message) =>
                             categories'[i] = EventCategory(rows'[i].message)
    <3> SUFFICES ASSUME NEW i \in 1..k
                 PROVE  /\ rows'[i].number = given'[Len(given') - k + i]
                        /\ ~IsData(rows'[i].message) =>
                             categories'[i] = EventCategory(rows'[i].message)
      OBVIOUS
    <3>1. L - k + i \in 1..L /\ G - L + (L - k + i) = G - k + i
      BY <2>3
    <3>2. rows[L - k + i].number = given[G - k + i]
      BY <3>1 DEF IInv, History
    <3> QED BY <2>2, <2>5, <2>6, <3>1, <3>2 DEF IInv, History
  <2>8. (AnySeq(rows) /\ AnySeq(given) /\ AnySeq(categories))'
    BY <2>2, <2>5, <2>6 DEF IInv, History, AnySeq
  <2>9. (Len(rows) <= limit /\ Len(rows) <= Len(given) /\ Len(categories) = Len(rows))'
    BY <2>2, <2>3, <2>5, <2>6
  <2>10. (/\ \A i \in 1..Len(given) : given[i] \in seen
          /\ \A i, j \in 1..Len(given) : i < j => given[i] < given[j])'
    BY <1>1, <2>2 DEF IInv, History
  <2>11. (/\ \A i \in 1..Len(rows) : rows[i].number = given[Len(given) - Len(rows) + i]
          /\ \A i \in 1..Len(rows) :
               ~IsData(rows[i].message) => categories[i] = EventCategory(rows[i].message))'
    BY <2>5, <2>7
  <2>12. History'
    BY <2>2, <2>8, <2>9, <2>10, <2>11 DEF History
  <2> QED BY <1>2, <2>12 DEF IInv
<1> QED BY <1>3, <1>4, <1>5

(* What is queued at the close is discarded and counted.                     *)
LEMMA CloseKeeps ==
  ASSUME IInv, EndShutdown
  PROVE  IInv'
<1>1. /\ queue' = <<>> /\ Count("closedAway", Len(queue))
      /\ UNCHANGED <<arrived, rows, categories, limit, open, given, seen>>
  BY DEF EndShutdown, modelVars
<1>2. AnySeq(<<>>) /\ Len(<<>>) = 0
  BY EmptySeq DEF AnySeq
<1>3. Len(queue) \in Nat
  BY DEF IInv, Line, AnySeq
<1>4. Counts' /\ stats'["displayed"] = stats["displayed"]
  <2>1. CASE Len(queue) = 0
    <3>1. stats' = stats
      BY <1>1, <2>1, Sums DEF Count, Counters, IInv
    <3> QED BY <1>1, <1>2, <2>1, <3>1 DEF IInv, Counts
  <2>2. CASE Len(queue) # 0
    <3>1. Len(queue) \in 1..Len(queue) /\ Len(queue') = Len(queue) - Len(queue)
      BY <1>1, <1>2, <1>3, <2>2
    <3> QED BY <1>1, <3>1, LeavingCounts DEF IInv
  <2> QED BY <2>1, <2>2
<1>5. Line' /\ Shown'
  BY <1>1, <1>2, <1>4 DEF IInv, Line, Shown, Growing, AnySeq
<1>6. History'
  BY <1>1 DEF IInv, History, AnySeq
<1> QED BY <1>4, <1>5, <1>6 DEF IInv

-----------------------------------------------------------------------------
(* The theorems. *)

(* Every step keeps the invariant.                                           *)
LEMMA NextKeeps ==
  ASSUME IInv, [Next]_vars
  PROVE  IInv'
<1>1. CASE Transport
  BY <1>1, TransportKeeps
<1>2. CASE DrainOnce
  BY <1>2, DrainKeeps
<1>3. CASE Pause \/ Clear \/ (\E n \in Limits : SetHistoryLimit(n)) \/ BeginShutdown
  BY <1>3, ClicksKeep
<1>4. CASE EndShutdown
  BY <1>4, CloseKeeps
<1>5. CASE UNCHANGED vars
  <2>1. UNCHANGED <<arrived, queue, stats, rows, categories, limit, open, given, seen>>
    BY <1>5 DEF vars, queueVars, modelVars
  <2> QED BY <2>1 DEF IInv, Line, Counts, Shown, History, Growing, AnySeq
<1> QED BY <1>1, <1>2, <1>3, <1>4, <1>5 DEF Next, Gui

(* So it holds always.                                                       *)
LEMMA Invariance == Spec => []IInv
<1> QED BY InitIInv, NextKeeps, PTL DEF Spec

(* Once a shutdown has begun the queue takes nothing, and once it has ended  *)
(* nothing is drained.                                                       *)
Shutting ==
  /\ running \/ ~accepting
  /\ shut => ~running /\ queue = <<>>

(* Every step keeps that.                                                    *)
LEMMA ShuttingKept ==
  ASSUME Shutting, [Next]_vars
  PROVE  Shutting'
<1>1. CASE Transport
  <2>1. PICK message, begun : Arrive(message, begun)
    BY <1>1 DEF Transport, ArriveStart, ArriveMessage, ArrivePiece
  <2>2. UNCHANGED <<running, shut, accepting>>
    BY <2>1 DEF Arrive, Push, queueVars, bridgeVars
  <2>3. ~accepting => queue' = queue
    BY <2>1 DEF Arrive, Push, queueVars
  <2> QED BY <2>2, <2>3 DEF Shutting
<1>2. CASE DrainOnce
  BY <1>2 DEF DrainOnce, bridgeVars, Shutting
<1>3. CASE Pause \/ Clear \/ (\E n \in Limits : SetHistoryLimit(n))
  BY <1>3 DEF Pause, Clear, SetHistoryLimit, queueVars, bridgeVars, Shutting
<1>4. CASE BeginShutdown
  BY <1>4 DEF BeginShutdown, Shutting
<1>5. CASE EndShutdown
  BY <1>5 DEF EndShutdown, Shutting
<1>6. CASE UNCHANGED vars
  BY <1>6 DEF vars, queueVars, bridgeVars, Shutting
<1> QED BY <1>1, <1>2, <1>3, <1>4, <1>5, <1>6 DEF Next, Gui

(* Nothing is lost silently: of every message that arrived it is counted     *)
(* what became of it, for any capacity and any order of arrivals, ticks,     *)
(* pauses and the close, and a shutdown that has returned leaves nothing     *)
(* queued (MonitorEventQueue, MonitorEventBridge).                           *)
THEOREM NothingUncounted == Spec => []Accounted
<1>1. IInv /\ Shutting => Accounted
  <2> SUFFICES ASSUME IInv, Shutting PROVE Accounted
    OBVIOUS
  <2>1. Len(queue) <= Capacity
    BY MonitorAssumption DEF IInv, Counts
  <2> QED BY <2>1 DEF IInv, Counts, Shown, Accounted, Shutting
<1>2. Init => Shutting
  BY DEF Init, Shutting
<1> QED BY <1>1, <1>2, ShuttingKept, Invariance, PTL DEF Spec

(* The history is a gapless end of what was displayed, with the categories   *)
(* of its own messages, for any limits and batches (MidiMonitorModel).       *)
THEOREM FaithfulHistory == Spec => []HistoryFaithful
<1>1. IInv => HistoryFaithful
  <2> SUFFICES ASSUME IInv PROVE HistoryFaithful
    OBVIOUS
  <2> DEFINE L == Len(rows)
             G == Len(given)
  <2>1. L \in Nat /\ G \in Nat /\ L <= G /\ DOMAIN rows = 1..L
    BY DEF IInv, History, AnySeq
  <2>2. \A i \in 1..L : rows[i].number = given[G - L + i] /\ G - L + i \in 1..G
    BY <2>1 DEF IInv, History
  <2>3. \A i, j \in DOMAIN rows : i < j => rows[i].number < rows[j].number
    <3> SUFFICES ASSUME NEW i \in 1..L, NEW j \in 1..L, i < j
                 PROVE  rows[i].number < rows[j].number
      BY <2>1
    <3>1. G - L + i < G - L + j
      BY <2>1
    <3> QED BY <2>2, <3>1 DEF IInv, History
  <2>4. Numbers(rows) = Last(given, L)
    <3>1. Numbers(rows) = [i \in 1..L |-> rows[i].number]
      BY <2>1 DEF Numbers
    <3>2. /\ AnySeq(Last(given, L)) /\ Len(Last(given, L)) = L
          /\ \A i \in 1..L : Last(given, L)[i] = given[G - L + i]
      BY <2>1, EndOf DEF IInv, History
    <3>3. AnySeq(Numbers(rows)) /\ Len(Numbers(rows)) = L
      BY <2>1, <3>1, ByPlace
    <3>4. \A i \in 1..L : Numbers(rows)[i] = Last(given, L)[i]
      BY <2>2, <3>1, <3>2
    <3> HIDE DEF L, G
    <3>5. PICK S : Numbers(rows) \in Seq(S)
      BY <3>3 DEF AnySeq
    <3>6. PICK T : Last(given, L) \in Seq(T)
      BY <3>2 DEF AnySeq
    <3> DEFINE U == S \cup T
    <3>7. Numbers(rows) \in Seq(U) /\ Last(given, L) \in Seq(U)
      BY <3>5, <3>6, SeqMonotonic
    <3> HIDE DEF U
    <3> QED BY <3>2, <3>3, <3>4, <3>7, SeqEqual
  <2> QED BY <2>1, <2>3, <2>4 DEF IInv, History, HistoryFaithful
<1> QED BY <1>1, Invariance, PTL

-----------------------------------------------------------------------------
(* Pieces of a SysEx. *)

(* A set of numbers has a smallest one.                                      *)
LEMMA Smallest ==
  ASSUME NEW T \in SUBSET Nat, T # {}
  PROVE  \E x \in T : \A y \in T : x <= y
<1> DEFINE Less == {pair \in Nat \X Nat : pair[1] < pair[2]}
<1>1. IsWellFoundedOn(Less, Nat)
  BY NatLessThanWellFounded DEF OpToRel
<1>2. PICK x \in T : \A y \in T : <<y, x>> \notin Less
  <2> HIDE DEF Less
  <2> QED BY <1>1, WFMin
<1>3. ASSUME NEW y \in T PROVE x <= y
  <2>1. x \in Nat /\ y \in Nat /\ <<y, x>> \notin Less
    BY <1>2
  <2>2. y < x => <<y, x>> \in Less
    <3> SUFFICES ASSUME y < x PROVE <<y, x>> \in Less
      OBVIOUS
    <3> DEFINE pair == <<y, x>>
    <3>1. pair \in Nat \X Nat /\ pair[1] = y /\ pair[2] = x
      BY <2>1
    <3> QED BY <3>1
  <2> HIDE DEF Less
  <2> QED BY <2>1, <2>2
<1> QED BY <1>3

(* What is true at a and passes from each place to the next is true up to b. *)
LEMMA Upward ==
  ASSUME NEW f, NEW a \in Nat, NEW b \in Nat, f[a] = TRUE,
         \A i \in a..b : i < b /\ f[i] = TRUE => f[i + 1] = TRUE
  PROVE  \A i \in a..b : f[i] = TRUE
<1> DEFINE T == {i \in a..b : f[i] # TRUE}
<1> SUFFICES ASSUME T # {} PROVE FALSE
  OBVIOUS
<1>1. T \in SUBSET Nat
  <2>1. \A i \in a..b : i \in Nat
    OBVIOUS
  <2> QED BY <2>1
<1>2. PICK x \in T : \A y \in T : x <= y
  <2> HIDE DEF T
  <2> QED BY <1>1, Smallest
<1>3. x \in a..b /\ f[x] # TRUE /\ x # a
  OBVIOUS
<1>4. x - 1 \in a..b /\ x - 1 < b /\ (x - 1) + 1 = x /\ ~(x <= x - 1)
  BY <1>3
<1>5. f[x - 1] = TRUE
  BY <1>2, <1>4
<1> QED BY <1>3, <1>4, <1>5

(* A start opens a SysEx, other messages keep it open.                       *)
Opens(m)   == m = Midi1(240, FALSE)
Carries(m) == Classified(m, TRUE).open = TRUE

LEMMA Opened ==
  ASSUME NEW m, Opens(m), NEW o
  PROVE  Classified(m, o).open = TRUE
<1>1. m.form = "midi1" /\ m.first = 240 /\ m.ends = FALSE
  BY DEF Opens, Midi1
<1> QED BY <1>1 DEF Classified

(* A data byte of an open SysEx is listed as such.                           *)
LEMMA DataIsSysEx ==
  ASSUME NEW m, IsData(m)
  PROVE  Classified(m, TRUE).category = "sysex"
BY DEF Classified, IsData

(* A batch that is carried up to its place t. *)
CarriedTo(events, t) ==
  \/ open = TRUE /\ \A i \in 1..t : Carries(events[i].message)
  \/ \E j \in 1..t : /\ Opens(events[j].message)
                     /\ \A i \in 1..t : i > j => Carries(events[i].message)

(* A step of the classifier over the first n messages of a batch. *)
Steps(events, n, f) ==
  f = [i \in 0..n |-> IF i = 0 THEN open ELSE Classified(events[i].message, f[i - 1]).open]

(* Each place is defined by the one before, so there is such a function.     *)
LEMMA StepsExist ==
  ASSUME NEW events, NEW N \in Nat
  PROVE  \E f : Steps(events, N, f)
<1> DEFINE T == {n \in Nat : ~\E f : Steps(events, n, f)}
<1> SUFFICES ASSUME T # {} PROVE FALSE
  OBVIOUS
<1>1. PICK n \in T : \A m \in T : n <= m
  <2>1. T \in SUBSET Nat
    OBVIOUS
  <2> HIDE DEF T
  <2> QED BY <2>1, Smallest
<1>2. n \in Nat /\ ~\E f : Steps(events, n, f)
  OBVIOUS
<1>3. CASE n = 0
  <2> DEFINE f == [i \in 0..n |-> open]
  <2>1. f = [i \in 0..n |->
              IF i = 0 THEN open ELSE Classified(events[i].message, f[i - 1]).open]
    <3>1. \A i \in 0..n : i = 0
      BY <1>3
    <3> QED BY <3>1
  <2>2. Steps(events, n, f)
    BY <2>1 DEF Steps
  <2> HIDE DEF f
  <2> QED BY <1>2, <2>2
<1>4. CASE n # 0
  <2>1. n - 1 \in Nat /\ ~(n <= n - 1)
    BY <1>2, <1>4
  <2>2. PICK g : Steps(events, n - 1, g)
    BY <1>1, <2>1
  <2>3. \A i \in 0..(n - 1) :
          g[i] = IF i = 0 THEN open ELSE Classified(events[i].message, g[i - 1]).open
    BY <2>2 DEF Steps
  <2> DEFINE last == Classified(events[n].message, g[n - 1]).open
             f == [i \in 0..n |-> IF i = n THEN last ELSE g[i]]
  <2>4. ASSUME NEW i \in 0..n
        PROVE  (IF i = n THEN last ELSE g[i]) =
                 IF i = 0 THEN open ELSE Classified(events[i].message, f[i - 1]).open
    <3> HIDE DEF last
    <3>1. CASE i = n
      <4>1. i # 0 /\ i - 1 \in 0..n /\ i - 1 # n /\ i - 1 = n - 1
        BY <1>2, <1>4, <3>1
      <4>2. f[i - 1] = g[n - 1]
        BY <4>1
      <4> QED BY <3>1, <4>1, <4>2 DEF last
    <3>2. CASE i # n
      <4>1. i \in 0..(n - 1)
        BY <1>2, <3>2
      <4>2. i # 0 => f[i - 1] = g[i - 1]
        <5>1. i # 0 => i - 1 \in 0..n /\ i - 1 # n
          BY <1>2, <3>2
        <5> QED BY <5>1
      <4> HIDE DEF f
      <4> QED BY <2>3, <3>2, <4>1, <4>2
    <3> QED BY <3>1, <3>2
  <2>5. f = [i \in 0..n |->
              IF i = 0 THEN open ELSE Classified(events[i].message, f[i - 1]).open]
    <3> HIDE DEF last
    <3>1. f = [i \in 0..n |-> IF i = n THEN last ELSE g[i]]
      OBVIOUS
    <3> HIDE DEF f
    <3> QED BY <2>4, <3>1
  <2>6. Steps(events, n, f)
    BY <2>5 DEF Steps
  <2> HIDE DEF f
  <2> QED BY <1>2, <2>6
<1> QED BY <1>3, <1>4

(* What a batch makes of a SysEx that is carried up to its place t.          *)
LEMMA BatchOpen ==
  ASSUME NEW events, AnySeq(events), NEW t \in 0..Len(events), CarriedTo(events, t)
  PROVE  /\ t = Len(events) => ClassifiedAll(events).open = TRUE
         /\ \A i \in 1..Len(events) : i = t + 1 /\ IsData(events[i].message)
              => ClassifiedAll(events).category[i] = "sysex"
<1> DEFINE N == Len(events)
<1>1. N \in Nat /\ DOMAIN events = 1..N
  BY DEF AnySeq
<1> DEFINE upTo[i \in 0..Len(events)] ==
             IF i = 0 THEN open ELSE Classified(events[i].message, upTo[i - 1]).open
<1>2. /\ ClassifiedAll(events).category =
           [i \in DOMAIN events |-> Classified(events[i].message, upTo[i - 1]).category]
      /\ ClassifiedAll(events).open = upTo[Len(events)]
  BY DEF ClassifiedAll
<1>3. upTo = [i \in 0..Len(events) |->
               IF i = 0 THEN open ELSE Classified(events[i].message, upTo[i - 1]).open]
  <2>1. \E f : f = [i \in 0..Len(events) |->
                      IF i = 0 THEN open ELSE Classified(events[i].message, f[i - 1]).open]
    BY <1>1, StepsExist DEF Steps
  <2> QED BY <2>1, Zenon
<1> HIDE DEF upTo
<1>4. upTo[0] = open
  BY <1>1, <1>3
<1>5. \A i \in 1..N : upTo[i] = Classified(events[i].message, upTo[i - 1]).open
  BY <1>1, <1>3
<1>6. ASSUME NEW s \in 0..t, upTo[s] = TRUE,
             \A i \in 1..t : i > s => Carries(events[i].message)
      PROVE  upTo[t] = TRUE
  <2>1. t \in Nat /\ s \in Nat /\ t <= N
    BY <1>1
  <2>2. ASSUME NEW i \in s..t, i < t /\ upTo[i] = TRUE PROVE upTo[i + 1] = TRUE
    <3>1. i + 1 \in 1..N /\ i + 1 \in 1..t /\ i + 1 > s /\ (i + 1) - 1 = i
      BY <2>1, <2>2
    <3>2. Carries(events[i + 1].message)
      BY <1>6, <3>1
    <3>3. upTo[i + 1] = Classified(events[i + 1].message, upTo[i]).open
      BY <1>5, <3>1
    <3> QED BY <2>2, <3>2, <3>3 DEF Carries
  <2>3. \A i \in s..t : upTo[i] = TRUE
    BY <1>6, <2>1, <2>2, Upward
  <2> QED BY <2>1, <2>3
<1>7. upTo[t] = TRUE
  <2>1. CASE open = TRUE /\ \A i \in 1..t : Carries(events[i].message)
    <3>1. 0 \in 0..t /\ upTo[0] = TRUE /\ \A i \in 1..t : Carries(events[i].message)
      BY <1>1, <1>4, <2>1
    <3> QED BY <1>6, <3>1
  <2>2. CASE \E j \in 1..t : /\ Opens(events[j].message)
                             /\ \A i \in 1..t : i > j => Carries(events[i].message)
    <3>1. PICK j \in 1..t : /\ Opens(events[j].message)
                            /\ \A i \in 1..t : i > j => Carries(events[i].message)
      BY <2>2
    <3>2. j \in 1..N /\ j \in 0..t
      BY <1>1
    <3>3. upTo[j] = TRUE
      BY <1>5, <3>1, <3>2, Opened
    <3> QED BY <1>6, <3>1, <3>2, <3>3
  <2> QED BY <2>1, <2>2 DEF CarriedTo
<1>8. ASSUME NEW i \in 1..N, i = t + 1, IsData(events[i].message)
      PROVE  ClassifiedAll(events).category[i] = "sysex"
  <2>1. i - 1 = t
    BY <1>8
  <2>2. ClassifiedAll(events).category[i] = Classified(events[i].message, upTo[t]).category
    BY <1>1, <1>2, <2>1
  <2> QED BY <1>7, <1>8, <2>2, DataIsSysEx
<1> QED BY <1>2, <1>7, <1>8

(* All that came since b and is not in the queue yet or any more was seen. *)
Caught(b) ==
  \A n \in b..arrived : n \in seen \/ (Len(queue) > 0 /\ queue[1].number <= n)

(* What precedes the k-th place of the queue keeps a SysEx open that began   *)
(* with b, and if b was shown and nothing is missing since, it is open.      *)
Threaded(b, k) ==
  /\ \A j \in 1..Len(queue) : j < k =>
       /\ queue[j].number = b => Opens(queue[j].message)
       /\ queue[j].number > b => Carries(queue[j].message)
  /\ b \in seen /\ Caught(b) => open = TRUE

QueuedPiece(i) ==
  IsData(queue[i].message) /\ queue[i].begun # None =>
    queue[i].begun \in 1..(queue[i].number - 1) /\ Threaded(queue[i].begun, i)

Pieces ==
  /\ piece \in 0..arrived
  /\ piece # None => Threaded(piece, Len(queue) + 1)
  /\ \A i \in 1..Len(queue) : QueuedPiece(i)

(* What a message and a piece do to an open SysEx.                           *)
LEMMA KeepsOpen ==
  ASSUME NEW m, m.form = "midi1" => ~IsData(m) /\ m.first # 240 /\ m.first \notin 128..247
  PROVE  Carries(m)
<1>1. ~(m.form = "midi1" /\ (m.first = 240 \/ IsData(m)))
  OBVIOUS
<1>2. ~(m.form = "midi1" /\ m.first = 247)
  BY 247 \in 128..247
<1>3. ~(m.form = "midi1" /\ m.first \in 128..247)
  OBVIOUS
<1> QED BY <1>1, <1>2, <1>3 DEF Carries, Classified

LEMMA PieceCarries ==
  ASSUME NEW m, m = Midi1(0, FALSE)
  PROVE  Carries(m)
<1>1. m.form = "midi1" /\ m.first = 0 /\ m.ends = FALSE
  BY DEF Midi1
<1>2. IsData(m)
  BY <1>1 DEF IsData, Midi1
<1> QED BY <1>1, <1>2 DEF Carries, Classified, Midi1

LEMMA StartIsNoData ==
  ASSUME NEW m, m = Midi1(240, FALSE)
  PROVE  ~IsData(m)
<1>1. m.first = 240
  BY DEF Midi1
<1> QED BY <1>1 DEF IsData, Midi1

LEMMA OthersCarry ==
  ASSUME NEW m \in Messages, m.form = "ump" \/ IsRealtime(m)
  PROVE  Carries(m)
<1>1. CASE m.form = "ump"
  BY <1>1, KeepsOpen
<1>2. CASE IsRealtime(m)
  <2>1. m.form = "midi1" /\ m.first \in 0..255 /\ m.first >= 248
    BY <1>2, MonitorAssumption DEF IsRealtime
  <2>2. m.first # 240 /\ ~IsData(m) /\ m.first \notin 128..247
    BY <2>1 DEF IsData
  <2> QED BY <2>2, KeepsOpen
<1> QED BY <1>1, <1>2

(* A message arrives behind what is queued.                                  *)
LEMMA ArrivalThreads ==
  ASSUME IInv, NEW message, NEW begun, Arrive(message, begun),
         NEW b \in 1..arrived, NEW k \in 1..(Len(queue) + 1), Threaded(b, k)
  PROVE  /\ Threaded(b, k)'
         /\ k = Len(queue) + 1 /\ Carries(message) => Threaded(b, Len(queue) + 1)'
<1> DEFINE event == [number |-> arrived + 1, message |-> message, begun |-> begun]
<1>1. /\ arrived' = arrived + 1 /\ seen' = seen /\ open' = open
      /\ queue' = queue \/ queue' = Append(queue, event)
  BY DEF Arrive, modelVars, Push, queueVars
<1>2. event.number = arrived + 1 /\ event.message = message
  OBVIOUS
<1> HIDE DEF event
<1>3. /\ arrived \in Nat /\ Len(queue) \in Nat
      /\ \A i \in 1..Len(queue) : queue[i].number \in 1..arrived
      /\ \A n \in seen : n \in 1..arrived
  BY DEF IInv, Line, Counts, Shown
<1>4. /\ Len(queue') \in {Len(queue), Len(queue) + 1}
      /\ \A i \in 1..Len(queue) : queue'[i] = queue[i]
      /\ Len(queue') = Len(queue) + 1 => queue'[Len(queue) + 1] = event
  <2>1. CASE queue' = queue
    BY <1>3, <2>1
  <2>2. CASE queue' = Append(queue, event)
    <3>1. /\ Len(queue') = Len(queue) + 1
          /\ \A i \in 1..(Len(queue) + 1) : queue'[i] = IF i <= Len(queue) THEN queue[i] ELSE event
      BY <2>2, OneMore DEF IInv, Line
    <3>2. Len(queue) + 1 \in 1..(Len(queue) + 1) /\ ~(Len(queue) + 1 <= Len(queue))
          /\ \A i \in 1..Len(queue) : i \in 1..(Len(queue) + 1) /\ i <= Len(queue)
      BY <1>3
    <3> QED BY <3>1, <3>2
  <2> QED BY <1>1, <2>1, <2>2
<1>5. Caught(b)' => Caught(b)
  <2> SUFFICES ASSUME Caught(b)', NEW n \in b..arrived, n \notin seen
               PROVE  Len(queue) > 0 /\ queue[1].number <= n
    BY DEF Caught
  <2>1. n \in b..arrived'
    BY <1>1, <1>3
  <2>2. Len(queue') > 0 /\ queue'[1].number <= n
    BY <1>1, <2>1 DEF Caught
  <2>3. CASE Len(queue) = 0
    <3>1. queue'[1] = event
      BY <1>3, <1>4, <2>2, <2>3
    <3> QED BY <1>2, <1>3, <2>2, <3>1
  <2>4. CASE Len(queue) > 0
    <3>1. queue'[1] = queue[1]
      BY <1>3, <1>4, <2>4
    <3> QED BY <2>2, <2>4, <3>1
  <2> QED BY <1>3, <2>3, <2>4
<1>6. b \in seen' /\ Caught(b)' => open' = TRUE
  BY <1>1, <1>5 DEF Threaded
<1>7. \A j \in 1..Len(queue) : j < k =>
        /\ queue'[j].number = b => Opens(queue'[j].message)
        /\ queue'[j].number > b => Carries(queue'[j].message)
  BY <1>4 DEF Threaded
<1>8. Threaded(b, k)'
  <2>1. \A j \in 1..Len(queue') : j < k => j \in 1..Len(queue)
    BY <1>3, <1>4
  <2>2. \A j \in 1..Len(queue') : j < k =>
          /\ queue'[j].number = b => Opens(queue'[j].message)
          /\ queue'[j].number > b => Carries(queue'[j].message)
    BY <1>7, <2>1
  <2> QED BY <1>6, <2>2 DEF Threaded
<1>9. ASSUME k = Len(queue) + 1, Carries(message) PROVE Threaded(b, Len(queue) + 1)'
  <2>1. ASSUME NEW j \in 1..Len(queue')
        PROVE  /\ queue'[j].number = b => Opens(queue'[j].message)
               /\ queue'[j].number > b => Carries(queue'[j].message)
    <3>1. CASE j \in 1..Len(queue)
      <4>1. j < k
        BY <1>3, <1>9, <3>1
      <4> QED BY <1>7, <3>1, <4>1
    <3>2. CASE j \notin 1..Len(queue)
      <4>1. queue'[j] = event
        BY <1>3, <1>4, <3>2
      <4> QED BY <1>2, <1>3, <1>9, <4>1
    <3> QED BY <3>1, <3>2
  <2> QED BY <1>6, <2>1 DEF Threaded
<1> QED BY <1>8, <1>9

(* What is queued stays threaded, what arrives must be.                      *)
LEMMA ArrivalQueued ==
  ASSUME IInv, Pieces, NEW message, NEW begun, Arrive(message, begun),
         IsData(message) /\ begun # None =>
           begun \in 1..arrived /\ Threaded(begun, Len(queue) + 1)
  PROVE  \A i \in 1..Len(queue') : QueuedPiece(i)'
<1> DEFINE event == [number |-> arrived + 1, message |-> message, begun |-> begun]
<1>1. queue' = queue \/ queue' = Append(queue, event)
  BY DEF Arrive, Push, queueVars
<1>2. event.number = arrived + 1 /\ event.message = message /\ event.begun = begun
  OBVIOUS
<1> HIDE DEF event
<1>3. /\ arrived \in Nat /\ Len(queue) \in Nat
      /\ \A i \in 1..Len(queue) : queue[i].number \in 1..arrived
  BY DEF IInv, Line, Counts
<1>4. ASSUME NEW i \in 1..Len(queue), queue'[i] = queue[i],
             IsData(queue'[i].message) /\ queue'[i].begun # None
      PROVE  QueuedPiece(i)'
  <2>1. PICK b : b = queue[i].begun
    OBVIOUS
  <2>2. b \in 1..(queue[i].number - 1) /\ Threaded(b, i)
    BY <1>4, <2>1 DEF Pieces, QueuedPiece
  <2>3. b \in 1..arrived /\ i \in 1..(Len(queue) + 1)
    BY <1>3, <2>2
  <2>4. Threaded(b, i)'
    BY <2>2, <2>3, ArrivalThreads
  <2>5. queue'[i].begun = b
    BY <1>4, <2>1
  <2> QED BY <1>4, <2>2, <2>4, <2>5 DEF QueuedPiece, Threaded, Caught
<1>5. CASE queue' = queue
  BY <1>4, <1>5 DEF QueuedPiece
<1>6. CASE queue' = Append(queue, event)
  <2>1. /\ Len(queue') = Len(queue) + 1
        /\ \A i \in 1..(Len(queue) + 1) : queue'[i] = IF i <= Len(queue) THEN queue[i] ELSE event
    BY <1>6, OneMore DEF IInv, Line
  <2>2. \A i \in 1..Len(queue') : \/ i \in 1..Len(queue) /\ queue'[i] = queue[i]
                                  \/ i = Len(queue) + 1 /\ queue'[i] = event
    BY <1>3, <2>1
  <2>3. ASSUME NEW i \in 1..Len(queue'), i = Len(queue) + 1, queue'[i] = event,
               IsData(queue'[i].message) /\ queue'[i].begun # None
        PROVE  QueuedPiece(i)'
    <3>1. begun \in 1..arrived /\ Threaded(begun, Len(queue) + 1)
      BY <1>2, <2>3
    <3>2. i \in 1..(Len(queue) + 1) /\ Threaded(begun, i)
      BY <1>3, <2>3, <3>1
    <3>3. PICK b : b = begun
      OBVIOUS
    <3>4. Threaded(b, i)'
      BY <3>1, <3>2, <3>3, ArrivalThreads
    <3>5. queue'[i].begun = b /\ queue'[i].number = arrived + 1
      BY <1>2, <2>3, <3>3
    <3>6. b \in 1..(queue'[i].number - 1)
      BY <1>3, <3>1, <3>3, <3>5
    <3> QED BY <3>4, <3>5, <3>6 DEF QueuedPiece, Threaded, Caught
  <2> QED BY <1>4, <2>2, <2>3 DEF QueuedPiece
<1> QED BY <1>1, <1>5, <1>6

(* The device goes on, ends or begins a SysEx.                               *)
LEMMA ArrivalPieces ==
  ASSUME IInv, Pieces, Transport
  PROVE  Pieces'
<1>1. arrived \in Nat /\ Len(queue) \in Nat /\ piece \in 0..arrived /\ seen \subseteq 1..arrived
  BY DEF IInv, Line, Counts, Shown, Pieces
<1>2. piece # None => piece \in 1..arrived /\ Threaded(piece, Len(queue) + 1)
  BY <1>1 DEF Pieces, None
<1>3. ASSUME NEW message, Arrive(message, None)
      PROVE  \A i \in 1..Len(queue') : QueuedPiece(i)'
  BY <1>3, ArrivalQueued
<1>4. ASSUME NEW message, NEW begun, Arrive(message, begun), piece # None, Carries(message),
             piece' = piece
      PROVE  Threaded(piece, Len(queue) + 1)'
  <2>1. PICK b : b = piece
    OBVIOUS
  <2>2. b \in 1..arrived /\ Threaded(b, Len(queue) + 1) /\ Len(queue) + 1 \in 1..(Len(queue) + 1)
    BY <1>1, <1>2, <1>4, <2>1
  <2>3. Threaded(b, Len(queue) + 1)'
    BY <1>4, <2>2, ArrivalThreads
  <2> QED BY <1>4, <2>1, <2>3 DEF Threaded, Caught
<1>5. CASE ArriveStart
  <2>1. Arrive(Midi1(240, FALSE), arrived + 1) /\ piece' = arrived + 1 /\ arrived' = arrived + 1
    BY <1>5 DEF ArriveStart, Arrive
  <2>2. PICK m : m = Midi1(240, FALSE)
    OBVIOUS
  <2>3. ~IsData(m) /\ Opens(m)
    BY <2>2, StartIsNoData DEF Opens
  <2>4. \A i \in 1..Len(queue') : QueuedPiece(i)'
    BY <2>1, <2>2, <2>3, ArrivalQueued
  <2>5. PICK b : b = arrived + 1
    OBVIOUS
  <2>6. Threaded(b, Len(queue) + 1)'
    <3> DEFINE event == [number |-> arrived + 1, message |-> m, begun |-> arrived + 1]
    <3>1. seen' = seen /\ (queue' = queue \/ queue' = Append(queue, event))
      BY <2>1, <2>2 DEF Arrive, Push, queueVars, modelVars
    <3>2. event.number = b /\ event.message = m
      BY <2>5
    <3> HIDE DEF event
    <3>3. b \notin seen'
      BY <1>1, <2>5, <3>1
    <3>4. \A j \in 1..Len(queue) : queue[j].number < b
      BY <1>1, <2>5 DEF IInv, Line
    <3>5. \A j \in 1..Len(queue') : queue'[j] = event \/ (j \in 1..Len(queue) /\ queue'[j] = queue[j])
      <4>1. CASE queue' = queue
        BY <4>1
      <4>2. CASE queue' = Append(queue, event)
        <5>1. /\ Len(queue') = Len(queue) + 1
              /\ \A i \in 1..(Len(queue) + 1) :
                   queue'[i] = IF i <= Len(queue) THEN queue[i] ELSE event
          BY <4>2, OneMore DEF IInv, Line
        <5> QED BY <1>1, <5>1
      <4> QED BY <3>1, <4>1, <4>2
    <3>6. ASSUME NEW j \in 1..Len(queue')
          PROVE  /\ queue'[j].number = b => Opens(queue'[j].message)
                 /\ queue'[j].number > b => Carries(queue'[j].message)
      <4>1. CASE queue'[j] = event
        <5>1. ~(b > b)
          BY <1>1, <2>5
        <5> QED BY <2>3, <3>2, <4>1, <5>1
      <4>2. CASE j \in 1..Len(queue) /\ queue'[j] = queue[j]
        <5>1. queue[j].number < b /\ queue[j].number \in Nat /\ b \in Nat
          BY <1>1, <2>5, <3>4, <4>2 DEF IInv, Line
        <5>2. queue[j].number # b /\ ~(queue[j].number > b)
          BY <5>1
        <5> QED BY <4>2, <5>2
      <4> QED BY <3>5, <4>1, <4>2
    <3> QED BY <3>3, <3>6 DEF Threaded
  <2>7. piece' \in 0..arrived' /\ piece' = b
    BY <1>1, <2>1, <2>5
  <2> QED BY <2>4, <2>6, <2>7 DEF Pieces, Threaded, Caught
<1>6. CASE ArriveMessage
  <2>1. PICK m \in Messages :
          /\ Arrive(m, None)
          /\ piece' = IF m.form = "ump" \/ IsRealtime(m) THEN piece ELSE None
    BY <1>6 DEF ArriveMessage
  <2>2. arrived' = arrived + 1 /\ piece' \in 0..arrived'
    BY <1>1, <2>1 DEF Arrive, None
  <2>3. piece' # None => piece # None /\ piece' = piece /\ Carries(m)
    BY <2>1, OthersCarry
  <2>4. piece' # None => Threaded(piece, Len(queue) + 1)'
    BY <1>4, <2>1, <2>3
  <2> QED BY <1>3, <2>1, <2>2, <2>4 DEF Pieces
<1>7. CASE \E ends \in BOOLEAN : ArrivePiece(ends)
  <2>1. PICK ends \in BOOLEAN : ArrivePiece(ends)
    BY <1>7
  <2>2. PICK m : m = Midi1(0, ends)
    OBVIOUS
  <2>3. /\ piece # None /\ Arrive(m, piece) /\ arrived' = arrived + 1
        /\ piece' = IF ends THEN None ELSE piece
    BY <2>1, <2>2 DEF ArrivePiece, Arrive
  <2>4. \A i \in 1..Len(queue') : QueuedPiece(i)'
    BY <1>2, <2>3, ArrivalQueued
  <2>5. piece' \in 0..arrived'
    BY <1>1, <2>3 DEF None
  <2>6. piece' # None => Threaded(piece, Len(queue) + 1)'
    <3> SUFFICES ASSUME piece' # None PROVE Threaded(piece, Len(queue) + 1)'
      OBVIOUS
    <3>1. ends = FALSE /\ piece' = piece
      BY <2>1, <2>3
    <3>2. Carries(m)
      BY <2>2, <3>1, PieceCarries
    <3> QED BY <1>4, <2>3, <3>1, <3>2
  <2> QED BY <2>4, <2>5, <2>6 DEF Pieces
<1> QED BY <1>5, <1>6, <1>7 DEF Transport

(* The front of the queue keeps open what it carries.                        *)
LEMMA CarriedFrom ==
  ASSUME IInv, NEW t \in 0..Len(queue), NEW events, \A i \in 1..t : events[i] = queue[i],
         NEW b \in Nat, Threaded(b, t + 1),
         (b \in seen /\ Caught(b)) \/ (\E j \in 1..t : queue[j].number = b)
  PROVE  CarriedTo(events, t)
<1>1. /\ Len(queue) \in Nat /\ t \in Nat /\ t <= Len(queue)
      /\ \A i \in 1..Len(queue) : queue[i].number \in Nat
      /\ \A i, j \in 1..Len(queue) : i < j => queue[i].number < queue[j].number
      /\ \A n \in seen : n \in Nat /\ \A i \in 1..Len(queue) : n < queue[i].number
  <2>1. Len(queue) \in Nat /\ t \in Nat /\ t <= Len(queue)
    BY DEF IInv, Counts
  <2>2. /\ \A i \in 1..Len(queue) : queue[i].number \in Nat
        /\ \A i, j \in 1..Len(queue) : i < j => queue[i].number < queue[j].number
    BY DEF IInv, Line, Growing
  <2>3. \A n \in seen : n \in Nat /\ \A i \in 1..Len(queue) : n < queue[i].number
    BY DEF IInv, Shown
  <2> QED BY <2>1, <2>2, <2>3
<1>2. \A i \in 1..t : i \in 1..Len(queue) /\ i < t + 1
  BY <1>1
<1>3. \A i \in 1..t : /\ queue[i].number = b => Opens(events[i].message)
                      /\ queue[i].number > b => Carries(events[i].message)
  BY <1>2 DEF Threaded
<1>4. CASE b \in seen /\ Caught(b)
  <2>1. open = TRUE
    BY <1>4 DEF Threaded
  <2>2. \A i \in 1..t : queue[i].number > b
    BY <1>1, <1>2, <1>4
  <2> QED BY <1>3, <2>1, <2>2 DEF CarriedTo
<1>5. CASE \E j \in 1..t : queue[j].number = b
  <2>1. PICK j \in 1..t : queue[j].number = b
    BY <1>5
  <2>2. \A i \in 1..t : i > j => queue[i].number > b
    BY <1>1, <1>2, <2>1
  <2> QED BY <1>3, <2>1, <2>2 DEF CarriedTo
<1> QED BY <1>4, <1>5

(* A row is of before or of the batch, and so is its category.               *)
LEMMA BatchRows ==
  ASSUME History, NEW events, AnySeq(events), AppendBatch(events)
  PROVE  \A i \in 1..Len(rows') :
           \/ \E h \in 1..Len(rows) : rows'[i] = rows[h] /\ categories'[i] = categories[h]
           \/ \E t \in 1..Len(events) :
                /\ rows'[i] = events[t]
                /\ categories'[i] = ClassifiedAll(events).category[t]
<1> DEFINE L == Len(rows)
           N == Len(events)
           kinds == ClassifiedAll(events).category
           overflow == IF L + N > limit THEN L + N - limit ELSE 0
           k == L - overflow
<1>1. /\ L \in Nat /\ N \in Nat /\ limit \in Nat \ {0} /\ L <= limit /\ Len(categories) = L
      /\ AnySeq(rows) /\ AnySeq(categories)
  BY DEF History, AnySeq
<1>2. AnySeq(kinds) /\ Len(kinds) = N
  BY BatchCategories
<1>3. CASE N >= limit
  <2>1. rows' = Last(events, limit) /\ categories' = Last(kinds, limit)
    BY <1>1, <1>3 DEF AppendBatch
  <2>2. /\ Len(rows') = limit
        /\ \A i \in 1..limit : rows'[i] = events[N - limit + i]
    BY <1>1, <1>3, <2>1, EndOf
  <2>3. \A i \in 1..limit : categories'[i] = kinds[N - limit + i]
    <3> HIDE DEF kinds, N
    <3>1. limit \in Nat /\ limit <= Len(kinds)
      BY <1>1, <1>2, <1>3
    <3>2. \A i \in 1..limit : Last(kinds, limit)[i] = kinds[Len(kinds) - limit + i]
      BY <1>2, <3>1, EndOf
    <3> QED BY <1>2, <2>1, <3>2
  <2>4. \A i \in 1..limit : N - limit + i \in 1..N
    BY <1>1, <1>3
  <2> HIDE DEF kinds
  <2> QED BY <2>2, <2>3, <2>4 DEF kinds
<1>4. CASE ~(N >= limit)
  <2>1. k \in Nat /\ k <= L /\ k + N <= limit
    BY <1>1, <1>4
  <2>2. rows' = Last(rows, k) \o events /\ categories' = Last(categories, k) \o kinds
    BY <1>4 DEF AppendBatch
  <2> HIDE DEF k, kinds
  <2> DEFINE oldRows == Last(rows, k)
             oldKinds == Last(categories, k)
  <2>3. /\ AnySeq(oldRows) /\ Len(oldRows) = k
        /\ \A i \in 1..k : oldRows[i] = rows[L - k + i]
    BY <1>1, <2>1, EndOf
  <2>4. /\ AnySeq(oldKinds) /\ Len(oldKinds) = k
        /\ \A i \in 1..k : oldKinds[i] = categories[L - k + i]
    <3> HIDE DEF L
    <3>1. k <= Len(categories)
      BY <1>1, <2>1
    <3>2. /\ AnySeq(Last(categories, k)) /\ Len(Last(categories, k)) = k
          /\ \A i \in 1..k : Last(categories, k)[i] = categories[Len(categories) - k + i]
      BY <1>1, <2>1, <3>1, EndOf
    <3> QED BY <1>1, <3>2
  <2> HIDE DEF oldRows, oldKinds
  <2>5. /\ Len(rows') = k + N
        /\ \A i \in 1..(k + N) : rows'[i] = IF i <= k THEN oldRows[i] ELSE events[i - k]
    <3> HIDE DEF N
    <3>1. rows' = oldRows \o events /\ Len(events) = N
      BY <2>2 DEF oldRows, N
    <3>2. /\ Len(oldRows \o events) = Len(oldRows) + Len(events)
          /\ \A i \in 1..(Len(oldRows) + Len(events)) :
               (oldRows \o events)[i] = IF i <= Len(oldRows) THEN oldRows[i]
                                        ELSE events[i - Len(oldRows)]
      BY <2>3, Chained
    <3> QED BY <2>3, <3>1, <3>2
  <2>6. \A i \in 1..(k + N) : categories'[i] = IF i <= k THEN oldKinds[i] ELSE kinds[i - k]
    <3> HIDE DEF N
    <3>1. categories' = oldKinds \o kinds
      BY <2>2 DEF oldKinds
    <3>2. \A i \in 1..(Len(oldKinds) + Len(kinds)) :
            (oldKinds \o kinds)[i] = IF i <= Len(oldKinds) THEN oldKinds[i]
                                     ELSE kinds[i - Len(oldKinds)]
      BY <1>2, <2>4, Chained
    <3> QED BY <1>2, <2>4, <3>1, <3>2
  <2>7. ASSUME NEW i \in 1..(k + N), i <= k
        PROVE  \E h \in 1..L : rows'[i] = rows[h] /\ categories'[i] = categories[h]
    <3>1. i \in 1..k /\ L - k + i \in 1..L
      BY <1>1, <2>1, <2>7
    <3>2. rows'[i] = rows[L - k + i] /\ categories'[i] = categories[L - k + i]
      BY <2>3, <2>4, <2>5, <2>6, <2>7, <3>1
    <3> QED BY <3>1, <3>2
  <2>8. ASSUME NEW i \in 1..(k + N), ~(i <= k)
        PROVE  \E t \in 1..N : rows'[i] = events[t] /\ categories'[i] = kinds[t]
    <3>1. i - k \in 1..N
      BY <1>1, <2>1, <2>8
    <3> QED BY <2>5, <2>6, <2>8, <3>1
  <2> QED BY <2>5, <2>7, <2>8 DEF kinds
<1> QED BY <1>3, <1>4

(* A tick takes the front of the queue to the model, or discards it.         *)
LEMMA DrainPieces ==
  ASSUME IInv, IInv', Pieces, PiecesListed, DrainOnce
  PROVE  Pieces' /\ PiecesListed'
<1> DEFINE taken == Smaller(BatchLimit, Len(queue))
           events == SubSeq(queue, 1, taken)
           numbers == {events[i].number : i \in DOMAIN events}
<1>1. /\ queue' = SubSeq(queue, taken + 1, Len(queue)) /\ arrived' = arrived /\ piece' = piece
      /\ paused => UNCHANGED modelVars
      /\ ~paused => /\ AppendBatch(events)
                    /\ seen' = seen \cup numbers
  BY DEF DrainOnce
<1>2. taken \in 1..Len(queue)
  BY MonitorAssumption DEF DrainOnce, Smaller, IInv, Counts
<1> HIDE DEF taken
<1>3. /\ AnySeq(events) /\ Len(events) = taken /\ DOMAIN events = 1..taken
      /\ \A i \in 1..taken : events[i] = queue[i]
      /\ Len(queue') = Len(queue) - taken
      /\ \A i \in 1..Len(queue') : taken + i \in 1..Len(queue) /\ queue'[i] = queue[taken + i]
  <2>1. /\ AnySeq(events) /\ Len(events) = taken
        /\ \A i \in 1..taken : events[i] = queue[i]
    BY <1>2, Divided DEF IInv
  <2> DEFINE rest == SubSeq(queue, taken + 1, Len(queue))
  <2>2. /\ Len(rest) = Len(queue) - taken
        /\ \A i \in 1..Len(rest) : taken + i \in 1..Len(queue) /\ rest[i] = queue[taken + i]
    BY <1>2, Divided DEF IInv
  <2>3. queue' = rest
    BY <1>1
  <2> HIDE DEF rest, events
  <2>4. DOMAIN events = 1..taken
    BY <2>1 DEF AnySeq
  <2> QED BY <2>1, <2>2, <2>3, <2>4
<1>4. /\ Len(queue) \in Nat /\ taken \in Nat \ {0} /\ taken <= Len(queue) /\ arrived \in Nat
      /\ 1 \in 1..taken /\ 1 \in 1..Len(queue)
  <2>1. Len(queue) \in Nat /\ arrived \in Nat
    BY DEF IInv, Counts, Line
  <2> QED BY <1>2, <2>1
<1>5. /\ \A i \in 1..Len(queue) : queue[i].number \in 1..arrived
      /\ \A i, j \in 1..Len(queue) : i < j => queue[i].number < queue[j].number
  BY DEF IInv, Line, Growing
<1>6. /\ seen \subseteq 1..arrived
      /\ \A n \in seen : \A i \in 1..Len(queue) : n < queue[i].number
  BY DEF IInv, Shown
<1>7. \A i \in 1..Len(queue) : queue[1].number <= queue[i].number
  <2> SUFFICES ASSUME NEW i \in 1..Len(queue) PROVE queue[1].number <= queue[i].number
    OBVIOUS
  <2>1. i = 1 \/ 1 < i
    OBVIOUS
  <2> QED BY <1>4, <1>5, <2>1
<1>8. \A n : n \in numbers <=> \E j \in 1..taken : n = queue[j].number
  BY <1>3
<1> HIDE DEF events, numbers
(* Nothing of b is missing before what remains: nothing was missing before.  *)
<1>9. ASSUME NEW b \in Nat, Caught(b)', ~paused PROVE Caught(b)
  <2> SUFFICES ASSUME NEW n \in b..arrived, n \notin seen
               PROVE  Len(queue) > 0 /\ queue[1].number <= n
    BY DEF Caught
  <2>1. n \in seen' \/ (Len(queue') > 0 /\ queue'[1].number <= n)
    BY <1>1, <1>9 DEF Caught
  <2>2. CASE n \in seen'
    <3>1. PICK j \in 1..taken : n = queue[j].number
      BY <1>1, <1>8, <1>9, <2>2
    <3> QED BY <1>4, <1>7, <3>1
  <2>3. CASE Len(queue') > 0 /\ queue'[1].number <= n
    <3>1. 1 \in 1..Len(queue')
      BY <1>3, <1>4, <2>3
    <3>2. taken + 1 \in 1..Len(queue) /\ queue'[1] = queue[taken + 1]
      BY <1>3, <3>1
    <3>3. queue[1].number <= queue[taken + 1].number
      BY <1>7, <3>2
    <3>4. queue[1].number \in Nat /\ queue[taken + 1].number \in Nat /\ n \in Int
      BY <1>4, <1>5, <3>2
    <3> QED BY <1>4, <2>3, <3>2, <3>3, <3>4
  <2> QED BY <2>1, <2>2, <2>3
(* What was discarded is missing. *)
<1>10. ASSUME NEW b \in seen, paused PROVE ~Caught(b)'
  <2> SUFFICES ASSUME Caught(b)' PROVE FALSE
    OBVIOUS
  <2>1. PICK n : n = queue[1].number
    OBVIOUS
  <2>2. n \in b..arrived' /\ n \notin seen'
    <3>1. seen' = seen
      BY <1>1, <1>10 DEF modelVars
    <3>2. b < n /\ n \in 1..arrived /\ b \in Nat
      BY <1>4, <1>5, <1>6, <2>1
    <3>3. n \notin seen
      BY <1>4, <1>5, <1>6, <2>1
    <3> QED BY <1>1, <3>1, <3>2, <3>3
  <2>3. Len(queue') > 0 /\ queue'[1].number <= n
    BY <2>2 DEF Caught
  <2>4. 1 \in 1..Len(queue')
    BY <1>3, <1>4, <2>3
  <2>5. taken + 1 \in 1..Len(queue) /\ queue'[1] = queue[taken + 1] /\ 1 < taken + 1
    BY <1>3, <1>4, <2>4
  <2>6. n < queue[taken + 1].number /\ n \in Nat /\ queue[taken + 1].number \in Nat
    BY <1>4, <1>5, <2>1, <2>5
  <2> QED BY <2>3, <2>5, <2>6
<1>11. ASSUME NEW b \in Nat, NEW k \in 1..(Len(queue) + 1), k > taken, Threaded(b, k),
              NEW rest, rest = k - taken
       PROVE  Threaded(b, rest)'
  <2>1. ASSUME NEW j \in 1..Len(queue'), j < rest
        PROVE  /\ queue'[j].number = b => Opens(queue'[j].message)
               /\ queue'[j].number > b => Carries(queue'[j].message)
    <3>1. taken + j \in 1..Len(queue) /\ queue'[j] = queue[taken + j] /\ taken + j < k
      BY <1>3, <1>4, <1>11, <2>1
    <3> QED BY <1>11, <3>1 DEF Threaded
  <2>2. ASSUME b \in seen', Caught(b)' PROVE open' = TRUE
    <3>1. CASE paused
      BY <1>1, <1>10, <2>2, <3>1 DEF modelVars
    <3>2. CASE ~paused
      <4>1. (b \in seen /\ Caught(b)) \/ (\E j \in 1..taken : queue[j].number = b)
        BY <1>1, <1>8, <1>9, <2>2, <3>2
      <4>2. Threaded(b, taken + 1)
        <5>1. \A j \in 1..Len(queue) : j < taken + 1 => j < k
          BY <1>4, <1>11
        <5> QED BY <1>11, <5>1 DEF Threaded
      <4>3. CarriedTo(events, taken)
        <5>1. taken \in 0..Len(queue) /\ \A i \in 1..taken : events[i] = queue[i]
          BY <1>3, <1>4
        <5> QED BY <4>1, <4>2, <5>1, CarriedFrom
      <4>4. ClassifiedAll(events).open = TRUE
        <5>1. taken \in 0..Len(events)
          BY <1>3, <1>4
        <5> QED BY <1>3, <4>3, <5>1, BatchOpen
      <4>5. open' = ClassifiedAll(events).open
        BY <1>1, <3>2 DEF AppendBatch
      <4> QED BY <4>4, <4>5
    <3> QED BY <3>1, <3>2
  <2> QED BY <2>1, <2>2 DEF Threaded
<1>12. ASSUME NEW i \in 1..Len(queue') PROVE QueuedPiece(i)'
  <2> SUFFICES ASSUME IsData(queue'[i].message), queue'[i].begun # None
               PROVE  QueuedPiece(i)'
    BY DEF QueuedPiece
  <2>1. /\ taken + i \in 1..Len(queue) /\ queue'[i] = queue[taken + i]
        /\ taken + i \in 1..(Len(queue) + 1) /\ taken + i > taken /\ i = taken + i - taken
    BY <1>3, <1>4
  <2>2. PICK b : b = queue[taken + i].begun
    OBVIOUS
  <2>3. QueuedPiece(taken + i)
    BY <2>1 DEF Pieces
  <2>4. b \in 1..(queue[taken + i].number - 1) /\ Threaded(b, taken + i)
    BY <2>1, <2>2, <2>3 DEF QueuedPiece
  <2>5. Threaded(b, i)'
    <3>1. PICK k : k = taken + i
      OBVIOUS
    <3>2. /\ k \in 1..(Len(queue) + 1) /\ k > taken /\ i = k - taken
          /\ b \in Nat /\ Threaded(b, k)
      <4>1. queue[taken + i].number \in Nat
        BY <1>4, <1>5, <2>1
      <4>2. b \in Nat
        BY <2>4, <4>1
      <4>3. Threaded(b, k)
        BY <2>4, <3>1
      <4>4. k \in 1..(Len(queue) + 1)
        BY <2>1, <3>1
      <4>5. k > taken /\ i = k - taken
        BY <1>4, <2>1, <3>1
      <4> QED BY <4>2, <4>3, <4>4, <4>5
    <3> QED BY <1>11, <3>2
  <2>6. queue'[i].begun = b /\ queue'[i].number = queue[taken + i].number
    BY <2>1, <2>2
  <2> QED BY <2>4, <2>5, <2>6 DEF QueuedPiece, Threaded, Caught
<1>13. Pieces'
  <2>1. piece' \in 0..arrived'
    BY <1>1 DEF Pieces
  <2>2. piece' # None => Threaded(piece, Len(queue) + 1)'
    <3> SUFFICES ASSUME piece' # None PROVE Threaded(piece, Len(queue) + 1)'
      OBVIOUS
    <3>1. PICK b : b = piece
      OBVIOUS
    <3>2. b \in Nat /\ Threaded(b, Len(queue) + 1)
      BY <1>1, <1>4, <3>1 DEF Pieces
    <3>3. PICK k : k = Len(queue) + 1 - taken
      OBVIOUS
    <3>4. Threaded(b, k)'
      <4>1. PICK n : n = Len(queue) + 1
        OBVIOUS
      <4>2. n \in 1..(Len(queue) + 1) /\ n > taken /\ k = n - taken /\ Threaded(b, n)
        BY <1>4, <3>2, <3>3, <4>1
      <4> QED BY <1>11, <3>2, <4>2
    <3>5. k = Len(queue') + 1 /\ piece' = b
      BY <1>1, <1>3, <1>4, <3>1, <3>3
    <3> QED BY <3>4, <3>5 DEF Threaded, Caught
  <2> QED BY <1>12, <2>1, <2>2 DEF Pieces
<1>14. CASE paused
  BY <1>1, <1>13, <1>14 DEF PiecesListed, modelVars
<1>15. CASE ~paused
  <2>1. /\ AppendBatch(events) /\ seen' = seen \cup numbers
        /\ DOMAIN rows = 1..Len(rows) /\ DOMAIN rows' = 1..Len(rows')
    BY <1>1, <1>15 DEF IInv, History, AnySeq
  <2>2. ASSUME NEW i \in 1..Len(rows'), IsData(rows'[i].message),
               rows'[i].begun..rows'[i].number \subseteq seen'
        PROVE  categories'[i] = "sysex"
    <3>1. \/ \E h \in 1..Len(rows) : rows'[i] = rows[h] /\ categories'[i] = categories[h]
          \/ \E t \in 1..Len(events) :
               /\ rows'[i] = events[t]
               /\ categories'[i] = ClassifiedAll(events).category[t]
      BY <1>3, <2>1, BatchRows DEF IInv
    <3>2. CASE \E h \in 1..Len(rows) : rows'[i] = rows[h] /\ categories'[i] = categories[h]
      <4>1. PICK h \in 1..Len(rows) : rows'[i] = rows[h] /\ categories'[i] = categories[h]
        BY <3>2
      <4>2. rows[h].number \in seen
        <5>1. /\ Len(rows) \in Nat /\ Len(given) \in Nat /\ Len(rows) <= Len(given)
              /\ rows[h].number = given[Len(given) - Len(rows) + h]
          <6>1. AnySeq(rows) /\ AnySeq(given) /\ Len(rows) <= Len(given)
            BY DEF IInv, History
          <6>2. Len(rows) \in Nat /\ Len(given) \in Nat
            BY <6>1 DEF AnySeq
          <6>3. rows[h].number = given[Len(given) - Len(rows) + h]
            BY <4>1 DEF IInv, History
          <6> QED BY <6>1, <6>2, <6>3
        <5>2. Len(given) - Len(rows) + h \in 1..Len(given)
          BY <5>1
        <5> QED BY <5>1, <5>2 DEF IInv, History
      <4>3. rows[h].begun..rows[h].number \subseteq seen
        <5> SUFFICES ASSUME NEW n \in rows[h].begun..rows[h].number, n \notin seen PROVE FALSE
          OBVIOUS
        <5>1. PICK j \in 1..taken : n = queue[j].number
          BY <1>8, <2>1, <2>2, <4>1
        <5>2. rows[h].number < n /\ rows[h].number \in Nat /\ n \in Nat /\ n <= rows[h].number
          <6>1. j \in 1..Len(queue)
            BY <1>4
          <6>2. PICK x : x = rows[h].number
            OBVIOUS
          <6>3. PICK y : y = queue[j].number
            OBVIOUS
          <6>4. x \in seen /\ x < y
            BY <1>6, <4>2, <6>1, <6>2, <6>3
          <6>5. x \in 1..arrived /\ y \in 1..arrived
            BY <1>5, <1>6, <6>1, <6>3, <6>4
          <6> QED BY <1>4, <5>1, <6>2, <6>3, <6>4, <6>5
        <5> QED BY <5>2
      <4> QED BY <2>1, <2>2, <4>1, <4>3 DEF PiecesListed
    <3>3. CASE \E t \in 1..Len(events) : /\ rows'[i] = events[t]
                                         /\ categories'[i] = ClassifiedAll(events).category[t]
      <4>1. PICK t \in 1..taken : /\ rows'[i] = events[t]
                                  /\ categories'[i] = ClassifiedAll(events).category[t]
        BY <1>3, <3>3
      <4>2. PICK b : b = queue[t].begun
        OBVIOUS
      <4>3. PICK m : m = queue[t].number
        OBVIOUS
      <4>4. /\ t \in 1..Len(queue) /\ events[t] = queue[t] /\ IsData(queue[t].message)
            /\ b..m \subseteq seen'
        BY <1>3, <1>4, <2>2, <4>1, <4>2, <4>3
      <4>5. m \in 1..arrived
        BY <1>5, <4>3, <4>4
      <4>6. b # None
        <5>1. seen' \subseteq 1..arrived
          BY <1>1 DEF IInv, Shown
        <5>2. 0 \in 0..m
          BY <1>4, <4>5
        <5> QED BY <1>4, <4>4, <5>1, <5>2 DEF None
      <4>7. b \in 1..(m - 1) /\ Threaded(b, t)
        <5>1. QueuedPiece(t)
          BY <4>4 DEF Pieces
        <5> QED BY <4>2, <4>3, <4>4, <4>6, <5>1 DEF QueuedPiece
      <4>8. b \in seen'
        <5>1. b \in b..m
          BY <4>5, <4>7
        <5> QED BY <4>4, <5>1
      <4>9. ASSUME b \in seen PROVE Caught(b)
        <5> SUFFICES ASSUME NEW n \in b..arrived, n \notin seen, ~(queue[1].number <= n)
                     PROVE  FALSE
          BY <1>4 DEF Caught
        <5>1. queue[1].number \in Nat /\ queue[1].number <= m /\ n \in Int /\ b <= n
          BY <1>4, <1>5, <1>7, <4>3, <4>4, <4>7
        <5>2. n \in b..m
          BY <4>5, <4>7, <5>1
        <5>3. PICK j \in 1..taken : n = queue[j].number
          BY <1>8, <2>1, <4>4, <5>2
        <5> QED BY <1>4, <1>7, <5>3
      <4>10. ASSUME b \notin seen PROVE \E j \in 1..(t - 1) : queue[j].number = b
        <5>1. PICK j \in 1..taken : b = queue[j].number
          BY <1>8, <2>1, <4>8, <4>10
        <5>2. j \in 1..Len(queue) /\ j # t
          BY <1>4, <4>3, <4>5, <4>7, <5>1
        <5>3. ~(t < j)
          BY <1>4, <1>5, <4>3, <4>4, <4>5, <4>7, <5>1, <5>2
        <5>4. j \in 1..(t - 1)
          BY <1>4, <5>2, <5>3
        <5> QED BY <5>1, <5>4
      <4>11. CarriedTo(events, t - 1)
        <5>1. /\ t - 1 \in 0..Len(queue) /\ (t - 1) + 1 = t /\ b \in Nat
              /\ \A j \in 1..(t - 1) : events[j] = queue[j]
          BY <1>3, <1>4, <4>5, <4>7
        <5>2. (b \in seen /\ Caught(b)) \/ (\E j \in 1..(t - 1) : queue[j].number = b)
          <6>1. CASE b \in seen
            <7>1. Caught(b)
              BY <4>9, <6>1
            <7> QED BY <6>1, <7>1
          <6>2. CASE b \notin seen
            BY <4>10, <6>2
          <6> QED BY <6>1, <6>2
        <5> QED BY <4>7, <5>1, <5>2, CarriedFrom
      <4>12. ClassifiedAll(events).category[t] = "sysex"
        <5>1. t - 1 \in 0..Len(events) /\ t \in 1..Len(events) /\ t = (t - 1) + 1
          BY <1>3, <1>4
        <5> QED BY <1>3, <4>4, <4>11, <5>1, BatchOpen
      <4> QED BY <4>1, <4>12
    <3> QED BY <3>1, <3>2, <3>3
  <2> QED BY <1>13, <2>1, <2>2 DEF PiecesListed
<1> QED BY <1>14, <1>15

(* The controls of the page forget rows, not what is open.                   *)
LEMMA ClickPieces ==
  ASSUME IInv, Pieces, PiecesListed,
         Pause \/ Clear \/ (\E n \in Limits : SetHistoryLimit(n)) \/ BeginShutdown
  PROVE  Pieces' /\ PiecesListed'
<1>1. UNCHANGED <<arrived, piece, queue, open, seen>>
  BY DEF Pause, Clear, SetHistoryLimit, BeginShutdown, Click, queueVars, modelVars
<1>2. Pieces'
  BY <1>1 DEF Pieces, QueuedPiece, Threaded, Caught
<1>3. CASE Pause \/ BeginShutdown
  <2>1. UNCHANGED <<rows, categories, seen>>
    BY <1>3 DEF Pause, BeginShutdown, modelVars
  <2> QED BY <1>2, <2>1 DEF PiecesListed
<1>4. CASE Clear
  <2>1. DOMAIN rows' = {}
    BY <1>4 DEF Clear
  <2> QED BY <1>2, <2>1 DEF PiecesListed
<1>5. CASE \E n \in Limits : SetHistoryLimit(n)
  <2>1. PICK n \in Limits : SetHistoryLimit(n)
    BY <1>5
  <2>2. /\ n \in Nat \ {0}
        /\ rows' = Recent(rows, n) /\ categories' = Recent(categories, n)
    BY <2>1, MonitorAssumption DEF SetHistoryLimit
  <2> DEFINE L == Len(rows)
             k == Smaller(n, L)
  <2>3. AnySeq(rows) /\ AnySeq(categories) /\ Len(categories) = L
    BY DEF IInv, History
  <2>4. L \in Nat /\ DOMAIN rows = 1..L
    BY <2>3 DEF AnySeq
  <2>5. k \in Nat /\ k <= L
    BY <2>2, <2>4 DEF Smaller
  <2>6. rows' = Last(rows, k) /\ categories' = Last(categories, k)
    BY <2>2, <2>3 DEF Recent
  <2> HIDE DEF k
  <2>7. AnySeq(rows') /\ Len(rows') = k /\ \A i \in 1..k : rows'[i] = rows[L - k + i]
    BY <2>3, <2>5, <2>6, EndOf
  <2>8. \A i \in 1..k : categories'[i] = categories[L - k + i]
    <3> HIDE DEF L
    <3>1. \A i \in 1..k : Last(categories, k)[i] = categories[Len(categories) - k + i]
      BY <2>3, <2>5, EndOf
    <3> QED BY <2>3, <2>6, <3>1
  <2>9. DOMAIN rows' = 1..k
    BY <2>7 DEF AnySeq
  <2>10. \A i \in 1..k : L - k + i \in DOMAIN rows
    BY <2>4, <2>5
  <2> HIDE DEF L
  <2>11. seen' = seen
    BY <1>1
  <2>12. PiecesListed'
    BY <2>7, <2>8, <2>9, <2>10, <2>11 DEF PiecesListed
  <2> QED BY <1>2, <2>12
<1> QED BY <1>3, <1>4, <1>5

(* After the close nothing is shown, and what was queued is missing.         *)
LEMMA ClosePieces ==
  ASSUME IInv, Pieces, PiecesListed, EndShutdown
  PROVE  Pieces' /\ PiecesListed'
<1>1. queue' = <<>> /\ UNCHANGED <<arrived, piece, rows, categories, open, seen>>
  BY DEF EndShutdown, modelVars
<1>7. CASE queue = <<>>
  <2>1. queue' = queue
    BY <1>1, <1>7
  <2> QED BY <1>1, <2>1 DEF Pieces, PiecesListed, QueuedPiece, Threaded, Caught
<1> SUFFICES ASSUME queue # <<>> PROVE Pieces' /\ PiecesListed'
  BY <1>7
<1>2. Len(queue') = 0
  BY <1>1, EmptySeq
<1>3. Len(queue) \in Nat \ {0}
  BY EmptySeq DEF IInv, Line, AnySeq
<1>4. ASSUME NEW b \in seen PROVE ~Caught(b)'
  <2>1. PICK n : n = queue[1].number
    OBVIOUS
  <2>2. 1 \in 1..Len(queue)
    BY <1>3
  <2>3. b < n /\ n \in 1..arrived /\ b \in 1..arrived /\ n \notin seen /\ arrived \in Nat
    <3>1. arrived \in Nat /\ n \in 1..arrived
      BY <2>1, <2>2 DEF IInv, Line
    <3>2. b < n /\ b \in 1..arrived
      BY <2>1, <2>2 DEF IInv, Shown
    <3>3. ~(n < n)
      BY <3>1
    <3>4. n \notin seen
      BY <2>1, <2>2, <3>3 DEF IInv, Shown
    <3> QED BY <3>1, <3>2, <3>4
  <2>4. n \in b..arrived' /\ n \notin seen'
    BY <1>1, <2>3
  <2> QED BY <1>2, <2>4 DEF Caught
<1>5. \A b : Threaded(b, Len(queue) + 1)'
  BY <1>1, <1>2, <1>4 DEF Threaded
<1>6. Pieces'
  BY <1>1, <1>2, <1>5 DEF Pieces
<1> QED BY <1>1, <1>6 DEF PiecesListed

(* A SysEx in pieces is listed as one if all of it was shown, for any batch  *)
(* sizes and limits and however clears and pauses fall (classify_event()).   *)
THEOREM PiecesRecognised == Spec => []PiecesListed
<1> DEFINE PInv == Pieces /\ PiecesListed
<1>1. Init => PInv
  <2> SUFFICES ASSUME Init PROVE PInv
    OBVIOUS
  <2>1. arrived = 0 /\ piece = None /\ Len(queue) = 0 /\ DOMAIN rows = {}
    BY EmptySeq DEF Init
  <2> QED BY <2>1 DEF Pieces, PiecesListed, None
<1>2. ASSUME IInv, IInv', PInv, [Next]_vars PROVE PInv'
  <2>1. CASE Transport
    <3>1. PICK message, begun : Arrive(message, begun)
      BY <2>1 DEF Transport, ArriveStart, ArriveMessage, ArrivePiece
    <3>2. UNCHANGED <<rows, categories, seen>>
      BY <3>1 DEF Arrive, modelVars
    <3> QED BY <1>2, <2>1, <3>2, ArrivalPieces DEF PiecesListed
  <2>2. CASE DrainOnce
    BY <1>2, <2>2, DrainPieces
  <2>3. CASE Pause \/ Clear \/ (\E n \in Limits : SetHistoryLimit(n)) \/ BeginShutdown
    BY <1>2, <2>3, ClickPieces
  <2>4. CASE EndShutdown
    BY <1>2, <2>4, ClosePieces
  <2>5. CASE UNCHANGED vars
    <3>1. UNCHANGED <<arrived, piece, queue, rows, categories, open, seen>>
      BY <2>5 DEF vars, queueVars, modelVars
    <3> QED BY <1>2, <3>1 DEF Pieces, PiecesListed, QueuedPiece, Threaded, Caught
  <2> QED BY <1>2, <2>1, <2>2, <2>3, <2>4, <2>5 DEF Next, Gui
<1>3. PInv => PiecesListed
  OBVIOUS
<1> HIDE DEF PInv
<1> QED BY <1>1, <1>2, <1>3, Invariance, PTL DEF Spec

=============================================================================
