------------------------------ MODULE Monitor ------------------------------
(***************************************************************************)
(* The MIDI Monitor: the transport's thread numbers each message and       *)
(* pushes it into the bounded MonitorEventQueue; every 16 ms the GUI       *)
(* thread's MonitorEventBridge drains it into the MidiMonitorModel, which  *)
(* classifies the messages and keeps a bounded history.  While the         *)
(* presentation is paused drained messages are counted and discarded;      *)
(* shutdown() of the bridge discards what is queued, and what comes later  *)
(* is rejected.                                                            *)
(*                                                                         *)
(* `given' and the numbers a message carries are kept to state properties. *)
(* ShutdownStillAccepting, AppendLoosely and ClassifiedAlone are plausible *)
(* mistakes that the properties are tested against.                        *)
(***************************************************************************)
EXTENDS MonitorCategory, Sequences, FiniteSets

CONSTANTS
  Messages,      \* messages that are no part of a SysEx in pieces
  Capacity,      \* of the queue
  BatchLimit,    \* how much one tick drains
  Limits,        \* history limits the settings may hold
  MaxMessages,   \* bound: messages that arrive
  MaxClicks      \* bound: what the user does

ASSUME MonitorAssumption ==
  /\ Capacity \in Nat \ {0} /\ BatchLimit \in Nat \ {0}
  /\ Limits \subseteq Nat \ {0}
  /\ MaxMessages \in Nat /\ MaxClicks \in Nat
  /\ \A m \in Messages : m.form = "midi1" => m.first \in 0..255

VARIABLES
  arrived,       \* monitor_sequence
  piece,         \* the device is inside a SysEx since this number, or None
  queue,         \* events_ of the queue: [number, message, begun]
  accepting,     \* accepting_ of the queue
  stats,         \* the queue's and the bridge's counters
  paused,        \* stats_.paused
  running,       \* accepting_gui_updates_
  shut,          \* shutdown() has returned
  rows,          \* events_ of the model
  categories,    \* categories_ of the model
  limit,         \* history_limit_
  open,          \* sysex_open_ of the backend and direction
  given,         \* the numbers the model was given since the history was cleared
  seen,          \* every number the model was ever given
  clicks         \* how much of the bound is used

queueVars == <<queue, accepting>>
modelVars == <<rows, categories, limit, open, given, seen>>
bridgeVars == <<paused, running, shut>>
vars == <<arrived, piece, queueVars, stats, bridgeVars, modelVars, clicks>>

None == 0      \* messages are numbered from 1 here

Counters == {"accepted", "dropped", "rejected", "displayed", "pausedAway", "closedAway"}

Count(name, n) == stats' = [stats EXCEPT ![name] = @ + n]

(* The settings say whether it starts paused, and how long the history is. *)
Init ==
  /\ arrived = 0
  /\ piece = None
  /\ queue = <<>>
  /\ accepting = TRUE
  /\ stats = [c \in Counters |-> 0]
  /\ paused \in BOOLEAN
  /\ running = TRUE
  /\ shut = FALSE
  /\ rows = <<>>
  /\ categories = <<>>
  /\ limit \in Limits
  /\ open = FALSE
  /\ given = <<>>
  /\ seen = {}
  /\ clicks = 0

-----------------------------------------------------------------------------
(* The transport's thread: the message handler of taureon_app_main.cpp. *)

Push(event) ==
  IF ~accepting THEN Count("rejected", 1) /\ UNCHANGED queueVars
  ELSE IF Len(queue) = Capacity THEN Count("dropped", 1) /\ UNCHANGED queueVars
  ELSE Count("accepted", 1) /\ queue' = Append(queue, event) /\ UNCHANGED accepting

Arrive(message, begun) ==
  /\ arrived < MaxMessages
  /\ arrived' = arrived + 1
  /\ Push([number |-> arrived + 1, message |-> message, begun |-> begun])
  /\ UNCHANGED <<bridgeVars, modelVars, clicks>>

(* A SysEx comes whole or in pieces, with realtime bytes between them; any   *)
(* other status byte ends it.                                                *)
ArriveStart == Arrive(Midi1(240, FALSE), arrived + 1) /\ piece' = arrived + 1

ArrivePiece(ends) ==
  /\ piece # None
  /\ Arrive(Midi1(0, ends), piece)
  /\ piece' = IF ends THEN None ELSE piece

ArriveMessage ==
  \E m \in Messages :
    /\ Arrive(m, None)
    /\ piece' = IF m.form = "ump" \/ IsRealtime(m) THEN piece ELSE None

Transport == ArriveStart \/ ArriveMessage \/ \E ends \in BOOLEAN : ArrivePiece(ends)

-----------------------------------------------------------------------------
(* The GUI thread: the model. *)

Last(s, n) == SubSeq(s, Len(s) - n + 1, Len(s))
Smaller(a, b) == IF a < b THEN a ELSE b
Recent(s, n) == Last(s, Smaller(n, Len(s)))

ClassifiedAlone(events) ==
  [category |-> [i \in DOMAIN events |-> EventCategory(events[i].message)], open |-> open]

(* Each event of a batch in its order, from what was open before. *)
ClassifiedAll(events) ==
  LET upTo[i \in 0..Len(events)] ==
        IF i = 0 THEN open ELSE Classified(events[i].message, upTo[i - 1]).open IN
  [category |-> [i \in DOMAIN events |-> Classified(events[i].message, upTo[i - 1]).category],
   open     |-> upTo[Len(events)]]

AppendLoosely(events) ==
  LET classified == ClassifiedAll(events)
      overflow   == IF Len(rows) + Len(events) > limit
                    THEN Len(rows) + Len(events) - limit ELSE 0 IN
  /\ open' = classified.open
  /\ rows' = Recent(rows, Len(rows) - overflow) \o events
  /\ categories' = categories \o classified.category

(* append_batch(): a batch as long as the history replaces it; otherwise the *)
(* oldest rows make room.                                                    *)
AppendBatch(events) ==
  LET classified == ClassifiedAll(events)
      overflow   == IF Len(rows) + Len(events) > limit
                    THEN Len(rows) + Len(events) - limit ELSE 0 IN
  /\ open' = classified.open
  /\ IF Len(events) >= limit
     THEN /\ rows' = Last(events, limit)
          /\ categories' = Last(classified.category, limit)
     ELSE /\ rows' = Last(rows, Len(rows) - overflow) \o events
          /\ categories' = Last(categories, Len(rows) - overflow) \o classified.category

Numbers(events) == [i \in DOMAIN events |-> events[i].number]

-----------------------------------------------------------------------------
(* The GUI thread: the bridge, and the controls of the page. *)

(* drain_once() *)
DrainOnce ==
  LET taken == Smaller(BatchLimit, Len(queue)) IN
  /\ running
  /\ taken > 0
  /\ queue' = SubSeq(queue, taken + 1, Len(queue))
  /\ IF paused
     THEN Count("pausedAway", taken) /\ UNCHANGED modelVars
     ELSE LET events == SubSeq(queue, 1, taken) IN
          /\ Count("displayed", taken)
          /\ AppendBatch(events)
          /\ given' = given \o Numbers(events)
          /\ seen' = seen \cup {events[i].number : i \in DOMAIN events}
          /\ UNCHANGED limit
  /\ UNCHANGED <<arrived, piece, accepting, bridgeVars, clicks>>

Click ==
  /\ clicks < MaxClicks
  /\ clicks' = clicks + 1
  /\ UNCHANGED <<arrived, piece>>

Pause ==
  /\ Click
  /\ paused' = ~paused
  /\ UNCHANGED <<queueVars, stats, running, shut, modelVars>>

(* clear() forgets the rows but not an open SysEx. *)
Clear ==
  /\ Click
  /\ rows' = <<>> /\ categories' = <<>>
  /\ given' = <<>>
  /\ UNCHANGED <<queueVars, stats, bridgeVars, limit, open, seen>>

SetHistoryLimit(n) ==
  /\ Click
  /\ limit' = n
  /\ rows' = Recent(rows, n)
  /\ categories' = Recent(categories, n)
  /\ UNCHANGED <<queueVars, stats, bridgeVars, open, given, seen>>

ShutdownStillAccepting ==
  /\ running
  /\ running' = FALSE
  /\ UNCHANGED <<arrived, piece, queueVars, stats, paused, shut, modelVars, clicks>>

(* shutdown(), of the window or of a destroyed model: between the two steps  *)
(* the transport's messages are rejected.                                    *)
BeginShutdown ==
  /\ running
  /\ running' = FALSE
  /\ accepting' = FALSE
  /\ UNCHANGED <<arrived, piece, queue, stats, paused, shut, modelVars, clicks>>

EndShutdown ==
  /\ ~running /\ ~shut
  /\ shut' = TRUE
  /\ queue' = <<>>
  /\ Count("closedAway", Len(queue))
  /\ UNCHANGED <<arrived, piece, accepting, paused, running, modelVars, clicks>>

Gui ==
  \/ DrainOnce
  \/ Pause \/ Clear
  \/ \E n \in Limits : SetHistoryLimit(n)
  \/ BeginShutdown \/ EndShutdown

Next == Transport \/ Gui

Spec == Init /\ [][Next]_vars

-----------------------------------------------------------------------------
(* Properties *)

(* Nothing is lost silently: every message that arrived is counted as        *)
(* dropped or rejected, or was accepted and is still queued, was displayed,  *)
(* or was discarded under a pause or at the close; the queue stays within    *)
(* its capacity, and a shutdown leaves nothing in it that nobody would count *)
(* (MonitorEventQueue, MonitorEventBridge).                                  *)
Accounted ==
  /\ arrived = stats["accepted"] + stats["dropped"] + stats["rejected"]
  /\ stats["accepted"] = stats["displayed"] + stats["pausedAway"] + stats["closedAway"]
                           + Len(queue)
  /\ Len(queue) <= Capacity
  /\ stats["displayed"] = Cardinality(seen)
  /\ shut => queue = <<>>

(* The history is the most recent part of what was displayed since it was    *)
(* cleared, in the order of arrival and without a gap, never longer than the *)
(* limit, and each row keeps the category of its own message - however       *)
(* batches, changes of the limit and clears follow each other                *)
(* (append_batch(), set_history_limit()).                                    *)
HistoryFaithful ==
  /\ Len(rows) <= limit
  /\ Len(rows) <= Len(given)
  /\ Numbers(rows) = Last(given, Len(rows))
  /\ \A i, j \in DOMAIN rows : i < j => rows[i].number < rows[j].number
  /\ Len(categories) = Len(rows)
  /\ \A i \in DOMAIN rows :
       ~IsData(rows[i].message) => categories[i] = EventCategory(rows[i].message)

(* A piece of a SysEx is listed as SysEx if the model was given everything   *)
(* that arrived since its start, whatever batches it came in and whether     *)
(* the history was cleared in between (classify_event()); only a pause or an *)
(* overflow in the middle of one can make it lose its thread.                *)
PiecesListed ==
  \A i \in DOMAIN rows :
    IsData(rows[i].message) /\ rows[i].begun..rows[i].number \subseteq seen
      => categories[i] = "sysex"

=============================================================================
