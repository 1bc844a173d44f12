---------------------------- MODULE ConnectionUi ----------------------------
(***************************************************************************)
(* The connection bar of src/src/gui/MainWindow.cpp over the worker of     *)
(* module Connection.  Choosing a backend and pressing Connect/Disconnect  *)
(* each post one command and keep its future; a 25 ms timer polls it, and  *)
(* also the future of a background snapshot() it posts while nothing else  *)
(* is pending.  Two instants matter in one poll: when it looks at the      *)
(* background future and when it looks at the user's, and between them the *)
(* worker runs.  The first index of the backend box, Auto, tries Windows   *)
(* MIDI Services and falls back to WinMM.  Counting ten ticks before a     *)
(* background snapshot is left to chance.                                  *)
(*                                                                         *)
(* PollIdleConnected and PollFallbackAgain are plausible mistakes that the *)
(* properties are tested against.                                          *)
(***************************************************************************)
EXTENDS Connection, Naturals

CONSTANTS
  Wms, Winmm,    \* the two backends
  MaxClicks,     \* bound: user requests after the first
  MaxRemovals    \* bound: devices that disappear

ASSUME BackendsAssumption == Wms \in Backends /\ Winmm \in Backends /\ Wms # Winmm

VARIABLES
  chosen,          \* index of backend_selector_: Auto, Wms or Winmm
  pending,         \* pending_connection_ with pending_action_, pending_backend_
  refreshPending,  \* refresh_pending_ holds a future
  connected,       \* connected_
  backendReady,    \* backend_ready_
  listed,          \* receive_routes_ and transmit_routes_
  poll,            \* the next future poll_connection_result() looks at
  overtaken,       \* the pending background snapshot is older than what the
                   \* user's last request showed
  misled,          \* such a snapshot has been shown
  clicks, removals \* how much of the bounds is used

uiVars == <<chosen, pending, refreshPending, connected, backendReady, listed, poll,
            overtaken, misled, clicks>>
vars == <<connectionVars, uiVars, removals>>

AutoIndex == "auto"
NoRequest == [action |-> "none", backend |-> "none"]
Pending   == pending.action # "none"

(* connected and degraded count as connected. *)
ShowsConnection(state) == state \in {"connected", "degraded"}

Preferred(index) == IF index = Winmm THEN Winmm ELSE Wms

Command(name, backend, routes, from) ==
  [name |-> name, backend |-> backend, routes |-> routes, from |-> from]

SelectBackend(backend) ==
  /\ Enqueue(Command("select", backend, {}, "user"))
  /\ pending' = [action |-> "backend", backend |-> backend]

(* The constructor begins the selection of Auto; the worker, already         *)
(* running, has not taken it yet.                                            *)
Init ==
  /\ ConnectionInit
  /\ jobs = <<Command("select", Wms, {}, "user")>>
  /\ chosen = AutoIndex
  /\ pending = [action |-> "backend", backend |-> Wms]
  /\ refreshPending = FALSE
  /\ connected = FALSE
  /\ backendReady = FALSE
  /\ listed = {}
  /\ poll = "refresh"
  /\ overtaken = FALSE
  /\ misled = FALSE
  /\ clicks = 0
  /\ removals = 0

-----------------------------------------------------------------------------
(* The user, on the GUI thread between two polls. *)

Click ==
  /\ poll = "refresh"
  /\ ~Pending
  /\ clicks < MaxClicks
  /\ clicks' = clicks + 1
  /\ UNCHANGED <<work, controller, snapshot, lifecycle, opened, present, notice, answer,
                 refreshPending, poll, overtaken, misled, removals>>

(* The selector is enabled unless a request is pending. *)
ChooseBackend(index) ==
  /\ Click
  /\ index # chosen
  /\ chosen' = index
  /\ connected' = FALSE
  /\ backendReady' = FALSE
  /\ listed' = {}
  /\ SelectBackend(Preferred(index))

Disconnect ==
  /\ Click
  /\ connected
  /\ Enqueue(Command("disconnect", "none", {}, "user"))
  /\ pending' = [pending EXCEPT !.action = "disconnect"]
  /\ UNCHANGED <<chosen, connected, backendReady, listed>>

(* The button is enabled for a chosen route of a backend that is ready. *)
Connect(routes) ==
  /\ Click
  /\ ~connected
  /\ backendReady
  /\ routes # {}
  /\ Enqueue(Command("connect", "none", routes, "user"))
  /\ pending' = [pending EXCEPT !.action = "connect"]
  /\ UNCHANGED <<chosen, connected, backendReady, listed>>

-----------------------------------------------------------------------------
(* poll_connection_result() *)

RefreshReady == refreshPending /\ answer["refresh"].ready
UserReady    == Pending /\ answer["user"].ready
Read(client) == answer' = [answer EXCEPT ![client] = NoAnswer]

Polls ==
  UNCHANGED <<work, controller, snapshot, lifecycle, opened, present, notice, clicks, removals>>

(* The background future first.  Its snapshot is shown unless a request is   *)
(* pending.                                                                  *)
PollRefresh ==
  LET result == answer["refresh"]
      shown  == RefreshReady /\ ~Pending /\ result.ok IN
  /\ poll = "refresh"
  /\ poll' = "request"
  /\ IF RefreshReady THEN Read("refresh") /\ refreshPending' = FALSE /\ overtaken' = FALSE
                     ELSE UNCHANGED <<answer, refreshPending, overtaken>>
  /\ misled' = (misled \/ (shown /\ overtaken))
  /\ connected' = IF shown THEN ShowsConnection(result.snapshot.state) ELSE connected
  /\ Polls /\ UNCHANGED <<jobs, chosen, pending, backendReady, listed>>

PollIdleConnected ==
  /\ poll = "request" /\ poll' = "refresh"
  /\ ~Pending
  /\ \/ /\ ~refreshPending /\ connected
        /\ Enqueue(Command("snapshot", "none", {}, "refresh"))
        /\ refreshPending' = TRUE
     \/ UNCHANGED <<jobs, refreshPending>>
  /\ Polls /\ UNCHANGED <<answer, chosen, pending, connected, backendReady, listed,
                          overtaken, misled>>

PollIdle ==
  /\ poll = "request" /\ poll' = "refresh"
  /\ ~Pending
  /\ \/ /\ ~refreshPending /\ backendReady
        /\ Enqueue(Command("snapshot", "none", {}, "refresh"))
        /\ refreshPending' = TRUE
     \/ UNCHANGED <<jobs, refreshPending>>
  /\ Polls /\ UNCHANGED <<answer, chosen, pending, connected, backendReady, listed,
                          overtaken, misled>>

PollWaiting ==
  /\ poll = "request" /\ poll' = "refresh"
  /\ Pending /\ ~UserReady
  /\ Polls /\ UNCHANGED <<jobs, answer, chosen, pending, refreshPending, connected,
                          backendReady, listed, overtaken, misled>>

PollAnswer ==
  /\ poll = "request" /\ poll' = "refresh"
  /\ UserReady
  /\ Read("user")
  /\ Polls /\ UNCHANGED <<chosen, refreshPending>>

(* Auto tried Windows MIDI Services, which failed or has no routes. *)
FallsBack ==
  /\ pending.action = "backend"
  /\ chosen = AutoIndex
  /\ pending.backend = Wms
  /\ answer["user"].ok => answer["user"].snapshot.endpoints = {}

PollFallbackAgain ==
  /\ PollAnswer
  /\ FallsBack
  /\ Enqueue(Command("select", Winmm, {}, "user"))
  /\ UNCHANGED <<pending, connected, backendReady, listed, overtaken, misled>>

PollFallback ==
  /\ PollAnswer
  /\ FallsBack
  /\ SelectBackend(Winmm)
  /\ UNCHANGED <<connected, backendReady, listed, overtaken, misled>>

(* Only a failed selection leaves no usable route list. *)
PollFailure ==
  /\ PollAnswer
  /\ ~FallsBack
  /\ ~answer["user"].ok
  /\ pending' = NoRequest
  /\ connected' = FALSE
  /\ backendReady' = (backendReady /\ pending.action # "backend")
  /\ overtaken' = refreshPending
  /\ UNCHANGED <<jobs, listed, misled>>

PollSuccess ==
  /\ PollAnswer
  /\ ~FallsBack
  /\ answer["user"].ok
  /\ pending' = NoRequest
  /\ connected' = ShowsConnection(answer["user"].snapshot.state)
  /\ backendReady' = TRUE
  /\ listed' = IF pending.action = "backend" THEN answer["user"].snapshot.endpoints ELSE listed
  /\ overtaken' = refreshPending
  /\ UNCHANGED <<jobs, misled>>

Poll == PollRefresh \/ PollIdle \/ PollWaiting \/ PollFallback \/ PollFailure \/ PollSuccess

-----------------------------------------------------------------------------
(* The transport's thread, and the devices. *)

Disappear(backend, route) ==
  /\ removals < MaxRemovals
  /\ removals' = removals + 1
  /\ RemoveEndpoint(backend, route)
  /\ UNCHANGED uiVars

WorkerRuns == Worker /\ UNCHANGED <<uiVars, removals>>
Notified   == EndpointChanged /\ UNCHANGED <<uiVars, removals>>

User ==
  \/ \E index \in {AutoIndex, Wms, Winmm} : ChooseBackend(index)
  \/ Disconnect
  \/ \E routes \in SUBSET listed : Connect(routes)

Next ==
  \/ User
  \/ Poll
  \/ WorkerRuns
  \/ Notified
  \/ \E backend \in Backends, route \in Routes : Disappear(backend, route)

(* Both threads run and the timer ticks; an idle poll sooner or later posts  *)
(* its snapshot.  Nothing forces the user or a device.                       *)
Fairness ==
  /\ WF_vars(Poll)
  /\ WF_vars(WorkerRuns)
  /\ WF_vars(Notified)
  /\ SF_vars(PollIdle /\ refreshPending')

Spec == Init /\ [][Next]_vars /\ Fairness

-----------------------------------------------------------------------------
(* Properties *)

(* Every variable stays in its type; in particular at most one command of    *)
(* the user's and one background snapshot are in the worker at a time        *)
(* (begin_backend_selection(), begin_connect_toggle() and                    *)
(* poll_connection_result() all look before they post).                      *)
TypeOK ==
  /\ Len(jobs) <= 2
  /\ \A i \in 1..Len(jobs) : jobs[i].from \in Clients
  /\ Cardinality({i \in 1..Len(jobs) : jobs[i].from = "user"})
       + (IF work.at # "idle" /\ work.job.from = "user" THEN 1 ELSE 0)
       + (IF answer["user"].ready THEN 1 ELSE 0) = (IF Pending THEN 1 ELSE 0)
  /\ Cardinality({i \in 1..Len(jobs) : jobs[i].from = "refresh"})
       + (IF work.at # "idle" /\ work.job.from = "refresh" THEN 1 ELSE 0)
       + (IF answer["refresh"].ready THEN 1 ELSE 0) = (IF refreshPending THEN 1 ELSE 0)
  /\ controller \in Backends \cup {NoController}
  /\ snapshot \in [state : PresentationStates, routes : SUBSET Routes,
                   endpoints : SUBSET Routes]
  /\ lifecycle \in LifecycleStates
  /\ opened \in SUBSET Routes
  /\ notice \in Notices
  /\ chosen \in {AutoIndex, Wms, Winmm}
  /\ connected \in BOOLEAN /\ backendReady \in BOOLEAN /\ listed \in SUBSET Routes
  /\ poll \in {"refresh", "request"}

(* "Connected" is presented only over a transport that opened exactly the    *)
(* presented routes (ConnectionController::connect_selected()) and has not   *)
(* been closed; its life cycle is open, or failed after a loss was reported, *)
(* or on its way out of open.                                                *)
HonestConnection ==
  snapshot.state = "connected" =>
    /\ opened = snapshot.routes
    /\ opened # {}
    /\ lifecycle \in {"open", "closing"} \/ ~(opened \subseteq present[controller])

(* A transport that holds routes is never replaced: changing the backend     *)
(* closes the old one first, and gives up if that fails                      *)
(* (ConnectionWorker::select_backend()).                                     *)
ReplacedOnlyWhenClosed ==
  [][work.at = "create" /\ work' # work => lifecycle = "closed" /\ opened = {}]_vars

(* The window never waits for ever: every request is answered and the bar    *)
(* is enabled again, also through Auto's fallback.                           *)
RequestAnswered == Pending ~> ~Pending

(* Once the user is done, the window comes to show what the controller       *)
(* presents, whatever stale background snapshot was shown in between.        *)
EventuallyAccurate ==
  <>[](backendReady => (connected <=> ShowsConnection(snapshot.state)))

(* What the window lists is what the selected backend listed, so a request   *)
(* for a route never reaches another backend (begin_backend_selection(),     *)
(* apply_connection_snapshot() with repopulate) - as long as no overtaken    *)
(* snapshot was shown.                                                       *)
ListedBySelected ==
  ~misled /\ ~Pending /\ backendReady =>
    /\ controller # NoController
    /\ chosen # AutoIndex => controller = chosen
    /\ listed = snapshot.endpoints

(* No connection is held behind the user's back: between commands an open    *)
(* transport is presented as connected or degraded, and the window lets the  *)
(* user disconnect it once nothing is pending - as long as no overtaken      *)
(* snapshot was shown.                                                       *)
NoHiddenConnection ==
  ~misled /\ work.at = "idle" /\ lifecycle = "open" =>
    /\ ShowsConnection(snapshot.state)
    /\ ~Pending => connected

(* MainWindow.cpp:664: "A later user request must not be replaced by an      *)
(* older background snapshot."                                               *)
LaterRequestStands == ~misled

(* Stage5ConnectionUiTests.cpp:587: a failed connect keeps Connect "usable   *)
(* for a retry without re-selecting the backend": a connect the worker runs  *)
(* reaches the device, the life cycle does not refuse it.                    *)
ConnectReachesDevice == work.at = "open" => BeginOpen(lifecycle) # Refused

(* STAGE_5_BRIEF.md:233: "route disappearance produces an explicit           *)
(* degraded/disconnected state": a connection whose route is gone is not     *)
(* presented as connected for ever.                                          *)
LossPresented ==
  snapshot.state = "connected" /\ ~(opened \subseteq present[controller])
    ~> snapshot.state # "connected"

=============================================================================
