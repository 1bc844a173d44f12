----------------------------- MODULE Connection -----------------------------
(***************************************************************************)
(* One connection, as the ConnectionWorker's thread sees it: the commands  *)
(* select_backend(), connect(), disconnect() and snapshot() of             *)
(* src/src/app/ConnectionWorker.cpp, the ConnectionController they act on, *)
(* and the transport behind it, which opens, fails, and may lose an        *)
(* endpoint while it is open.                                              *)
(*                                                                         *)
(* A command runs on the worker thread to its end.  It is one action per   *)
(* stretch between two points where another thread can change what it      *)
(* sees: the transport's thread, which reports a lost endpoint, first      *)
(* fails the life cycle and then calls the controller's handler.  A route  *)
(* is a model value of a backend; what a device does with a request is a   *)
(* choice.  The receive and Raw Send commands, which select_backend() and  *)
(* disconnect() end first, are not modelled here.                          *)
(*                                                                         *)
(* Operators that Worker does not use (ClosedRegardless, PresentConnected, *)
(* EndOpeningAlways) are plausible mistakes that the properties of         *)
(* ConnectionUi are tested against.                                        *)
(***************************************************************************)
EXTENDS Sequences, FiniteSets, TransportLifecycle

CONSTANTS
  Backends,      \* the concrete backends
  Routes,        \* the routes of their devices
  Devices,       \* which backend has which routes to begin with
  Reporting      \* the backends whose transport calls the endpoint handler

ASSUME ConnectionAssumption ==
  /\ Devices \in [Backends -> SUBSET Routes]
  /\ Reporting \subseteq Backends
  /\ "none" \notin Backends

VARIABLES
  jobs,          \* commands_: records [name, backend, routes, from]
  work,          \* what the worker thread does: [at, job]
  controller,    \* the backend of controller and transport, or "none"
  snapshot,      \* snapshot_ of the controller: [state, routes, endpoints]
  lifecycle,     \* the transport's life cycle
  opened,        \* the routes the transport was opened with
  present,       \* the routes each backend's devices have
  notice,        \* a selected_route_unavailable notice on its way, and to whom
  answer         \* the answers the client has not read: by who asked

connectionVars == <<jobs, work, controller, snapshot, lifecycle, opened, present,
                    notice, answer>>

PresentationStates == {"disconnected", "ready", "connected", "degraded", "error"}

Clients == {"user", "refresh"}

Notices == {"none", "current", "destroyed"}

NoController == "none"
NoAnswer     == [ok |-> FALSE, ready |-> FALSE]
NewSnapshot  == [state |-> "disconnected", routes |-> {}, endpoints |-> {}]

Failure       == [ok |-> FALSE, ready |-> TRUE]
Success(snap) == [ok |-> TRUE, ready |-> TRUE, snapshot |-> snap]

Idle(name) == [at |-> "idle", job |-> [name |-> name]]
At(step)   == [work EXCEPT !.at = step]

ConnectionInit ==
  /\ work = Idle("none")
  /\ controller = NoController
  /\ snapshot = NewSnapshot
  /\ lifecycle = "closed"
  /\ opened = {}
  /\ present = Devices
  /\ notice = "none"
  /\ answer = [c \in Clients |-> NoAnswer]

-----------------------------------------------------------------------------
(* The queue of commands, and their answers. *)

Enqueue(job) == jobs' = Append(jobs, job)

Take ==
  /\ work.at = "idle"
  /\ jobs # <<>>
  /\ work' = [at |-> Head(jobs).name, job |-> Head(jobs)]
  /\ jobs' = Tail(jobs)
  /\ UNCHANGED <<controller, snapshot, lifecycle, opened, present, notice, answer>>

(* The promise is fulfilled; the worker looks for another command. *)
Answer(result) ==
  /\ answer' = [answer EXCEPT ![work.job.from] = result]
  /\ work' = Idle("none")

StillWorking(step) ==
  /\ work' = At(step)
  /\ UNCHANGED answer

-----------------------------------------------------------------------------
(* close(), for disconnect() and for select_backend(): the life cycle lets   *)
(* it begin, then the native close succeeds or fails.                        *)

BeginClosing(step) ==
  /\ work.at = step
  /\ controller # NoController
  /\ BeginClose(lifecycle) = "closing"
  /\ lifecycle' = "closing"
  /\ StillWorking("closing")
  /\ UNCHANGED <<jobs, controller, snapshot, opened, present, notice>>

ClosedRegardless(ok) ==
  /\ snapshot' = [snapshot EXCEPT !.state = IF ok THEN "disconnected" ELSE "error"]
  /\ IF work.job.name = "select"
     THEN StillWorking("create")
     ELSE IF ok THEN StillWorking("reply") ELSE Answer(Failure)

(* What ConnectionController::disconnect() records; disconnect() answers,    *)
(* select_backend() goes on only if the old transport is closed.             *)
Closed(ok) ==
  /\ snapshot' = [snapshot EXCEPT !.state = IF ok THEN "disconnected" ELSE "error"]
  /\ IF ok /\ work.job.name = "select"
     THEN StillWorking("create")
     ELSE IF ok THEN StillWorking("reply") ELSE Answer(Failure)

(* A transport that failed again while it closed is refused completion.  One *)
(* that does not close may still hold what it opened.                        *)
EndClosing(ok) ==
  LET closed == ok /\ CompleteClose(lifecycle) # Refused IN
  /\ work.at = "closing"
  /\ lifecycle' = IF closed THEN CompleteClose(lifecycle) ELSE Fail
  /\ opened' = IF closed THEN {} ELSE opened
  /\ Closed(closed)
  /\ UNCHANGED <<jobs, controller, present, notice>>

(* close() of a closed transport returns success at once. *)
AlreadyClosed(step) ==
  /\ work.at = step
  /\ controller # NoController
  /\ BeginClose(lifecycle) = "closed"
  /\ Closed(TRUE)
  /\ UNCHANGED <<jobs, controller, lifecycle, opened, present, notice>>

-----------------------------------------------------------------------------
(* select_backend() *)

SelectFirst ==
  /\ work.at = "select"
  /\ controller = NoController
  /\ StillWorking("create")
  /\ UNCHANGED <<jobs, controller, snapshot, lifecycle, opened, present, notice>>

(* The old controller and transport are destroyed and the factory makes a    *)
(* new one; it may throw.  A notice on its way has already copied the old    *)
(* controller's handler.                                                     *)
Create(made) ==
  /\ work.at = "create"
  /\ controller' = IF made THEN work.job.backend ELSE NoController
  /\ lifecycle' = "closed"
  /\ opened' = {}
  /\ snapshot' = NewSnapshot
  /\ notice' = IF notice = "current" THEN "destroyed" ELSE notice
  /\ IF made THEN StillWorking("list") ELSE Answer(Failure)
  /\ UNCHANGED <<jobs, present>>

(* refresh() of the controller. *)
List(ok) ==
  /\ work.at = "list"
  /\ IF ok
     THEN /\ snapshot' = [snapshot EXCEPT !.state = "disconnected",
                                          !.endpoints = present[controller]]
          /\ StillWorking("reply")
     ELSE /\ snapshot' = [snapshot EXCEPT !.state = "error"]
          /\ Answer(Failure)
  /\ UNCHANGED <<jobs, controller, lifecycle, opened, present, notice>>

-----------------------------------------------------------------------------
(* connect() *)

(* Both routes are selected anew among those that were listed; one that was  *)
(* not is refused, and one before it stays selected.                         *)
SelectRoutes ==
  /\ work.at = "connect"
  /\ controller # NoController
  /\ IF work.job.routes \subseteq snapshot.endpoints
     THEN /\ snapshot' = [snapshot EXCEPT !.state = "ready", !.routes = work.job.routes]
          /\ StillWorking("open")
     ELSE /\ \E kept \in SUBSET (work.job.routes \cap snapshot.endpoints) :
               snapshot' = [snapshot EXCEPT !.routes = kept,
                              !.state = IF kept = {} THEN "disconnected" ELSE "ready"]
          /\ Answer(Failure)
  /\ UNCHANGED <<jobs, controller, lifecycle, opened, present, notice>>

BeginOpening ==
  /\ work.at = "open"
  /\ BeginOpen(lifecycle) # Refused
  /\ lifecycle' = BeginOpen(lifecycle)
  /\ StillWorking("opening")
  /\ UNCHANGED <<jobs, controller, snapshot, opened, present, notice>>

(* The life cycle refuses: the transport is not asked at all. *)
OpenRefused ==
  /\ work.at = "open"
  /\ BeginOpen(lifecycle) = Refused
  /\ snapshot' = [snapshot EXCEPT !.state = "error"]
  /\ Answer(Failure)
  /\ UNCHANGED <<jobs, controller, lifecycle, opened, present, notice>>

EndOpeningAlways(ok) ==
  /\ work.at = "opening"
  /\ ok => work.job.routes \subseteq present[controller]
  /\ lifecycle' = CompleteOpen(lifecycle)
  /\ opened' = IF ok THEN work.job.routes ELSE {}
  /\ StillWorking(IF ok THEN "opened" ELSE "unopened")
  /\ UNCHANGED <<jobs, controller, snapshot, present, notice>>

(* The transport opens exactly the routes requested, or none. *)
EndOpening(ok) ==
  /\ work.at = "opening"
  /\ ok => work.job.routes \subseteq present[controller]
  /\ lifecycle' = IF ok THEN CompleteOpen(lifecycle) ELSE Fail
  /\ opened' = IF ok THEN work.job.routes ELSE {}
  /\ StillWorking(IF ok THEN "opened" ELSE "unopened")
  /\ UNCHANGED <<jobs, controller, snapshot, present, notice>>

PresentConnected ==
  /\ work.at \in {"opened", "unopened"}
  /\ snapshot' = [snapshot EXCEPT !.state = "connected"]
  /\ StillWorking("reply")
  /\ UNCHANGED <<jobs, controller, lifecycle, opened, present, notice>>

(* connect_selected() records how open() ended. *)
PresentOutcome ==
  /\ work.at \in {"opened", "unopened"}
  /\ snapshot' = [snapshot EXCEPT !.state = IF work.at = "opened" THEN "connected" ELSE "error"]
  /\ IF work.at = "opened" THEN StillWorking("reply") ELSE Answer(Failure)
  /\ UNCHANGED <<jobs, controller, lifecycle, opened, present, notice>>

-----------------------------------------------------------------------------
(* snapshot(), which also ends a command that succeeded, and the commands    *)
(* that find no backend selected.                                            *)

TakeSnapshot ==
  /\ work.at \in {"snapshot", "reply"}
  /\ controller # NoController
  /\ Answer(Success(snapshot))
  /\ UNCHANGED <<jobs, controller, snapshot, lifecycle, opened, present, notice>>

NothingSelected ==
  /\ work.at \in {"connect", "disconnect", "snapshot"}
  /\ controller = NoController
  /\ Answer(Failure)
  /\ UNCHANGED <<jobs, controller, snapshot, lifecycle, opened, present, notice>>

Worker ==
  \/ Take
  \/ SelectFirst
  \/ \E step \in {"select", "disconnect"} : BeginClosing(step) \/ AlreadyClosed(step)
  \/ \E ok \in BOOLEAN : EndClosing(ok) \/ Create(ok) \/ List(ok) \/ EndOpening(ok)
  \/ SelectRoutes \/ BeginOpening \/ OpenRefused
  \/ PresentOutcome
  \/ TakeSnapshot \/ NothingSelected

-----------------------------------------------------------------------------
(* The devices. *)

(* A device disappears.  A transport that reports it, and has the route      *)
(* selected, fails and has a notice to give, which it gives before the next. *)
RemoveEndpoint(backend, route) ==
  /\ notice = "none"
  /\ route \in present[backend]
  /\ present' = [present EXCEPT ![backend] = @ \ {route}]
  /\ IF backend = controller /\ route \in opened /\ backend \in Reporting
     THEN lifecycle' = Fail /\ notice' = "current"
     ELSE UNCHANGED <<lifecycle, notice>>
  /\ UNCHANGED <<jobs, work, controller, snapshot, opened, answer>>

(* endpoint_changed(), on the transport's thread.  A notice to a controller  *)
(* destroyed meanwhile writes to freed memory: the write is lost, or lands   *)
(* in the controller that took its place.                                    *)
EndpointChanged ==
  LET degraded == [snapshot EXCEPT !.state = "degraded"] IN
  /\ notice # "none"
  /\ notice' = "none"
  /\ \/ notice = "destroyed" /\ snapshot' = snapshot
     \/ controller # NoController /\ snapshot' = degraded
  /\ UNCHANGED <<jobs, work, controller, lifecycle, opened, present, answer>>

=============================================================================
