-------------------------- MODULE ConnectionProofs --------------------------
(***************************************************************************)
(* What ConnectionUi promises, for every set of backends, routes and       *)
(* devices: "connected" is presented only over an open or reported-lost    *)
(* connection of the presented routes, no transport that holds routes is   *)
(* replaced, and no open connection is hidden from the user.               *)
(*                                                                         *)
(* None is inductive.  What is presented is decided one or more steps      *)
(* after the transport opened or closed, so the invariant says what holds  *)
(* at each place of the worker in between; what the window shows is        *)
(* decided by an answer taken earlier still, so a second invariant follows *)
(* each command from its post to its answer.                               *)
(***************************************************************************)
EXTENDS ConnectionUi, TLAPS

(* A connect command names a route, a select command a backend. *)
IsJob(j) ==
  /\ j.name \in {"select", "connect", "disconnect", "snapshot"}
  /\ j.name = "connect" => j.routes # {}
  /\ j.name = "select" => j.backend # NoController

IsJobs(q) == \E S : q \in Seq(S) /\ \A j \in S : IsJob(j)

IsSnapshot(s) == s = [state |-> s.state, routes |-> s.routes, endpoints |-> s.endpoints]

Lost == ~(opened \subseteq present[controller])

Shape ==
  /\ IsJobs(jobs)
  /\ work = [at |-> work.at, job |-> work.job]
  /\ IsSnapshot(snapshot)
  /\ present \in [Backends -> SUBSET Routes]
  /\ work.at # "idle" => IsJob(work.job)

(* Only a transport can be open or hold routes. *)
Holding ==
  /\ controller = NoController => lifecycle = "closed"
  /\ lifecycle \in {"closed", "opening"} => opened = {}

(* At each place of the worker. *)
Places ==
  /\ work.at \in {"select", "create"} => work.job.name = "select"
  /\ work.at \in {"connect", "open", "opening", "opened"} => work.job.name = "connect"
  /\ work.at = "create" => lifecycle = "closed"
  /\ work.at \in {"open", "opening", "opened", "unopened", "closing", "list"}
       => controller # NoController
  /\ work.at = "opening" => lifecycle = "opening"
  /\ work.at \in {"open", "opening"}
       => snapshot.routes = work.job.routes /\ snapshot.state # "connected"
  /\ work.at = "opened"
       => opened = snapshot.routes /\ opened # {} /\ (lifecycle = "open" \/ Lost)

IInv == Shape /\ Holding /\ Places /\ HonestConnection

-----------------------------------------------------------------------------
(* The queue of commands. *)

LEMMA JobsAppend ==
  ASSUME NEW q, IsJobs(q), NEW j, IsJob(j)
  PROVE  IsJobs(Append(q, j))
<1>1. PICK S : q \in Seq(S) /\ \A x \in S : IsJob(x)
  BY DEF IsJobs
<1> DEFINE T == S \cup {j}
<1>2. \A x \in T : IsJob(x)
  BY <1>1
<1>3. q \in Seq(T) /\ j \in T
  BY <1>1
<1> HIDE DEF T
<1>4. Append(q, j) \in Seq(T)
  BY <1>3
<1> QED BY <1>2, <1>4 DEF IsJobs

LEMMA JobsTake ==
  ASSUME NEW q, IsJobs(q), q # <<>>
  PROVE  IsJobs(Tail(q)) /\ IsJob(Head(q))
<1>1. PICK S : q \in Seq(S) /\ \A x \in S : IsJob(x)
  BY DEF IsJobs
<1>2. Tail(q) \in Seq(S) /\ Head(q) \in S
  BY <1>1
<1> QED BY <1>1, <1>2 DEF IsJobs

-----------------------------------------------------------------------------
(* The constructor's first command is well formed. *)
LEMMA InitInv == Init => IInv
<1> SUFFICES ASSUME Init PROVE IInv
  OBVIOUS
<1> DEFINE first == Command("select", Wms, {}, "user")
           only  == {first}
<1>1. IsJob(first)
  BY BackendsAssumption, ConnectionAssumption DEF IsJob, Command, NoController
<1>2. jobs = <<first>>
  BY DEF Init
<1> HIDE DEF first
<1>3. <<first>> \in Seq(only) /\ \A j \in only : IsJob(j)
  BY <1>1
<1> HIDE DEF only
<1>4. IsJobs(jobs)
  BY <1>2, <1>3 DEF IsJobs
<1>5. present \in [Backends -> SUBSET Routes]
  BY ConnectionAssumption DEF Init, ConnectionInit
<1>6. Shape
  BY <1>4, <1>5 DEF Init, ConnectionInit, Shape, Idle, NewSnapshot, IsSnapshot
<1>7. Holding /\ Places /\ HonestConnection
  BY DEF Init, ConnectionInit, Holding, Places, HonestConnection, Idle, NewSnapshot
<1> QED BY <1>6, <1>7 DEF IInv

(* The window only posts well-formed commands and reads answers. *)
LEMMA WindowStep ==
  ASSUME IInv,
         UNCHANGED <<work, controller, snapshot, lifecycle, opened, present, notice>>,
         jobs' = jobs \/ \E j : IsJob(j) /\ jobs' = Append(jobs, j)
  PROVE  IInv'
<1>1. IsJobs(jobs')
  BY JobsAppend DEF IInv, Shape
<1>2. Shape'
  BY <1>1 DEF IInv, Shape, IsSnapshot
<1>3. Holding' /\ Places' /\ HonestConnection'
  BY DEF IInv, Holding, Places, HonestConnection, Lost
<1> QED BY <1>2, <1>3 DEF IInv

LEMMA UserStep ==
  ASSUME IInv, User
  PROVE  IInv'
<1>1. CASE \E index \in {AutoIndex, Wms, Winmm} : ChooseBackend(index)
  <2>1. PICK index : ChooseBackend(index)
    BY <1>1
  <2>2. IsJob(Command("select", Preferred(index), {}, "user"))
    BY BackendsAssumption, ConnectionAssumption DEF IsJob, Command, Preferred, NoController
  <2> QED BY <2>1, <2>2, WindowStep DEF ChooseBackend, SelectBackend, Click, Enqueue
<1>2. CASE Disconnect
  <2>1. IsJob(Command("disconnect", "none", {}, "user"))
    BY DEF IsJob, Command
  <2> QED BY <1>2, <2>1, WindowStep DEF Disconnect, Click, Enqueue
<1>3. CASE \E routes \in SUBSET listed : Connect(routes)
  <2>1. PICK routes : Connect(routes)
    BY <1>3
  <2>2. IsJob(Command("connect", "none", routes, "user"))
    BY <2>1 DEF IsJob, Command, Connect
  <2> QED BY <2>1, <2>2, WindowStep DEF Connect, Click, Enqueue
<1> QED BY <1>1, <1>2, <1>3 DEF User

LEMMA PollStep ==
  ASSUME IInv, Poll
  PROVE  IInv'
<1>1. CASE PollRefresh
  BY <1>1, WindowStep DEF PollRefresh, Polls
<1>2. CASE PollIdle
  <2>1. IsJob(Command("snapshot", "none", {}, "refresh"))
    BY DEF IsJob, Command
  <2> QED BY <1>2, <2>1, WindowStep DEF PollIdle, Polls, Enqueue
<1>3. CASE PollWaiting
  BY <1>3, WindowStep DEF PollWaiting, Polls
<1>4. CASE PollFallback
  <2>1. IsJob(Command("select", Winmm, {}, "user"))
    BY BackendsAssumption, ConnectionAssumption DEF IsJob, Command, NoController
  <2> QED BY <1>4, <2>1, WindowStep DEF PollFallback, PollAnswer, Polls, SelectBackend, Enqueue
<1>5. CASE PollFailure
  BY <1>5, WindowStep DEF PollFailure, PollAnswer, Polls
<1>6. CASE PollSuccess
  BY <1>6, WindowStep DEF PollSuccess, PollAnswer, Polls
<1> QED BY <1>1, <1>2, <1>3, <1>4, <1>5, <1>6 DEF Poll

-----------------------------------------------------------------------------
(* The worker's steps. *)

LEMMA TakeStep ==
  ASSUME IInv, Take
  PROVE  IInv'
<1>1. IsJobs(jobs') /\ IsJob(work'.job) /\ work'.at = work'.job.name
  BY JobsTake DEF IInv, Shape, Take
<1>2. Shape'
  BY <1>1 DEF IInv, Shape, IsSnapshot, IsJob, Take
<1>3. Holding' /\ Places' /\ HonestConnection'
  BY <1>1 DEF IInv, Holding, Places, HonestConnection, IsJob, Take
<1> QED BY <1>2, <1>3 DEF IInv

(* Recording how a close ended presents nothing as connected. *)
LEMMA ClosedPresents ==
  ASSUME IInv, NEW ok \in BOOLEAN, Closed(ok)
  PROVE  /\ IsSnapshot(snapshot') /\ snapshot'.state # "connected"
         /\ work' = [at |-> work'.at, job |-> work'.job]
         /\ work'.at \in {"create", "reply", "idle"}
         /\ work'.at # "idle" => work'.job = work.job
         /\ work'.at = "create" => ok /\ work.job.name = "select"
<1>1. IsSnapshot(snapshot') /\ snapshot'.state # "connected"
  BY DEF Closed, IInv, Shape, IsSnapshot
<1>2. /\ work' = [at |-> work'.at, job |-> work'.job]
      /\ work'.at \in {"create", "reply", "idle"}
      /\ work'.at # "idle" => work'.job = work.job
      /\ work'.at = "create" => ok /\ work.job.name = "select"
  BY DEF Closed, StillWorking, Answer, At, Idle, IInv, Shape
<1> QED BY <1>1, <1>2

LEMMA BeginClosingStep ==
  ASSUME IInv, NEW step \in {"select", "disconnect"}, BeginClosing(step)
  PROVE  IInv'
<1>1. Shape'
  BY DEF IInv, Shape, IsSnapshot, BeginClosing, StillWorking, At
<1>2. lifecycle \notin {"closed", "opening"}
  BY DEF BeginClosing, BeginClose, Refused
<1>3. Holding' /\ Places' /\ HonestConnection'
  BY <1>2 DEF IInv, Shape, Holding, Places, HonestConnection, BeginClosing, StillWorking, At, Lost
<1> QED BY <1>1, <1>3 DEF IInv

LEMMA EndClosingStep ==
  ASSUME IInv, NEW ok \in BOOLEAN, EndClosing(ok)
  PROVE  IInv'
<1> DEFINE closed == ok /\ CompleteClose(lifecycle) # Refused
<1>1. /\ closed => lifecycle' = "closed" /\ opened' = {}
      /\ ~closed => lifecycle' = "failed" /\ opened' = opened
  BY DEF EndClosing, CompleteClose, RequireAndSet, Fail
<1>2. Closed(closed) /\ closed \in BOOLEAN
  BY DEF EndClosing
<1> HIDE DEF closed
<1>3. /\ IsSnapshot(snapshot') /\ snapshot'.state # "connected"
      /\ work' = [at |-> work'.at, job |-> work'.job]
      /\ work'.at \in {"create", "reply", "idle"}
      /\ work'.at # "idle" => work'.job = work.job
      /\ work'.at = "create" => closed /\ work.job.name = "select"
  BY <1>2, ClosedPresents
<1>4. Shape'
  BY <1>3 DEF IInv, Shape, EndClosing
<1>5. Holding'
  BY <1>1 DEF IInv, Holding, Places, EndClosing
<1>6. Places' /\ HonestConnection'
  BY <1>1, <1>3 DEF Places, HonestConnection
<1> QED BY <1>4, <1>5, <1>6 DEF IInv

LEMMA AlreadyClosedStep ==
  ASSUME IInv, NEW step \in {"select", "disconnect"}, AlreadyClosed(step)
  PROVE  IInv'
<1>1. lifecycle = "closed"
  BY DEF AlreadyClosed, BeginClose, Refused
<1>2. /\ IsSnapshot(snapshot') /\ snapshot'.state # "connected"
      /\ work' = [at |-> work'.at, job |-> work'.job]
      /\ work'.at \in {"create", "reply", "idle"}
      /\ work'.at # "idle" => work'.job = work.job
      /\ work'.at = "create" => work.job.name = "select"
  BY ClosedPresents DEF AlreadyClosed
<1>3. Shape'
  BY <1>2 DEF IInv, Shape, AlreadyClosed
<1>4. Holding' /\ Places' /\ HonestConnection'
  BY <1>1, <1>2 DEF IInv, Holding, Places, HonestConnection, AlreadyClosed
<1> QED BY <1>3, <1>4 DEF IInv

LEMMA SelectFirstStep ==
  ASSUME IInv, SelectFirst
  PROVE  IInv'
<1>1. Shape'
  BY DEF IInv, Shape, IsSnapshot, SelectFirst, StillWorking, At
<1>2. Holding' /\ Places' /\ HonestConnection'
  BY DEF IInv, Shape, Holding, Places, HonestConnection, SelectFirst, StillWorking, At
<1> QED BY <1>1, <1>2 DEF IInv

LEMMA CreateStep ==
  ASSUME IInv, NEW made \in BOOLEAN, Create(made)
  PROVE  IInv'
<1>1. /\ work' = [at |-> work'.at, job |-> work'.job]
      /\ work'.at = IF made THEN "list" ELSE "idle"
      /\ made => work'.job = work.job
  BY DEF Create, StillWorking, Answer, At, Idle, IInv, Shape
<1>2. IsSnapshot(snapshot') /\ snapshot'.state = "disconnected"
  BY DEF Create, NewSnapshot, IsSnapshot
<1>3. Shape'
  BY <1>1, <1>2 DEF IInv, Shape, Create
<1>4. Holding'
  BY DEF Create, Holding
<1>5. made => controller' # NoController
  BY DEF Create, IInv, Shape, Places, IsJob
<1>6. Places' /\ HonestConnection'
  BY <1>1, <1>2, <1>5 DEF Places, HonestConnection
<1> QED BY <1>3, <1>4, <1>6 DEF IInv

LEMMA ListStep ==
  ASSUME IInv, NEW ok \in BOOLEAN, List(ok)
  PROVE  IInv'
<1>1. IsSnapshot(snapshot') /\ snapshot'.state # "connected"
  BY DEF List, IInv, Shape, IsSnapshot
<1>2. /\ work' = [at |-> work'.at, job |-> work'.job]
      /\ work'.at \in {"reply", "idle"}
      /\ work'.at = "reply" => work'.job = work.job
  BY DEF List, StillWorking, Answer, At, Idle, IInv, Shape
<1>3. Shape'
  BY <1>1, <1>2 DEF IInv, Shape, List
<1>4. Holding' /\ Places' /\ HonestConnection'
  BY <1>1, <1>2 DEF IInv, Holding, Places, HonestConnection, List
<1> QED BY <1>3, <1>4 DEF IInv

LEMMA SelectRoutesStep ==
  ASSUME IInv, SelectRoutes
  PROVE  IInv'
<1>1. /\ IsSnapshot(snapshot') /\ snapshot'.state # "connected"
      /\ work' = [at |-> work'.at, job |-> work'.job]
      /\ \/ work'.at = "idle"
         \/ work'.at = "open" /\ work'.job = work.job /\ snapshot'.routes = work.job.routes
  <2>1. CASE work.job.routes \subseteq snapshot.endpoints
    BY <2>1 DEF SelectRoutes, StillWorking, At, IInv, Shape, IsSnapshot
  <2>2. CASE ~(work.job.routes \subseteq snapshot.endpoints)
    <3>1. PICK kept : snapshot' = [snapshot EXCEPT !.routes = kept,
                                     !.state = IF kept = {} THEN "disconnected" ELSE "ready"]
      BY <2>2 DEF SelectRoutes
    <3>2. work' = Idle("none")
      BY <2>2 DEF SelectRoutes, Answer
    <3> QED BY <3>1, <3>2 DEF IInv, Shape, IsSnapshot, Idle
  <2> QED BY <2>1, <2>2
<1>2. Shape'
  BY <1>1 DEF IInv, Shape, SelectRoutes
<1>3. Holding' /\ Places' /\ HonestConnection'
  BY <1>1 DEF IInv, Holding, Places, HonestConnection, SelectRoutes
<1> QED BY <1>2, <1>3 DEF IInv

LEMMA BeginOpeningStep ==
  ASSUME IInv, BeginOpening
  PROVE  IInv'
<1>1. lifecycle = "closed" /\ lifecycle' = "opening"
  BY DEF BeginOpening, BeginOpen, RequireAndSet
<1>2. Shape'
  BY DEF IInv, Shape, IsSnapshot, BeginOpening, StillWorking, At
<1>3. Holding' /\ Places' /\ HonestConnection'
  BY <1>1 DEF IInv, Shape, Holding, Places, HonestConnection, BeginOpening, StillWorking, At
<1> QED BY <1>2, <1>3 DEF IInv

LEMMA OpenRefusedStep ==
  ASSUME IInv, OpenRefused
  PROVE  IInv'
<1>1. /\ IsSnapshot(snapshot') /\ snapshot'.state = "error"
      /\ work' = [at |-> "idle", job |-> work'.job]
  BY DEF OpenRefused, Answer, Idle, IInv, Shape, IsSnapshot
<1>2. Shape' /\ Holding' /\ Places' /\ HonestConnection'
  BY <1>1 DEF IInv, Shape, Holding, Places, HonestConnection, OpenRefused
<1> QED BY <1>2 DEF IInv

(* The routes opened are the ones requested, which are the ones presented.   *)
LEMMA EndOpeningStep ==
  ASSUME IInv, NEW ok \in BOOLEAN, EndOpening(ok)
  PROVE  IInv'
<1>1. /\ lifecycle' = IF ok THEN "open" ELSE "failed"
      /\ work' = [at |-> IF ok THEN "opened" ELSE "unopened", job |-> work.job]
      /\ opened' = IF ok THEN work.job.routes ELSE {}
  BY DEF IInv, Shape, Places, EndOpening, CompleteOpen, RequireAndSet, Fail, StillWorking, At
<1>2. work.job.routes # {} /\ snapshot.routes = work.job.routes
  BY DEF IInv, Shape, Places, IsJob, EndOpening
<1>3. Shape'
  BY <1>1 DEF IInv, Shape, IsSnapshot, EndOpening
<1>4. Holding' /\ Places' /\ HonestConnection'
  BY <1>1, <1>2 DEF IInv, Holding, Places, HonestConnection, EndOpening
<1> QED BY <1>3, <1>4 DEF IInv

LEMMA PresentOutcomeStep ==
  ASSUME IInv, PresentOutcome
  PROVE  IInv'
<1>1. /\ IsSnapshot(snapshot') /\ snapshot'.routes = snapshot.routes
      /\ snapshot'.state = "connected" => work.at = "opened"
      /\ work' = [at |-> work'.at, job |-> work'.job]
      /\ work'.at = "idle" \/ (work'.at = "reply" /\ work'.job = work.job)
  <2>1. CASE work.at = "opened"
    BY <2>1 DEF PresentOutcome, StillWorking, At, IInv, Shape, IsSnapshot
  <2>2. CASE work.at = "unopened"
    <3>1. snapshot' = [snapshot EXCEPT !.state = "error"]
      BY <2>2 DEF PresentOutcome
    <3>2. IsSnapshot(snapshot') /\ snapshot'.routes = snapshot.routes /\ snapshot'.state = "error"
      BY <3>1 DEF IInv, Shape, IsSnapshot
    <3>3. work' = Idle("none")
      BY <2>2 DEF PresentOutcome, Answer
    <3> QED BY <3>2, <3>3 DEF Idle
  <2> QED BY <2>1, <2>2 DEF PresentOutcome
<1>2. Shape'
  BY <1>1 DEF IInv, Shape, PresentOutcome
<1>3. Holding' /\ Places'
  BY <1>1 DEF IInv, Holding, Places, PresentOutcome
<1>4. HonestConnection'
  BY <1>1 DEF IInv, Places, HonestConnection, Lost, PresentOutcome
<1> QED BY <1>2, <1>3, <1>4 DEF IInv

LEMMA AnswerStep ==
  ASSUME IInv, TakeSnapshot \/ NothingSelected
  PROVE  IInv'
<1>1. work' = [at |-> "idle", job |-> work'.job]
  BY DEF TakeSnapshot, NothingSelected, Answer, Idle
<1>2. Shape'
  BY <1>1 DEF IInv, Shape, IsSnapshot, TakeSnapshot, NothingSelected
<1>3. Holding' /\ Places' /\ HonestConnection'
  BY <1>1 DEF IInv, Holding, Places, HonestConnection, TakeSnapshot, NothingSelected
<1> QED BY <1>2, <1>3 DEF IInv

LEMMA WorkerStep ==
  ASSUME IInv, Worker
  PROVE  IInv'
<1>1. CASE \E step \in {"select", "disconnect"} : BeginClosing(step) \/ AlreadyClosed(step)
  BY <1>1, BeginClosingStep, AlreadyClosedStep
<1>2. CASE \E ok \in BOOLEAN : EndClosing(ok) \/ Create(ok) \/ List(ok) \/ EndOpening(ok)
  BY <1>2, EndClosingStep, CreateStep, ListStep, EndOpeningStep
<1> QED
  BY <1>1, <1>2, TakeStep, SelectFirstStep, SelectRoutesStep, BeginOpeningStep, OpenRefusedStep,
     PresentOutcomeStep, AnswerStep DEF Worker

-----------------------------------------------------------------------------
(* The devices' steps. *)

(* What is lost stays lost; a transport only fails by losing what it holds.  *)
LEMMA RemoveStep ==
  ASSUME IInv, NEW backend \in Backends, NEW route \in Routes, RemoveEndpoint(backend, route)
  PROVE  IInv'
<1>1. /\ present' \in [Backends -> SUBSET Routes]
      /\ present'[controller] \subseteq present[controller]
      /\ backend = controller => route \notin present'[controller]
  <2>1. present' = [present EXCEPT ![backend] = @ \ {route}]
    BY DEF RemoveEndpoint
  <2>2. present \in [Backends -> SUBSET Routes]
    BY DEF IInv, Shape
  <2> QED BY <2>1, <2>2
<1>2. \/ lifecycle' = lifecycle
      \/ lifecycle' = "failed" /\ backend = controller /\ route \in opened
  BY DEF RemoveEndpoint, Fail
<1>3. Shape'
  BY <1>1 DEF IInv, Shape, IsSnapshot, RemoveEndpoint
<1>4. Lost => Lost'
  BY <1>1 DEF Lost, RemoveEndpoint
<1>5. lifecycle' # lifecycle => Lost'
  BY <1>1, <1>2 DEF Lost, RemoveEndpoint
<1>6. Holding'
  BY <1>2 DEF IInv, Holding, RemoveEndpoint
<1>7. Places' /\ HonestConnection'
  BY <1>2, <1>4, <1>5 DEF IInv, Holding, Places, HonestConnection, Lost, RemoveEndpoint
<1> QED BY <1>3, <1>6, <1>7 DEF IInv

LEMMA NoticeStep ==
  ASSUME IInv, EndpointChanged
  PROVE  IInv'
<1>1. \/ snapshot' = snapshot
      \/ /\ IsSnapshot(snapshot') /\ snapshot'.state = "degraded"
         /\ snapshot'.routes = snapshot.routes
  BY DEF EndpointChanged, IInv, Shape, IsSnapshot
<1>2. Shape'
  BY <1>1 DEF IInv, Shape, IsSnapshot, EndpointChanged
<1>3. Holding' /\ Places' /\ HonestConnection'
  BY <1>1 DEF IInv, Holding, Places, HonestConnection, Lost, EndpointChanged
<1> QED BY <1>2, <1>3 DEF IInv

-----------------------------------------------------------------------------

LEMMA NextInv == IInv /\ [Next]_vars => IInv'
<1> SUFFICES ASSUME IInv, [Next]_vars PROVE IInv'
  OBVIOUS
<1>1. CASE UNCHANGED vars
  BY <1>1, WindowStep DEF vars, connectionVars
<1>2. CASE User
  BY <1>2, UserStep
<1>3. CASE Poll
  BY <1>3, PollStep
<1>4. CASE WorkerRuns
  BY <1>4, WorkerStep DEF WorkerRuns
<1>5. CASE Notified
  BY <1>5, NoticeStep DEF Notified
<1>6. CASE \E backend \in Backends, route \in Routes : Disappear(backend, route)
  BY <1>6, RemoveStep DEF Disappear
<1> QED BY <1>1, <1>2, <1>3, <1>4, <1>5, <1>6 DEF Next

(* The inductive invariant holds for ever.                                   *)
THEOREM Inductive == Spec => []IInv
  BY InitInv, NextInv, PTL DEF Spec

(* For all backends, routes and devices, and any number of requests and      *)
(* losses: "connected" is presented only over a transport that opened        *)
(* exactly the presented routes and is open, being closed, or has reported   *)
(* a loss (ConnectionController::connect_selected() and disconnect()).       *)
THEOREM Honest == Spec => []HonestConnection
<1>1. IInv => HonestConnection
  BY DEF IInv
<1> QED BY <1>1, Inductive, PTL

(* Likewise, ConnectionWorker::select_backend() never replaces a transport   *)
(* that is not closed or still holds routes.                                 *)
THEOREM OnlyClosedReplaced == Spec => ReplacedOnlyWhenClosed
<1>1. IInv => (work.at = "create" => lifecycle = "closed" /\ opened = {})
  BY DEF IInv, Places, Holding
<1>2. IInv => [work.at = "create" /\ work' # work => lifecycle = "closed" /\ opened = {}]_vars
  BY <1>1
<1> QED BY <1>2, Inductive, PTL DEF ReplacedOnlyWhenClosed

-----------------------------------------------------------------------------
(* Who waits for what.  That no connection is hidden depends on the window   *)
(* having at most one request and one background snapshot in the worker, so  *)
(* the invariant follows each command from its post to its answer.           *)

(* The window holds a future of this client. *)
Outstanding(c) == IF c = "user" THEN Pending ELSE refreshPending

Working(c) == work.at # "idle" /\ work.job.from = c

(* A background command is a snapshot and nothing else. *)
KnownJob(j) ==
  /\ j.from \in Clients
  /\ j.from = "refresh" <=> j.name = "snapshot"

(* A command waits where its client's future is, and is in one place only.   *)
Single ==
  /\ \A i \in 1..Len(jobs) : KnownJob(jobs[i])
  /\ \A i \in 1..Len(jobs), k \in 1..Len(jobs) : jobs[i].from = jobs[k].from => i = k
  /\ \A i \in 1..Len(jobs), c \in Clients :
       jobs[i].from = c => Outstanding(c) /\ ~answer[c].ready /\ ~Working(c)
  /\ \A c \in Clients : Working(c) => Outstanding(c) /\ ~answer[c].ready
  /\ \A c \in Clients : answer[c].ready => Outstanding(c)
  /\ work.at # "idle" => work.job.from \in Clients
  /\ work.at # "idle" => (work.job.from = "refresh" <=> work.at = "snapshot")

Records ==
  /\ pending = [action |-> pending.action, backend |-> pending.backend]
  /\ answer = [c \in Clients |-> answer[c]]

WInv == IInv /\ Records /\ Single

(* Appending to the queue keeps its places and fills the next one. *)
LEMMA QueueAppend ==
  ASSUME NEW q, IsJobs(q), NEW j
  PROVE  /\ Len(q) \in Nat
         /\ Len(Append(q, j)) = Len(q) + 1
         /\ \A i \in 1..Len(q) : Append(q, j)[i] = q[i]
         /\ Append(q, j)[Len(q) + 1] = j
<1>1. PICK S : q \in Seq(S)
  BY DEF IsJobs
<1> DEFINE T == S \cup {j}
<1>2. q \in Seq(T) /\ j \in T
  BY <1>1
<1> HIDE DEF T
<1> QED BY <1>2

(* Taking its head moves each of its places down by one. *)
LEMMA QueueTail ==
  ASSUME NEW q, IsJobs(q), q # <<>>
  PROVE  /\ Len(q) \in Nat \ {0}
         /\ Len(Tail(q)) = Len(q) - 1
         /\ Head(q) = q[1]
         /\ \A i \in 1..Len(Tail(q)) : Tail(q)[i] = q[i + 1] /\ i + 1 \in 1..Len(q)
<1>1. PICK S : q \in Seq(S)
  BY DEF IsJobs
<1>2. Len(q) \in Nat \ {0} /\ Len(Tail(q)) = Len(q) - 1 /\ Head(q) = q[1]
  BY <1>1
<1>3. \A i \in 1..Len(Tail(q)) : Tail(q)[i] = q[i + 1] /\ i + 1 \in 1..Len(q)
  BY <1>1, <1>2
<1> QED BY <1>2, <1>3

LEMMA InitSingle == Init => Records /\ Single
<1> SUFFICES ASSUME Init PROVE Records /\ Single
  OBVIOUS
<1> DEFINE first == Command("select", Wms, {}, "user")
<1>1. first.from = "user" /\ first.name = "select"
  BY DEF Command
<1>2. jobs = <<first>>
  BY DEF Init
<1> HIDE DEF first
<1>3. Len(jobs) = 1 /\ jobs[1] = first
  BY <1>2
<1>4. work.at = "idle" /\ Pending
  BY DEF Init, ConnectionInit, Idle, Pending
<1>5. answer = [c \in Clients |-> NoAnswer] /\ \A c \in Clients : ~answer[c].ready
  BY DEF Init, ConnectionInit, NoAnswer
<1>6. Records
  BY <1>5 DEF Init, Records
<1>7. \A i \in 1..Len(jobs) : i = 1 /\ jobs[i].from = "user" /\ jobs[i].name = "select"
  BY <1>1, <1>3
<1>8. Single
  BY <1>4, <1>5, <1>7 DEF Single, KnownJob, Outstanding, Working, Clients
<1> QED BY <1>6, <1>8

(* The window posts a command of a client it has nothing of in the worker.   *)
Posts(c, j) ==
  /\ jobs' = Append(jobs, j)
  /\ KnownJob(j) /\ j.from = c
  /\ work' = work
  /\ \A i \in 1..Len(jobs) : jobs[i].from # c
  /\ ~Working(c)
  /\ Outstanding(c)' /\ ~answer'[c].ready
  /\ \A d \in Clients \ {c} : Outstanding(d)' = Outstanding(d) /\ answer'[d] = answer[d]

LEMMA PostSingle ==
  ASSUME WInv, NEW c \in Clients, NEW j, Posts(c, j)
  PROVE  Single'
<1>1. /\ Len(jobs) \in Nat
      /\ Len(jobs') = Len(jobs) + 1
      /\ \A i \in 1..Len(jobs) : jobs'[i] = jobs[i]
      /\ jobs'[Len(jobs) + 1] = j
  BY QueueAppend DEF WInv, IInv, Shape, Posts
<1>2. ASSUME NEW i \in 1..Len(jobs')
      PROVE  \/ i \in 1..Len(jobs) /\ jobs'[i] = jobs[i] /\ jobs'[i].from # c
             \/ i = Len(jobs) + 1 /\ jobs'[i] = j /\ jobs'[i].from = c
  BY <1>1 DEF Posts
<1>3. \A d \in Clients : Working(d)' = Working(d)
  BY DEF Working, Posts
<1>4. \A i \in 1..Len(jobs') : KnownJob(jobs'[i])
  BY <1>2 DEF Posts, WInv, Single
<1>5. \A i \in 1..Len(jobs'), k \in 1..Len(jobs') : jobs'[i].from = jobs'[k].from => i = k
  BY <1>2 DEF WInv, Single
<1>6. ASSUME NEW i \in 1..Len(jobs'), NEW d \in Clients, jobs'[i].from = d
      PROVE  Outstanding(d)' /\ ~answer'[d].ready /\ ~Working(d)'
  BY <1>2, <1>3, <1>6 DEF Posts, WInv, Single
<1>7. \A d \in Clients : Working(d)' => Outstanding(d)' /\ ~answer'[d].ready
  BY <1>3 DEF Posts, WInv, Single
<1>8. \A d \in Clients : answer'[d].ready => Outstanding(d)'
  BY DEF Posts, WInv, Single
<1>9. work' = work
  BY DEF Posts
<1> QED BY <1>4, <1>5, <1>6, <1>7, <1>8, <1>9 DEF Single, WInv, KnownJob

(* It gives up a future only with the answer it has read. *)
Reads(c) ==
  /\ UNCHANGED <<jobs, work>>
  /\ answer[c].ready /\ ~answer'[c].ready
  /\ \A d \in Clients \ {c} : Outstanding(d)' = Outstanding(d) /\ answer'[d] = answer[d]

LEMMA ReadSingle ==
  ASSUME WInv, NEW c \in Clients, Reads(c)
  PROVE  Single'
<1>1. \A d \in Clients : Working(d)' = Working(d)
  BY DEF Working, Reads
<1>2. ~Working(c) /\ \A i \in 1..Len(jobs) : jobs[i].from # c
  BY DEF WInv, Single, Reads
<1>3. ASSUME NEW i \in 1..Len(jobs'), NEW d \in Clients, jobs'[i].from = d
      PROVE  Outstanding(d)' /\ ~answer'[d].ready /\ ~Working(d)'
  BY <1>1, <1>2, <1>3 DEF Reads, WInv, Single
<1>4. \A d \in Clients : Working(d)' => Outstanding(d)' /\ ~answer'[d].ready
  BY <1>1, <1>2 DEF Reads, WInv, Single
<1>5. \A d \in Clients : answer'[d].ready => Outstanding(d)'
  BY DEF Reads, WInv, Single
<1> QED BY <1>3, <1>4, <1>5 DEF Reads, Single, WInv, KnownJob

(* A step that neither posts, takes, answers nor reads. *)
Leaves ==
  /\ UNCHANGED <<jobs, answer, pending, refreshPending>>
  /\ \/ work' = work
     \/ /\ work.at \notin {"idle", "snapshot"} /\ work'.at \notin {"idle", "snapshot"}
        /\ work'.job = work.job

LEMMA LeaveSingle ==
  ASSUME WInv, Leaves
  PROVE  Single'
<1>1. \A d \in Clients : Working(d)' = Working(d) /\ Outstanding(d)' = Outstanding(d)
  BY DEF Working, Outstanding, Pending, Leaves
<1>2. ASSUME NEW i \in 1..Len(jobs'), NEW d \in Clients, jobs'[i].from = d
      PROVE  Outstanding(d)' /\ ~answer'[d].ready /\ ~Working(d)'
  BY <1>1, <1>2 DEF Leaves, WInv, Single
<1>3. \A d \in Clients : Working(d)' => Outstanding(d)' /\ ~answer'[d].ready
  BY <1>1 DEF Leaves, WInv, Single
<1>4. \A d \in Clients : answer'[d].ready => Outstanding(d)'
  BY <1>1 DEF Leaves, WInv, Single
<1>5. /\ work'.at # "idle" => work'.job.from \in Clients
      /\ work'.at # "idle" => (work'.job.from = "refresh" <=> work'.at = "snapshot")
  BY DEF Leaves, WInv, Single
<1> QED BY <1>2, <1>3, <1>4, <1>5 DEF Leaves, Single, WInv, KnownJob

(* The worker takes the command that waited longest. *)
LEMMA TakeSingle ==
  ASSUME WInv, Take, UNCHANGED uiVars
  PROVE  Single'
<1>1. /\ Len(jobs) \in Nat \ {0}
      /\ Len(jobs') = Len(jobs) - 1
      /\ Head(jobs) = jobs[1]
      /\ \A i \in 1..Len(jobs') : jobs'[i] = jobs[i + 1] /\ i + 1 \in 1..Len(jobs)
  BY QueueTail DEF WInv, IInv, Shape, Take
<1>2. 1 \in 1..Len(jobs)
  BY <1>1
<1>3. /\ work.at = "idle"
      /\ work'.at = jobs[1].name /\ work'.job = jobs[1]
      /\ KnownJob(jobs[1])
      /\ UNCHANGED <<answer, pending, refreshPending>>
  BY <1>1, <1>2 DEF Take, WInv, Single, uiVars
<1>4. \A d \in Clients : Outstanding(d)' = Outstanding(d)
  BY <1>3 DEF Outstanding, Pending
<1>5. \A d \in Clients : Working(d)' => d = jobs[1].from
  BY <1>3 DEF Working
<1>6. \A i \in 1..Len(jobs') : KnownJob(jobs'[i])
  BY <1>1 DEF WInv, Single
<1>7. \A i \in 1..Len(jobs'), k \in 1..Len(jobs') : jobs'[i].from = jobs'[k].from => i = k
  <2> TAKE i \in 1..Len(jobs'), k \in 1..Len(jobs')
  <2>1. jobs'[i] = jobs[i + 1] /\ i + 1 \in 1..Len(jobs)
    BY <1>1
  <2>2. jobs'[k] = jobs[k + 1] /\ k + 1 \in 1..Len(jobs)
    BY <1>1
  <2>3. jobs'[i].from = jobs'[k].from => i + 1 = k + 1
    BY <2>1, <2>2 DEF WInv, Single
  <2>4. i \in Nat /\ k \in Nat
    BY <1>1
  <2> QED BY <2>3, <2>4
<1>8. ASSUME NEW i \in 1..Len(jobs'), NEW d \in Clients, jobs'[i].from = d
      PROVE  Outstanding(d)' /\ ~answer'[d].ready /\ ~Working(d)'
  <2>1. jobs'[i] = jobs[i + 1] /\ i + 1 \in 1..Len(jobs) /\ i + 1 # 1
    BY <1>1
  <2>2. jobs[1].from # d
    BY <1>2, <1>8, <2>1 DEF WInv, Single
  <2>3. Outstanding(d) /\ ~answer[d].ready
    BY <1>8, <2>1 DEF WInv, Single
  <2> QED BY <1>3, <1>4, <1>5, <2>2, <2>3
<1>9. \A d \in Clients : Working(d)' => Outstanding(d)' /\ ~answer'[d].ready
  BY <1>2, <1>3, <1>4, <1>5 DEF WInv, Single
<1>10. \A d \in Clients : answer'[d].ready => Outstanding(d)'
  BY <1>3, <1>4 DEF WInv, Single
<1> QED BY <1>3, <1>6, <1>7, <1>8, <1>9, <1>10 DEF Single, KnownJob

(* The worker answers the command it has executed. *)
Answers(result) == work.at # "idle" /\ result.ready /\ Answer(result) /\ jobs' = jobs

LEMMA AnswerRead ==
  ASSUME WInv, NEW result, Answers(result)
  PROVE  /\ work.job.from \in Clients /\ Working(work.job.from)
         /\ answer' = [c \in Clients |-> answer'[c]]
         /\ answer'[work.job.from] = result
         /\ \A d \in Clients \ {work.job.from} : answer'[d] = answer[d]
         /\ work'.at = "idle"
<1>1. work.job.from \in Clients /\ Working(work.job.from)
  BY DEF Answers, WInv, Single, Working
<1>2. answer' = [answer EXCEPT ![work.job.from] = result] /\ work'.at = "idle"
  BY DEF Answers, Answer, Idle
<1>3. answer = [c \in Clients |-> answer[c]]
  BY DEF WInv, Records
<1> QED BY <1>1, <1>2, <1>3

LEMMA AnswerSingle ==
  ASSUME WInv, NEW result, Answers(result), UNCHANGED uiVars
  PROVE  Single'
<1>1. /\ work.job.from \in Clients /\ Working(work.job.from)
      /\ answer'[work.job.from] = result
      /\ \A d \in Clients \ {work.job.from} : answer'[d] = answer[d]
      /\ work'.at = "idle"
  BY AnswerRead
<1>2. \A d \in Clients : Outstanding(d)' = Outstanding(d) /\ ~Working(d)'
  BY <1>1 DEF Outstanding, Pending, Working, uiVars
<1>3. jobs' = jobs
  BY DEF Answers
<1>4. ASSUME NEW i \in 1..Len(jobs'), NEW d \in Clients, jobs'[i].from = d
      PROVE  Outstanding(d)' /\ ~answer'[d].ready /\ ~Working(d)'
  <2>1. d # work.job.from
    BY <1>1, <1>3, <1>4 DEF WInv, Single
  <2> QED BY <1>1, <1>2, <1>3, <1>4, <2>1 DEF WInv, Single
<1>5. \A d \in Clients : answer'[d].ready => Outstanding(d)'
  BY <1>1, <1>2 DEF WInv, Single
<1> QED BY <1>1, <1>2, <1>3, <1>4, <1>5 DEF Single, WInv, KnownJob

(* What the window does with its futures is one of these three.              *)
LEMMA UserSingle ==
  ASSUME WInv, User
  PROVE  Records' /\ Single'
<1>1. ASSUME ~Pending
      PROVE  /\ \A i \in 1..Len(jobs) : jobs[i].from # "user"
             /\ ~Working("user") /\ ~answer["user"].ready
  BY <1>1 DEF WInv, Single, Outstanding, Clients
<1>2. ASSUME NEW j, KnownJob(j), j.from = "user", jobs' = Append(jobs, j), ~Pending, Pending',
             UNCHANGED <<work, answer, refreshPending>>
      PROVE  Single'
  <2>1. Posts("user", j)
    BY <1>1, <1>2 DEF Posts, Outstanding, Clients
  <2> QED BY <2>1, PostSingle DEF Clients
<1>3. ASSUME NEW index, ChooseBackend(index)
      PROVE  Records' /\ Single'
  <2> DEFINE job == Command("select", Preferred(index), {}, "user")
  <2>1. KnownJob(job) /\ job.from = "user"
    BY DEF KnownJob, Command, Clients
  <2>2. /\ jobs' = Append(jobs, job) /\ ~Pending
        /\ pending' = [action |-> "backend", backend |-> Preferred(index)]
        /\ UNCHANGED <<work, answer, refreshPending>>
    BY <1>3 DEF ChooseBackend, SelectBackend, Enqueue, Click
  <2> HIDE DEF job
  <2>3. Pending' /\ Records'
    BY <2>2 DEF Pending, WInv, Records
  <2> QED BY <1>2, <2>1, <2>2, <2>3
<1>4. CASE Disconnect
  <2> DEFINE job == Command("disconnect", "none", {}, "user")
  <2>1. KnownJob(job) /\ job.from = "user"
    BY DEF KnownJob, Command, Clients
  <2>2. /\ jobs' = Append(jobs, job) /\ ~Pending
        /\ pending' = [pending EXCEPT !.action = "disconnect"]
        /\ UNCHANGED <<work, answer, refreshPending>>
    BY <1>4 DEF Disconnect, Enqueue, Click
  <2> HIDE DEF job
  <2>3. Pending' /\ Records'
    BY <2>2 DEF Pending, WInv, Records
  <2> QED BY <1>2, <2>1, <2>2, <2>3
<1>5. ASSUME NEW routes, Connect(routes)
      PROVE  Records' /\ Single'
  <2> DEFINE job == Command("connect", "none", routes, "user")
  <2>1. KnownJob(job) /\ job.from = "user"
    BY DEF KnownJob, Command, Clients
  <2>2. /\ jobs' = Append(jobs, job) /\ ~Pending
        /\ pending' = [pending EXCEPT !.action = "connect"]
        /\ UNCHANGED <<work, answer, refreshPending>>
    BY <1>5 DEF Connect, Enqueue, Click
  <2> HIDE DEF job
  <2>3. Pending' /\ Records'
    BY <2>2 DEF Pending, WInv, Records
  <2> QED BY <1>2, <2>1, <2>2, <2>3
<1> QED BY <1>3, <1>4, <1>5 DEF User

(* Reading an answer leaves the other client's in place. *)
LEMMA ReadOne ==
  ASSUME WInv, NEW c \in Clients, Read(c)
  PROVE  /\ answer' = [d \in Clients |-> answer'[d]]
         /\ ~answer'[c].ready
         /\ \A d \in Clients \ {c} : answer'[d] = answer[d]
<1>1. answer = [d \in Clients |-> answer[d]] /\ answer' = [answer EXCEPT ![c] = NoAnswer]
  BY DEF WInv, Records, Read
<1>2. answer'[c] = NoAnswer /\ ~NoAnswer.ready
  BY <1>1 DEF NoAnswer
<1> QED BY <1>1, <1>2

LEMMA PollSingle ==
  ASSUME WInv, Poll
  PROVE  Records' /\ Single'
<1>1. CASE PollRefresh
  <2>1. UNCHANGED <<work, jobs, pending>>
    BY <1>1 DEF PollRefresh, Polls
  <2>2. CASE RefreshReady
    <3>1. Read("refresh")
      BY <1>1, <2>2 DEF PollRefresh
    <3>2. Reads("refresh")
      BY <2>1, <2>2, <3>1, ReadOne DEF Reads, RefreshReady, Outstanding, Pending, Clients
    <3>3. Records'
      BY <2>1, <3>1, ReadOne DEF WInv, Records, Clients
    <3> QED BY <3>2, <3>3, ReadSingle DEF Clients
  <2>3. CASE ~RefreshReady
    <3>1. Leaves /\ Records'
      BY <1>1, <2>1, <2>3 DEF PollRefresh, Leaves, WInv, Records
    <3> QED BY <3>1, LeaveSingle
  <2> QED BY <2>2, <2>3
<1>2. CASE PollIdle
  <2> DEFINE job == Command("snapshot", "none", {}, "refresh")
  <2>1. KnownJob(job) /\ job.from = "refresh"
    BY DEF KnownJob, Command, Clients
  <2>2. /\ UNCHANGED <<work, answer, pending>>
        /\ \/ ~refreshPending /\ refreshPending' /\ jobs' = Append(jobs, job)
           \/ UNCHANGED <<jobs, refreshPending>>
    BY <1>2 DEF PollIdle, Polls, Enqueue
  <2> HIDE DEF job
  <2>3. Records'
    BY <2>2 DEF WInv, Records
  <2>4. CASE ~refreshPending /\ refreshPending' /\ jobs' = Append(jobs, job)
    <3>1. /\ \A i \in 1..Len(jobs) : jobs[i].from # "refresh"
          /\ ~Working("refresh") /\ ~answer["refresh"].ready
      BY <2>4 DEF WInv, Single, Outstanding, Clients
    <3>2. Posts("refresh", job)
      BY <2>1, <2>2, <2>4, <3>1 DEF Posts, Outstanding, Pending, Clients
    <3> QED BY <2>3, <3>2, PostSingle DEF Clients
  <2>5. CASE UNCHANGED <<jobs, refreshPending>>
    BY <2>2, <2>3, <2>5, LeaveSingle DEF Leaves
  <2> QED BY <2>2, <2>4, <2>5
<1>3. CASE PollWaiting
  <2>1. Leaves /\ Records'
    BY <1>3 DEF PollWaiting, Polls, Leaves, WInv, Records
  <2> QED BY <2>1, LeaveSingle
<1>4. CASE PollFallback
  <2> DEFINE job == Command("select", Winmm, {}, "user")
  <2>1. KnownJob(job) /\ job.from = "user"
    BY DEF KnownJob, Command, Clients
  <2>2. /\ UserReady /\ Read("user")
        /\ UNCHANGED <<work, refreshPending>>
        /\ jobs' = Append(jobs, job)
        /\ pending' = [action |-> "backend", backend |-> Winmm]
    BY <1>4 DEF PollFallback, PollAnswer, Polls, SelectBackend, Enqueue
  <2> HIDE DEF job
  <2>3. Pending' /\ Records'
    BY <2>2, ReadOne DEF Pending, WInv, Records, Clients
  <2>4. /\ \A i \in 1..Len(jobs) : jobs[i].from # "user"
        /\ ~Working("user")
    BY <2>2 DEF WInv, Single, UserReady, Clients
  <2>5. Posts("user", job)
    BY <2>1, <2>2, <2>3, <2>4, ReadOne DEF Posts, Outstanding, Clients
  <2> QED BY <2>3, <2>5, PostSingle DEF Clients
<1>5. ASSUME PollFailure \/ PollSuccess
      PROVE  Records' /\ Single'
  <2>1. /\ UserReady /\ Read("user")
        /\ UNCHANGED <<work, jobs, refreshPending>>
        /\ pending' = NoRequest
    BY <1>5 DEF PollFailure, PollSuccess, PollAnswer, Polls
  <2>2. Records'
    BY <2>1, ReadOne DEF WInv, Records, NoRequest, Clients
  <2>3. Reads("user")
    BY <2>1, ReadOne DEF Reads, UserReady, Outstanding, Clients
  <2> QED BY <2>2, <2>3, ReadSingle DEF Clients
<1> QED BY <1>1, <1>2, <1>3, <1>4, <1>5 DEF Poll

(* The worker takes a command, answers it, or goes on with it. *)
LEMMA WorkerSorts ==
  ASSUME WInv, Worker
  PROVE  \/ Take
         \/ \E result : Answers(result)
         \/ /\ UNCHANGED <<jobs, answer>>
            /\ work.at \notin {"idle", "snapshot"} /\ work'.at \notin {"idle", "snapshot"}
            /\ work'.job = work.job
<1> DEFINE GoesOn == /\ UNCHANGED <<jobs, answer>>
                     /\ work.at \notin {"idle", "snapshot"} /\ work'.at \notin {"idle", "snapshot"}
                     /\ work'.job = work.job
           Sorted == GoesOn \/ \E result : Answers(result)
<1>1. work = [at |-> work.at, job |-> work.job]
  BY DEF WInv, IInv, Shape
<1>2. Failure.ready /\ \A s : Success(s).ready
  BY DEF Failure, Success
<1>3. ASSUME NEW step, step \notin {"idle", "snapshot"}, work.at \notin {"idle", "snapshot"},
             StillWorking(step), jobs' = jobs
      PROVE  GoesOn
  BY <1>1, <1>3 DEF StillWorking, At
<1>4. ASSUME NEW result, result.ready, work.at # "idle", Answer(result), jobs' = jobs
      PROVE  Sorted
  BY <1>4 DEF Answers
<1> HIDE DEF GoesOn
<1>5. ASSUME NEW ok \in BOOLEAN, work.at \notin {"idle", "snapshot"}, Closed(ok), jobs' = jobs
      PROVE  Sorted
  BY <1>2, <1>3, <1>4, <1>5 DEF Closed
<1>6. ASSUME NEW step \in {"select", "disconnect"}, BeginClosing(step)
      PROVE  Sorted
  BY <1>3, <1>6 DEF BeginClosing
<1>7. ASSUME NEW step \in {"select", "disconnect"}, AlreadyClosed(step)
      PROVE  Sorted
  BY <1>5, <1>7 DEF AlreadyClosed
<1>8. ASSUME NEW ok \in BOOLEAN, EndClosing(ok)
      PROVE  Sorted
  BY <1>5, <1>8 DEF EndClosing
<1>9. ASSUME NEW ok \in BOOLEAN, Create(ok) \/ List(ok)
      PROVE  Sorted
  BY <1>2, <1>3, <1>4, <1>9 DEF Create, List
<1>10. ASSUME NEW ok \in BOOLEAN, EndOpening(ok)
       PROVE  Sorted
  BY <1>3, <1>10 DEF EndOpening
<1>11. ASSUME SelectFirst \/ SelectRoutes \/ BeginOpening \/ OpenRefused \/ PresentOutcome
       PROVE  Sorted
  BY <1>2, <1>3, <1>4, <1>11 DEF SelectFirst, SelectRoutes, BeginOpening, OpenRefused, PresentOutcome
<1>12. ASSUME TakeSnapshot \/ NothingSelected
       PROVE  Sorted
  BY <1>2, <1>4, <1>12 DEF TakeSnapshot, NothingSelected
<1> HIDE DEF Sorted
<1>13. CASE Take
  BY <1>13
<1>14. ASSUME ~Take
       PROVE  Sorted
  BY <1>6, <1>7, <1>8, <1>9, <1>10, <1>11, <1>12, <1>14 DEF Worker
<1> QED BY <1>13, <1>14 DEF Sorted, GoesOn

LEMMA WorkerSingle ==
  ASSUME WInv, WorkerRuns
  PROVE  Records' /\ Single'
<1>1. Worker /\ UNCHANGED uiVars
  BY DEF WorkerRuns
<1>2. CASE Take
  <2>1. Records'
    BY <1>1, <1>2 DEF Take, WInv, Records, uiVars
  <2> QED BY <1>1, <1>2, <2>1, TakeSingle
<1>3. CASE \E result : Answers(result)
  <2>1. PICK result : Answers(result)
    BY <1>3
  <2>2. Records'
    BY <1>1, <2>1, AnswerRead DEF WInv, Records, uiVars
  <2> QED BY <1>1, <2>1, <2>2, AnswerSingle
<1>4. CASE /\ UNCHANGED <<jobs, answer>>
           /\ work.at \notin {"idle", "snapshot"} /\ work'.at \notin {"idle", "snapshot"}
           /\ work'.job = work.job
  <2>1. Leaves /\ Records'
    BY <1>1, <1>4 DEF Leaves, WInv, Records, uiVars
  <2> QED BY <2>1, LeaveSingle
<1> QED BY <1>1, <1>2, <1>3, <1>4, WorkerSorts

LEMMA NextWInv == WInv /\ [Next]_vars => WInv'
<1> SUFFICES ASSUME WInv, [Next]_vars PROVE WInv'
  OBVIOUS
<1>1. IInv'
  BY NextInv DEF WInv
<1>2. ASSUME UNCHANGED <<jobs, work, answer, pending, refreshPending>>
      PROVE  Records' /\ Single'
  BY <1>2, LeaveSingle DEF Leaves, WInv, Records
<1>3. CASE UNCHANGED vars
  BY <1>1, <1>2, <1>3 DEF vars, connectionVars, uiVars, WInv
<1>4. CASE Notified
  BY <1>1, <1>2, <1>4 DEF Notified, EndpointChanged, uiVars, WInv
<1>5. CASE \E backend \in Backends, route \in Routes : Disappear(backend, route)
  BY <1>1, <1>2, <1>5 DEF Disappear, RemoveEndpoint, uiVars, WInv
<1>6. CASE User
  BY <1>1, <1>6, UserSingle DEF WInv
<1>7. CASE Poll
  BY <1>1, <1>7, PollSingle DEF WInv
<1>8. CASE WorkerRuns
  BY <1>1, <1>8, WorkerSingle DEF WInv
<1> QED BY <1>3, <1>4, <1>5, <1>6, <1>7, <1>8 DEF Next

-----------------------------------------------------------------------------
(* While a transport is open, the controller presents it or is about to, no  *)
(* command that would open it again is on its way, and whatever the window   *)
(* may still read shows it - unless an overtaken snapshot has misled it.     *)
Visible ==
  ~misled /\ lifecycle = "open" =>
    /\ work.at = "opened" \/ ShowsConnection(snapshot.state)
    /\ work.at \notin {"connect", "open", "opening", "unopened", "create", "list", "closing"}
    /\ \A i \in 1..Len(jobs) : jobs[i].name # "connect"
    /\ ~Pending => connected
    /\ answer["user"].ready =>
         answer["user"].ok /\ ShowsConnection(answer["user"].snapshot.state)
    /\ answer["refresh"].ready /\ answer["refresh"].ok /\ ~overtaken /\ ~Pending =>
         ShowsConnection(answer["refresh"].snapshot.state)

HInv == WInv /\ Visible

LEMMA InitVisible == Init => Visible
BY DEF Init, ConnectionInit, Visible

(* The user asks for a connection only where none is open. *)
LEMMA UserVisible ==
  ASSUME HInv, User
  PROVE  Visible'
<1> SUFFICES ASSUME ~misled', lifecycle' = "open" PROVE Visible'
  BY DEF Visible
<1>1. /\ UNCHANGED <<work, snapshot, lifecycle, answer, misled>>
      /\ ~Pending
      /\ ~misled /\ lifecycle = "open"
  BY DEF User, ChooseBackend, Disconnect, Connect, Click
<1>2. connected /\ ~answer["user"].ready
  BY <1>1 DEF HInv, WInv, Single, Outstanding, Clients, Visible
<1>3. Pending' /\ \E j : jobs' = Append(jobs, j) /\ j.name # "connect"
  <2>0. pending = [action |-> pending.action, backend |-> pending.backend]
    BY DEF HInv, WInv, Records
  <2>1. ASSUME NEW index, ChooseBackend(index)
        PROVE  Pending' /\ \E j : jobs' = Append(jobs, j) /\ j.name # "connect"
    BY <2>1 DEF ChooseBackend, SelectBackend, Enqueue, Command, Pending
  <2>2. CASE Disconnect
    BY <2>0, <2>2 DEF Disconnect, Enqueue, Command, Pending
  <2>3. ASSUME NEW routes, Connect(routes) PROVE FALSE
    BY <1>2, <2>3 DEF Connect
  <2> QED BY <2>1, <2>2, <2>3 DEF User
<1>4. PICK j : jobs' = Append(jobs, j) /\ j.name # "connect"
  BY <1>3
<1>5. \A i \in 1..Len(jobs') : jobs'[i].name # "connect"
  <2>1. /\ Len(jobs) \in Nat /\ Len(jobs') = Len(jobs) + 1
        /\ \A i \in 1..Len(jobs) : jobs'[i] = jobs[i]
        /\ jobs'[Len(jobs) + 1] = j
    BY <1>4, QueueAppend DEF HInv, WInv, IInv, Shape
  <2>2. \A i \in 1..Len(jobs) : jobs[i].name # "connect"
    BY <1>1 DEF HInv, Visible
  <2> QED BY <1>4, <2>1, <2>2
<1> QED BY <1>1, <1>2, <1>3, <1>5 DEF HInv, Visible

(* What the window reads last is what it shows. *)
LEMMA PollVisible ==
  ASSUME HInv, Poll
  PROVE  Visible'
<1> SUFFICES ASSUME ~misled', lifecycle' = "open" PROVE Visible'
  BY DEF Visible
<1>1. UNCHANGED <<work, snapshot, lifecycle>>
  BY DEF Poll, PollRefresh, PollIdle, PollWaiting, PollFallback, PollFailure, PollSuccess,
         PollAnswer, Polls
<1>2. ~misled /\ lifecycle = "open"
  <2>1. ASSUME PollRefresh PROVE ~misled
    <3>1. \E shown : misled' = (misled \/ shown)
      BY <2>1 DEF PollRefresh
    <3> QED BY <3>1
  <2>2. ASSUME ~PollRefresh PROVE misled' = misled
    BY <2>2 DEF Poll, PollIdle, PollWaiting, PollFallback, PollFailure, PollSuccess
  <2> QED BY <1>1, <2>1, <2>2
<1>3. ASSUME jobs' = jobs \/ \E j : jobs' = Append(jobs, j) /\ j.name # "connect"
      PROVE  \A i \in 1..Len(jobs') : jobs'[i].name # "connect"
  <2>1. \A i \in 1..Len(jobs) : jobs[i].name # "connect"
    BY <1>2 DEF HInv, Visible
  <2>2. ASSUME NEW j, jobs' = Append(jobs, j), j.name # "connect"
        PROVE  \A i \in 1..Len(jobs') : jobs'[i].name # "connect"
    <3>1. /\ Len(jobs) \in Nat /\ Len(jobs') = Len(jobs) + 1
          /\ \A i \in 1..Len(jobs) : jobs'[i] = jobs[i]
          /\ jobs'[Len(jobs) + 1] = j
      BY <2>2, QueueAppend DEF HInv, WInv, IInv, Shape
    <3> QED BY <2>1, <2>2, <3>1
  <2> QED BY <1>3, <2>1, <2>2
<1>4. CASE PollRefresh
  <2>1. UNCHANGED <<jobs, pending>> /\ Pending' = Pending
    BY <1>4 DEF PollRefresh, Pending
  <2>2. CASE RefreshReady
    <3>1. ~answer'["refresh"].ready /\ answer'["user"] = answer["user"]
      BY <1>4, <2>2, ReadOne DEF PollRefresh, HInv, Clients
    <3>2. ~Pending => connected'
      <4>1. CASE answer["refresh"].ok /\ ~Pending
        <5>1. ~overtaken /\ connected' = ShowsConnection(answer["refresh"].snapshot.state)
          BY <1>4, <2>2, <4>1 DEF PollRefresh
        <5> QED BY <1>2, <2>2, <4>1, <5>1 DEF HInv, Visible, RefreshReady
      <4>2. CASE ~(answer["refresh"].ok /\ ~Pending)
        BY <1>2, <1>4, <4>2 DEF PollRefresh, HInv, Visible
      <4> QED BY <4>1, <4>2
    <3> QED BY <1>1, <1>2, <2>1, <3>1, <3>2 DEF HInv, Visible
  <2>3. CASE ~RefreshReady
    <3>1. UNCHANGED <<answer, overtaken>> /\ connected' = connected
      BY <1>4, <2>3 DEF PollRefresh
    <3> QED BY <1>1, <1>2, <2>1, <3>1 DEF HInv, Visible
  <2> QED BY <2>2, <2>3
<1>5. CASE PollIdle
  <2>1. UNCHANGED <<answer, connected, overtaken>> /\ Pending' = Pending
    BY <1>5 DEF PollIdle, Pending
  <2>2. jobs' = jobs \/ \E j : jobs' = Append(jobs, j) /\ j.name # "connect"
    BY <1>5 DEF PollIdle, Enqueue, Command
  <2> QED BY <1>1, <1>2, <1>3, <2>1, <2>2 DEF HInv, Visible
<1>6. CASE PollWaiting
  <2>1. UNCHANGED <<jobs, answer, connected, overtaken>> /\ Pending' = Pending
    BY <1>6 DEF PollWaiting, Pending
  <2> QED BY <1>1, <1>2, <2>1 DEF HInv, Visible
<1>7. CASE PollFallback
  <2>1. ~answer'["user"].ready /\ Pending'
    BY <1>7, ReadOne DEF PollFallback, PollAnswer, SelectBackend, Pending, HInv, Clients
  <2>2. jobs' = jobs \/ \E j : jobs' = Append(jobs, j) /\ j.name # "connect"
    BY <1>7 DEF PollFallback, SelectBackend, Enqueue, Command
  <2> QED BY <1>1, <1>2, <1>3, <2>1, <2>2 DEF HInv, Visible
<1>8. ASSUME PollFailure \/ PollSuccess
      PROVE  Visible'
  <2>1. /\ UserReady /\ Read("user") /\ jobs' = jobs
        /\ overtaken' = refreshPending
    BY <1>8 DEF PollFailure, PollSuccess, PollAnswer
  <2>2. answer["user"].ok /\ ShowsConnection(answer["user"].snapshot.state)
    BY <1>2, <2>1 DEF HInv, Visible, UserReady
  <2>3. connected'
    BY <1>8, <2>2 DEF PollFailure, PollSuccess
  <2>4. ~answer'["user"].ready /\ answer'["refresh"] = answer["refresh"]
    BY <2>1, ReadOne DEF HInv, Clients
  <2>5. answer'["refresh"].ready => overtaken'
    BY <2>1, <2>4 DEF HInv, WInv, Single, Outstanding, Clients
  <2> QED BY <1>1, <1>2, <2>1, <2>3, <2>4, <2>5 DEF HInv, Visible
<1> QED BY <1>4, <1>5, <1>6, <1>7, <1>8 DEF Poll

(* The worker's steps that leave a transport open, or open it. *)
LEMMA WorkerOpens ==
  ASSUME HInv, Worker, ~misled, lifecycle' = "open"
  PROVE  \/ Take
         \/ EndOpening(TRUE)
         \/ work.at = "opened" /\ PresentOutcome
         \/ TakeSnapshot /\ lifecycle = "open"
<1>1. controller = NoController => lifecycle = "closed"
  BY DEF HInv, WInv, IInv, Holding
<1>2. lifecycle = "open" =>
        work.at \notin {"connect", "open", "opening", "unopened", "create", "list", "closing"}
  BY DEF HInv, Visible
<1>3. ASSUME NEW step, BeginClosing(step) \/ AlreadyClosed(step) PROVE FALSE
  BY <1>3 DEF BeginClosing, AlreadyClosed, BeginClose, Refused
<1>4. ASSUME NEW ok, EndClosing(ok) PROVE FALSE
  BY <1>4 DEF EndClosing, CompleteClose, RequireAndSet, Fail, Refused
<1>5. ASSUME NEW ok, Create(ok) \/ List(ok) PROVE FALSE
  BY <1>2, <1>5 DEF Create, List
<1>6. ASSUME SelectFirst \/ SelectRoutes \/ BeginOpening \/ OpenRefused \/ NothingSelected
      PROVE  FALSE
  BY <1>1, <1>2, <1>6 DEF SelectFirst, SelectRoutes, BeginOpening, OpenRefused, NothingSelected,
                          BeginOpen, RequireAndSet, Refused
<1>7. ASSUME EndOpening(FALSE) PROVE FALSE
  BY <1>7 DEF EndOpening, Fail
<1>8. ASSUME PresentOutcome PROVE work.at = "opened"
  BY <1>2, <1>8 DEF PresentOutcome
<1>9. ASSUME TakeSnapshot PROVE lifecycle = "open"
  BY <1>9 DEF TakeSnapshot
<1> QED BY <1>3, <1>4, <1>5, <1>6, <1>7, <1>8, <1>9 DEF Worker

LEMMA WorkerVisible ==
  ASSUME HInv, WorkerRuns
  PROVE  Visible'
<1> SUFFICES ASSUME ~misled', lifecycle' = "open" PROVE Visible'
  BY DEF Visible
<1>1. Worker /\ ~misled /\ UNCHANGED <<pending, refreshPending, connected, overtaken, misled>>
      /\ Pending' = Pending
  BY DEF WorkerRuns, uiVars, Pending
<1>2. work = [at |-> work.at, job |-> work.job] /\ IsSnapshot(snapshot)
  BY DEF HInv, WInv, IInv, Shape
<1>3. CASE Take
  <2>1. UNCHANGED <<snapshot, lifecycle, answer>> /\ work.at = "idle"
    BY <1>3 DEF Take
  <2>2. /\ Len(jobs) \in Nat \ {0}
        /\ Head(jobs) = jobs[1]
        /\ \A i \in 1..Len(jobs') : jobs'[i] = jobs[i + 1] /\ i + 1 \in 1..Len(jobs)
    BY <1>3, QueueTail DEF HInv, WInv, IInv, Shape, Take
  <2>3. 1 \in 1..Len(jobs) /\ work'.at = jobs[1].name
    BY <1>3, <2>2 DEF Take
  <2>4. IsJob(Head(jobs))
    BY <1>3, JobsTake DEF HInv, WInv, IInv, Shape, Take
  <2>5. work'.at \in {"select", "disconnect", "snapshot"}
    BY <1>1, <2>1, <2>2, <2>3, <2>4 DEF HInv, Visible, IsJob
  <2> QED BY <1>1, <2>1, <2>2, <2>5 DEF HInv, Visible
<1>4. CASE EndOpening(TRUE)
  <2>1. work'.at = "opened" /\ UNCHANGED <<jobs, answer>> /\ work.at = "opening"
    BY <1>2, <1>4 DEF EndOpening, StillWorking, At
  <2>2. Working("user")
    BY <2>1 DEF HInv, WInv, Single, Working, Clients
  <2>3. Pending /\ ~answer["user"].ready /\ \A i \in 1..Len(jobs) : jobs[i].from # "user"
    BY <2>2 DEF HInv, WInv, Single, Outstanding, Clients
  <2>4. \A i \in 1..Len(jobs) : jobs[i].name # "connect"
    BY <2>3 DEF HInv, WInv, Single, KnownJob, Clients
  <2> QED BY <1>1, <2>1, <2>3, <2>4 DEF Visible
<1>5. CASE work.at = "opened" /\ PresentOutcome
  <2>1. /\ work'.at = "reply" /\ snapshot'.state = "connected"
        /\ UNCHANGED <<jobs, answer, lifecycle>>
    BY <1>2, <1>5 DEF PresentOutcome, StillWorking, At, IsSnapshot
  <2> QED BY <1>1, <2>1 DEF HInv, Visible, ShowsConnection
<1>6. CASE TakeSnapshot /\ lifecycle = "open"
  <2> DEFINE result == Success(snapshot)
  <2>1. Answers(result) /\ UNCHANGED <<jobs, snapshot, lifecycle>> /\ work.at \in {"snapshot", "reply"}
    BY <1>6 DEF TakeSnapshot, Answers, Success
  <2>2. result.ok /\ result.snapshot = snapshot /\ ShowsConnection(snapshot.state)
    BY <1>1, <1>6, <2>1 DEF HInv, Visible, Success
  <2> HIDE DEF result
  <2>3. /\ work.job.from \in Clients
        /\ answer'[work.job.from] = result
        /\ \A d \in Clients \ {work.job.from} : answer'[d] = answer[d]
        /\ work'.at = "idle"
    BY <2>1, AnswerRead DEF HInv
  <2>4. \A d \in Clients : answer'[d] = result \/ answer'[d] = answer[d]
    BY <2>3
  <2>5. \A i \in 1..Len(jobs) : jobs[i].name # "connect"
    BY <1>1, <1>6 DEF HInv, Visible
  <2>6. answer'["user"].ready =>
          answer'["user"].ok /\ ShowsConnection(answer'["user"].snapshot.state)
    BY <1>1, <1>6, <2>2, <2>4 DEF HInv, Visible, Clients
  <2>7. answer'["refresh"].ready /\ answer'["refresh"].ok /\ ~overtaken /\ ~Pending =>
          ShowsConnection(answer'["refresh"].snapshot.state)
    BY <1>1, <1>6, <2>2, <2>4 DEF HInv, Visible, Clients
  <2>8. ~Pending => connected
    BY <1>1, <1>6 DEF HInv, Visible
  <2> QED BY <1>1, <2>1, <2>2, <2>3, <2>5, <2>6, <2>7, <2>8 DEF Visible
<1> QED BY <1>1, <1>3, <1>4, <1>5, <1>6, WorkerOpens

LEMMA NextHInv == HInv /\ [Next]_vars => HInv'
<1> SUFFICES ASSUME HInv, [Next]_vars PROVE HInv'
  OBVIOUS
<1>1. WInv'
  BY NextWInv DEF HInv
<1>2. ASSUME UNCHANGED <<jobs, work, answer, uiVars>>,
             snapshot' = snapshot \/ ShowsConnection(snapshot'.state),
             lifecycle' = "open" => lifecycle = "open"
      PROVE  Visible'
  BY <1>2 DEF HInv, Visible, uiVars, Pending
<1>3. CASE UNCHANGED vars
  BY <1>1, <1>2, <1>3 DEF vars, connectionVars, HInv
<1>4. CASE Notified
  <2>1. snapshot' = snapshot \/ snapshot'.state = "degraded"
    BY <1>4 DEF Notified, EndpointChanged, HInv, WInv, IInv, Shape, IsSnapshot
  <2>2. snapshot' = snapshot \/ ShowsConnection(snapshot'.state)
    BY <2>1 DEF ShowsConnection
  <2> QED BY <1>1, <1>2, <1>4, <2>2 DEF Notified, EndpointChanged, HInv
<1>5. CASE \E backend \in Backends, route \in Routes : Disappear(backend, route)
  BY <1>1, <1>2, <1>5 DEF Disappear, RemoveEndpoint, Fail, HInv
<1>6. CASE User
  BY <1>1, <1>6, UserVisible DEF HInv
<1>7. CASE Poll
  BY <1>1, <1>7, PollVisible DEF HInv
<1>8. CASE WorkerRuns
  BY <1>1, <1>8, WorkerVisible DEF HInv
<1> QED BY <1>3, <1>4, <1>5, <1>6, <1>7, <1>8 DEF Next

LEMMA HInvAlways == Spec => []HInv
<1>1. Init => HInv
  BY InitInv, InitSingle, InitVisible DEF HInv, WInv
<1> QED BY <1>1, NextHInv, PTL DEF Spec

(* For all backends, routes and devices, and any number of requests and      *)
(* losses: a future of the window's is in one place at a time, so a command  *)
(* of a client waits, runs or is answered only while that client waits for   *)
(* it (MainWindow's pending_connection_ and refresh_pending_).               *)
THEOREM OneRequestEach == Spec => []Single
<1>1. HInv => Single
  BY DEF HInv, WInv
<1> QED BY <1>1, HInvAlways, PTL

(* Likewise: between commands an open transport is presented as connected or *)
(* degraded, and once nothing is pending the window lets the user disconnect *)
(* it, unless an overtaken background snapshot was shown                     *)
(* (MainWindow::poll_connection_result(), ConnectionController).             *)
THEOREM NoneHidden == Spec => []NoHiddenConnection
<1>1. HInv => NoHiddenConnection
  BY DEF HInv, Visible, NoHiddenConnection
<1> QED BY <1>1, HInvAlways, PTL

=============================================================================
