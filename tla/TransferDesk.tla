---------------------------- MODULE TransferDesk ----------------------------
(***************************************************************************)
(* The SysEx Transfer page over its worker: SysExTransferPanel.cpp posts   *)
(* one command at a time to the thread of ConnectionWorker.cpp and shows   *)
(* the snapshot each answers with; the worker owns the session, the        *)
(* attempt to send (module OneShotTransfer, which TransferEngine           *)
(* implements) and the connection, which the window's connection bar       *)
(* changes through the same queue of commands.                             *)
(*                                                                         *)
(* A command is one action, or two where the attempt it acts on runs on in *)
(* between: its start and its cancellation before the snapshot that        *)
(* answers, disconnect and select_backend while they wait for its end.     *)
(* The steps of the connection are condensed from module Connection.       *)
(* The stream events a command drains first, and those the idle worker     *)
(* takes, are any batch of frames.  What the connection bar asks for is    *)
(* any request: a stale snapshot may make it ask for a connection while    *)
(* one is open (module ConnectionUi).                                      *)
(*                                                                         *)
(* RefuseSilently, StartedAnywhere, ClosedAtOnce and RefreshOnceOnly are   *)
(* plausible mistakes that the properties are tested against.              *)
(***************************************************************************)
EXTENDS SysExSession, OneShotTransfer

CONSTANTS
  TxRoutes,      \* transmit routes
  Connections,   \* what the connection bar may ask for: [rx, tx]
  Start,         \* sessions that a few commands make, to begin with
  Files,         \* the documents that files hold
  MaxFrames,     \* bound: frames of a capture
  MaxClicks,     \* bound: what the user does on the page
  MaxRequests    \* bound: requests of the connection bar, and lost devices

ASSUME DeskAssumption ==
  /\ None \notin TxRoutes
  /\ Connections \subseteq [rx : BOOLEAN, tx : TxRoutes \cup {None}]
  /\ Files \subseteq Seq(Frames)
  /\ \A s \in Start : /\ SessionType(s) /\ Matched(s)
                      /\ s.doc # <<>> => s.last = s.match.overridden
  /\ MaxFrames \in Nat /\ MaxClicks \in Nat /\ MaxRequests \in Nat

VARIABLES
  session,         \* State::sysex
  cancelling,      \* request_cancel() was called on State::transfer
  link,            \* what the controller presents: [state, rx, tx]
  device,          \* what the transport holds: [state, tx]
  jobs,            \* commands_: records [name, from, arg]
  work,            \* what the worker thread does: [at, job]
  answer,          \* the answers the panel has not read yet
  shown,           \* snapshot_ of the panel
  pending,         \* pending_ holds a future
  refreshPending,  \* refresh_pending_ holds a future
  poll,            \* the next future poll_result() looks at
  dialog,          \* the confirmation of Raw Send: its route, "closed", or None
  overtaken,       \* the refresh under way is older than an answer shown since
  stale,           \* what is shown is such a refresh
  confirmed,       \* what the user saw when asking for Raw Send or Remember
  attempt,         \* what the attempt under way was started with
  clicks, requests \* how much of the bounds is used

workerVars == <<session, absVars, cancelling, link, device, jobs, work, answer, attempt>>
panelVars  == <<shown, pending, refreshPending, poll, dialog, overtaken, stale, confirmed>>
vars == <<workerVars, panelVars, clicks, requests>>

Clients == {"panel", "refresh"}

NoAnswer   == [ready |-> FALSE, ok |-> FALSE]
IdleWork   == [at |-> "idle", job |-> [name |-> "none", from |-> "none", arg |-> None]]
NoLink     == [state |-> "none", rx |-> FALSE, tx |-> None]
FreshLink  == [NoLink EXCEPT !.state = "disconnected"]
Closed     == [state |-> "closed", tx |-> None]
NoDialog   == "closed"
NothingConfirmed == [route |-> None, doc |-> <<>>, profile |-> None, stale |-> FALSE]

Job(name, from, arg) == [name |-> name, from |-> from, arg |-> arg]

(* Of the session and the connection, what the panel is shown. *)
Snapshot(s) ==
  [source |-> s.source, doc |-> s.doc, receiving |-> s.receiving, match |-> s.match,
   progress |-> s.progress, tx |-> link.tx]

(* The page at rest, showing a session that a few commands made, over a      *)
(* connection with both routes made since: it still shows the transmit route *)
(* of the connection before.                                                 *)
Init ==
  /\ AbsInit
  /\ session \in Start
  /\ cancelling = FALSE
  /\ \E c \in Connections :
       /\ c.rx /\ c.tx # None
       /\ link = [state |-> "connected", rx |-> c.rx, tx |-> c.tx]
       /\ device = [state |-> "open", tx |-> c.tx]
  /\ jobs = <<>>
  /\ work = IdleWork
  /\ answer = [c \in Clients |-> NoAnswer]
  /\ \E before \in TxRoutes \ {link.tx} : shown = [Snapshot(session) EXCEPT !.tx = before]
  /\ pending = FALSE
  /\ refreshPending = FALSE
  /\ poll = "refresh"
  /\ dialog = NoDialog
  /\ overtaken = FALSE
  /\ stale = FALSE
  /\ confirmed = NothingConfirmed
  /\ attempt = [route |-> None, doc |-> <<>>]
  /\ clicks = 0
  /\ requests = 0

-----------------------------------------------------------------------------
(* The worker thread: what its commands share. *)

Command(name) ==
  /\ work.at = "idle"
  /\ jobs # <<>>
  /\ Head(jobs).name = name
  /\ jobs' = Tail(jobs)

Argument == Head(jobs).arg

RefuseSilently == work' = IdleWork /\ UNCHANGED answer

(* A command ends with a refusal, or with the snapshot of what it left       *)
(* (sysex_snapshot() of State).                                              *)
Refuse == work' = IdleWork /\ answer' = [answer EXCEPT ![Head(jobs).from].ready = TRUE]
Respond(client) ==
  /\ work' = IdleWork
  /\ answer' = [answer EXCEPT ![client] =
                  [ready |-> TRUE, ok |-> TRUE, snapshot |-> Snapshot(session')]]

Report == work' = [at |-> "report", job |-> Head(jobs)] /\ UNCHANGED answer

(* synchronize_transfer(): the session takes over the progress, and an       *)
(* attempt that has ended is destroyed.                                      *)
Synchronized(s) == IF phase = "idle" THEN s ELSE SetProgress(s, phase)
Transferring    == phase = "active"

Destroyed == phase' = "idle" /\ total' = 0 /\ accepted' = 0 /\ cancelling' = FALSE
Reap      == IF phase \in Ended THEN Destroyed ELSE UNCHANGED <<absVars, cancelling>>

(* drain_stream_events() with any batch of frames. *)
Batches(s) ==
  IF s.receiving THEN UNION {[1..n -> Frames] : n \in 0..(MaxFrames - Len(s.doc))} ELSE {<<>>}

Connected == link.state = "connected"

(* A command that touches the session only: it is refused, or succeeds and   *)
(* leaves the session next.                                                  *)
Perform(name, allowed, next) ==
  /\ Command(name)
  /\ Reap
  /\ IF allowed THEN session' = next /\ Respond(Head(jobs).from)
                ELSE session' = Synchronized(session) /\ Refuse
  /\ UNCHANGED <<link, device, attempt>>

-----------------------------------------------------------------------------
(* The commands of the page. *)

LoadSysex(readable) ==
  LET s == Synchronized(session) IN
  Perform("load", ~Transferring /\ CanLoadFile(s) /\ readable, Loaded(s, Argument))

LoadSysexDocument ==
  LET s == Synchronized(session) IN
  Perform("handoff", ~Transferring /\ CanLoadDocument(s, Argument), Loaded(s, Argument))

BeginSysexReceive ==
  \E batch \in Batches(session) :
    LET s == Synchronized(Consumed(session, batch))
        allowed == ~Transferring /\ Connected /\ link.rx /\ CanBeginReceive(s) IN
    /\ Command("receive")
    /\ Reap
    /\ IF allowed THEN session' = BegunReceive(s) /\ Respond("panel")
                  ELSE session' = s /\ Refuse
    /\ UNCHANGED <<link, device, attempt>>

(* The last frame of a capture is one that nothing completed. *)
Leftovers == {<<>>} \cup {<<f>> : f \in Frames \ Verified}

FinishSysexReceive ==
  \E batch \in Batches(session), rest \in Leftovers :
    LET s == Consumed(session, batch) IN
    /\ Command("finish")
    /\ IF CanFinish(s)
       THEN Reap /\ session' = Synchronized(Finished(s, rest)) /\ Respond("panel")
       ELSE session' = s /\ Refuse /\ UNCHANGED <<absVars, cancelling>>
    /\ UNCHANGED <<link, device, attempt>>

ClearSysex ==
  LET s == Synchronized(session) IN
  Perform("clear", ~Transferring /\ CanClear(s), Cleared(s))

SelectTemporaryProfile ==
  LET s == Synchronized(session) IN
  Perform("profile", CanSelectTemporary(Argument), SelectedTemporary(s, Argument))

RememberManualProfile ==
  LET s == Synchronized(session) IN
  Perform("remember", CanRemember(s), Remembered(s))

(* Writing the file (module FileWrite) leaves the session as it is. *)
SaveReceivedSysex(written) ==
  LET s == Synchronized(session) IN
  Perform("save", ~Transferring /\ CanSaveReceived(s) /\ written, s)

Started ==
  /\ phase' = "active" /\ total' = Len(session.doc) /\ accepted' = 0
  /\ cancelling' = FALSE
  /\ attempt' = [route |-> device.tx, doc |-> session.doc]
  /\ session' = SetProgress(session, "active")
  /\ Report

StartedAnywhere ==
  /\ Command("send")
  /\ UNCHANGED <<link, device>>
  /\ IF ~Transferring /\ Connected /\ link.tx # None /\ CanRawSend(session)
     THEN Started
     ELSE Reap /\ session' = Synchronized(session) /\ Refuse /\ UNCHANGED attempt

(* start_raw_sysex_send(): the route must still be the one that was          *)
(* confirmed; the document is the session's.                                 *)
StartRawSend ==
  /\ Command("send")
  /\ UNCHANGED <<link, device>>
  /\ IF /\ ~Transferring
        /\ Connected /\ link.tx # None
        /\ link.tx = Argument
        /\ CanRawSend(session)
     THEN Started
     ELSE Reap /\ session' = Synchronized(session) /\ Refuse /\ UNCHANGED attempt

CancelTransfer ==
  /\ Command("cancel")
  /\ session' = Synchronized(session)
  /\ IF Transferring THEN cancelling' = TRUE /\ UNCHANGED absVars ELSE Reap
  /\ Report
  /\ UNCHANGED <<link, device, attempt>>

SysexSnapshot ==
  \E batch \in Batches(session) :
    /\ Command("snapshot")
    /\ session' = Synchronized(Consumed(session, batch))
    /\ Reap
    /\ Respond("refresh")
    /\ UNCHANGED <<link, device, attempt>>

(* The attempt may end before the snapshot that answers its start, or its    *)
(* cancellation, is built.                                                   *)
AnswerSnapshot ==
  /\ work.at = "report"
  /\ session' = Synchronized(session)
  /\ Reap
  /\ Respond("panel")
  /\ UNCHANGED <<link, device, jobs, attempt>>

ConsumeEvent ==
  /\ work.at = "idle" /\ jobs = <<>>
  /\ session.receiving
  /\ \E batch \in Batches(session) \ {<<>>} : session' = Consumed(session, batch)
  /\ UNCHANGED <<absVars, cancelling, link, device, jobs, work, answer, attempt>>

-----------------------------------------------------------------------------
(* The commands of the connection bar. *)

Unchanged == UNCHANGED <<session, absVars, cancelling, attempt>>

(* What the window is answered is module Connection's. *)
Reply == work' = IdleWork /\ UNCHANGED answer

NoController ==
  /\ link.state = "none"
  /\ \E name \in {"connect", "disconnect"} : Command(name)
  /\ Reply
  /\ Unchanged /\ UNCHANGED <<link, device>>

(* connect() ends no activity: a transport that is not closed refuses to     *)
(* open, after the controller has taken the new routes.                      *)
Connect(listed, opens) ==
  LET routes == [state |-> "connected", rx |-> Argument.rx, tx |-> Argument.tx] IN
  /\ link.state # "none"
  /\ Command("connect")
  /\ \/ /\ ~listed
        /\ link' \in {FreshLink, [routes EXCEPT !.state = "ready", !.tx = None]}
        /\ UNCHANGED device
     \/ /\ listed /\ device.state # "closed"
        /\ link' = [routes EXCEPT !.state = "error"]
        /\ UNCHANGED device
     \/ /\ listed /\ device.state = "closed"
        /\ link' = IF opens THEN routes ELSE [routes EXCEPT !.state = "error"]
        /\ device' = IF opens THEN [state |-> "open", tx |-> Argument.tx]
                              ELSE [state |-> "failed", tx |-> None]
  /\ Reply
  /\ Unchanged

ClosedAtOnce ==
  \E name \in {"disconnect", "select"} :
    /\ link.state # "none"
    /\ Command(name)
    /\ link' = FreshLink
    /\ device' = Closed
    /\ Reply
    /\ UNCHANGED <<session, absVars, cancelling, attempt>>

(* disconnect() and select_backend() first end what is going on: an attempt  *)
(* is cancelled and waited for, and a capture finished.                      *)
BeginStop ==
  \E name \in {"disconnect", "select"}, batch \in Batches(session) :
    /\ link.state # "none"
    /\ Command(name)
    /\ session' = Consumed(session, batch)
    /\ cancelling' = (phase # "idle")
    /\ work' = [at |-> "stopping", job |-> Head(jobs)]
    /\ UNCHANGED <<absVars, link, device, answer, attempt>>

StopActivity ==
  \E rest \in Leftovers :
    LET s == Synchronized(session) IN
    /\ ~Transferring
    /\ session' = IF s.receiving THEN Finished(s, rest) ELSE s
    /\ Destroyed

NewTransport == link' \in {FreshLink, NoLink} /\ device' = Closed

EndStop(closes) ==
  /\ work.at = "stopping"
  /\ StopActivity
  /\ \/ /\ ~closes /\ device.state # "closed"
        /\ link' = [link EXCEPT !.state = "error"]
        /\ device' = [device EXCEPT !.state = "failed"]
     \/ /\ closes /\ work.job.name = "disconnect"
        /\ link' = [link EXCEPT !.state = "disconnected"]
        /\ device' = Closed
     \/ closes /\ work.job.name = "select" /\ NewTransport
  /\ Reply
  /\ UNCHANGED <<jobs, attempt>>

SelectFirst ==
  /\ link.state = "none"
  /\ Command("select")
  /\ NewTransport
  /\ Reply
  /\ Unchanged

(* probe_backends() enumerates with transports of its own. *)
ProbeBackends ==
  \E batch \in Batches(session) :
    /\ Command("probe")
    /\ session' = Synchronized(Consumed(session, batch))
    /\ Reap
    /\ Reply
    /\ UNCHANGED <<link, device, attempt>>

WorkerSteps ==
  \/ LoadSysexDocument \/ BeginSysexReceive \/ FinishSysexReceive \/ ClearSysex
  \/ SelectTemporaryProfile \/ RememberManualProfile
  \/ StartRawSend \/ CancelTransfer \/ SysexSnapshot \/ AnswerSnapshot
  \/ NoController \/ BeginStop \/ SelectFirst \/ ProbeBackends
  \/ \E ok \in BOOLEAN : LoadSysex(ok) \/ SaveReceivedSysex(ok) \/ EndStop(ok)
  \/ \E listed, opens \in BOOLEAN : Connect(listed, opens)

Worker == WorkerSteps /\ UNCHANGED <<panelVars, clicks, requests>>

Captured == ConsumeEvent /\ UNCHANGED <<panelVars, clicks, requests>>

(* The thread of the attempt.  A lost device takes no more. *)
Engine ==
  /\ \/ Accept /\ device.state = "open"
     \/ End /\ (phase' = "cancelled" => cancelling)
  /\ UNCHANGED <<session, cancelling, link, device, jobs, work, answer, attempt,
                 panelVars, clicks, requests>>

-----------------------------------------------------------------------------
(* The user on the page.  What is enabled depends on the snapshot shown;     *)
(* nothing is while a command is pending.                                    *)

Active == shown.progress = "active"

Showing(doc) == [route |-> None, doc |-> doc, profile |-> shown.match.overridden, stale |-> stale]

Post(name, arg) == jobs' = Append(jobs, Job(name, "panel", arg)) /\ pending' = TRUE

UserTurn ==
  /\ poll = "refresh"
  /\ clicks < MaxClicks
  /\ clicks' = clicks + 1
  /\ UNCHANGED <<session, absVars, cancelling, link, device, work, answer, attempt,
                 shown, refreshPending, poll, overtaken, stale, requests>>

Click(name, enabled, arg) ==
  /\ UserTurn /\ dialog = NoDialog
  /\ ~pending
  /\ enabled
  /\ Post(name, arg)
  /\ UNCHANGED <<dialog, confirmed>>

ClickRemember ==
  /\ UserTurn /\ dialog = NoDialog
  /\ ~pending
  /\ shown.match.overridden # None
  /\ Post("remember", None)
  /\ confirmed' = Showing(<<>>)
  /\ UNCHANGED dialog

(* The send button opens a modal dialog, under which the panel goes on       *)
(* polling; the route is the one shown when it opened.  What is on the       *)
(* screen matters then, and again when the user confirms (history).          *)
ClickSend ==
  /\ UserTurn /\ dialog = NoDialog
  /\ ~pending
  /\ ~shown.receiving /\ AllComplete(shown.doc) /\ shown.tx # None /\ ~Active
  /\ dialog' = shown.tx
  /\ confirmed' = [NothingConfirmed EXCEPT !.stale = stale]
  /\ UNCHANGED <<jobs, pending>>

Answers ==
  /\ poll = "refresh"
  /\ dialog # NoDialog
  /\ dialog' = NoDialog
  /\ UNCHANGED <<session, absVars, cancelling, link, device, work, answer, attempt,
                 shown, refreshPending, poll, overtaken, stale, clicks, requests>>

ConfirmSend ==
  /\ Answers
  /\ Post("send", dialog)
  /\ confirmed' = [Showing(shown.doc) EXCEPT !.route = dialog,
                                             !.stale = stale \/ confirmed.stale]

DeclineSend == Answers /\ UNCHANGED <<jobs, pending, confirmed>>

User ==
  \/ \E doc \in Files : Click("load", ~shown.receiving /\ ~Active, doc)
  \/ \E doc \in Files : Click("handoff", AllComplete(doc), doc)
  \/ Click("receive", ~shown.receiving /\ ~Active, None)
  \/ Click("finish", shown.receiving /\ ~Active, None)
  \/ Click("cancel", Active, None)
  \/ Click("save", ~shown.receiving /\ shown.source = "received"
                     /\ AllComplete(shown.doc) /\ ~Active, None)
  \/ Click("clear", ~shown.receiving /\ ~Active, None)
  \/ \E p \in Profiles : Click("profile", TRUE, p)
  \/ ClickRemember
  \/ ClickSend \/ ConfirmSend \/ DeclineSend

(* The connection bar, the diagnostics page and the devices; none of the     *)
(* window's controls works under the dialog.                                 *)
WindowIdle ==
  /\ \A i \in DOMAIN jobs : jobs[i].from # "window"
  /\ work.at = "idle" \/ work.job.from # "window"

World ==
  /\ requests < MaxRequests
  /\ requests' = requests + 1
  /\ UNCHANGED <<session, absVars, cancelling, work, answer, attempt, panelVars, clicks>>

Request(name, arg) ==
  /\ World
  /\ dialog = NoDialog
  /\ WindowIdle
  /\ jobs' = Append(jobs, Job(name, "window", arg))
  /\ UNCHANGED <<link, device>>

LoseDevice ==
  /\ World
  /\ device.state = "open"
  /\ device' = [device EXCEPT !.state = "failed"]
  /\ link' = [link EXCEPT !.state = "degraded"]
  /\ UNCHANGED jobs

Window ==
  \/ \E name \in {"disconnect", "select", "probe"} : Request(name, None)
  \/ \E c \in Connections : Request("connect", c)
  \/ LoseDevice

-----------------------------------------------------------------------------
(* poll_result() *)

RefreshReady == refreshPending /\ answer["refresh"].ready
AnswerReady  == pending /\ answer["panel"].ready
Read(client) == answer' = [answer EXCEPT ![client] = NoAnswer]

Polls ==
  UNCHANGED <<session, absVars, cancelling, link, device, work, attempt, dialog, confirmed,
              clicks, requests>>

PollRefresh ==
  /\ poll = "refresh" /\ poll' = "answer"
  /\ IF RefreshReady
     THEN /\ Read("refresh")
          /\ refreshPending' = FALSE
          /\ overtaken' = FALSE
          /\ IF pending THEN UNCHANGED <<shown, stale>>
                        ELSE shown' = answer["refresh"].snapshot /\ stale' = overtaken
     ELSE UNCHANGED <<answer, refreshPending, overtaken, shown, stale>>
  /\ Polls /\ UNCHANGED <<jobs, pending>>

RefreshOnceOnly ==
  /\ poll = "answer" /\ poll' = "refresh"
  /\ ~pending
  /\ \/ /\ shown.source = "none"
        /\ ~refreshPending
        /\ refreshPending' = TRUE
        /\ jobs' = Append(jobs, Job("snapshot", "refresh", None))
     \/ UNCHANGED <<refreshPending, jobs>>
  /\ Polls /\ UNCHANGED <<answer, pending, shown, overtaken, stale>>

(* Every tenth idle tick asks for a snapshot: the count is left to chance. *)
PollIdle ==
  /\ poll = "answer" /\ poll' = "refresh"
  /\ ~pending
  /\ \/ /\ ~refreshPending
        /\ refreshPending' = TRUE
        /\ jobs' = Append(jobs, Job("snapshot", "refresh", None))
     \/ UNCHANGED <<refreshPending, jobs>>
  /\ Polls /\ UNCHANGED <<answer, pending, shown, overtaken, stale>>

PollWaiting ==
  /\ poll = "answer" /\ poll' = "refresh"
  /\ pending /\ ~AnswerReady
  /\ Polls /\ UNCHANGED <<jobs, answer, pending, refreshPending, shown, overtaken, stale>>

(* A refusal shows again what was shown. *)
PollAnswer ==
  /\ poll = "answer" /\ poll' = "refresh"
  /\ AnswerReady
  /\ Read("panel")
  /\ pending' = FALSE
  /\ IF answer["panel"].ok
     THEN /\ shown' = answer["panel"].snapshot
          /\ stale' = FALSE
          /\ overtaken' = refreshPending
     ELSE UNCHANGED <<shown, stale, overtaken>>
  /\ Polls /\ UNCHANGED <<jobs, refreshPending>>

Poll == PollRefresh \/ PollIdle \/ PollWaiting \/ PollAnswer

-----------------------------------------------------------------------------
Next == User \/ Window \/ Poll \/ Worker \/ Captured \/ Engine

(* The threads run, every attempt ends (CancelEndsAttempt of TransferEngine, *)
(* and a list of messages is finite), the timer ticks, and an idle page      *)
(* sooner or later asks for a snapshot.  Nothing forces the user, the window *)
(* or a device.                                                              *)
Fairness ==
  /\ WF_vars(Worker)
  /\ WF_vars(Engine)
  /\ WF_vars(Poll)
  /\ SF_vars(PollIdle /\ refreshPending')

Spec == Init /\ [][Next]_vars /\ Fairness

-----------------------------------------------------------------------------
(* Properties *)

(* Every variable stays in its type; in particular an attempt that was       *)
(* started has frames to send, and the panel has at most one command and one *)
(* refresh under way.                                                        *)
TypeOK ==
  /\ SessionType(session)
  /\ phase \in Phases /\ total \in Nat /\ accepted \in 0..total
  /\ phase # "idle" => total > 0
  /\ device.state \in {"closed", "open", "failed"}
  /\ Cardinality({i \in DOMAIN jobs : jobs[i].from = "panel"})
       + (IF work.job.from = "panel" THEN 1 ELSE 0)
       + (IF answer["panel"].ready THEN 1 ELSE 0) = (IF pending THEN 1 ELSE 0)
  /\ Cardinality({i \in DOMAIN jobs : jobs[i].from = "refresh"})
       + (IF work.job.from = "refresh" THEN 1 ELSE 0)
       + (IF answer["refresh"].ready THEN 1 ELSE 0) = (IF refreshPending THEN 1 ELSE 0)

(* A Raw Send goes out on the route its confirmation named, whatever         *)
(* happened to the connection since; and unless an overtaken refresh was on  *)
(* the screen, when the confirmation opened or when it was given, it sends   *)
(* the document that was shown, as Remember saves the profile that was shown *)
(* (start_raw_sysex_send(), remember_overridden_manual_profile()).           *)
ActsAsShown ==
  [][/\ phase # "active" /\ phase' = "active" =>
          /\ device.tx = confirmed.route
          /\ confirmed.stale \/ session.doc = confirmed.doc
     /\ session'.saved # session.saved =>
          confirmed.stale \/ session'.saved = confirmed.profile]_vars

(* While an attempt is under way nothing is captured, the document that is   *)
(* being sent stays loaded, and the transport keeps the route it was started *)
(* on: every command that would change one of them refuses or first waits    *)
(* for the end (ConnectionWorker's tests of state.transfer, stop_activity()).*)
TransferIsolated ==
  phase = "active" =>
    /\ ~session.receiving
    /\ session.doc = attempt.doc /\ AllComplete(attempt.doc) /\ total = Len(attempt.doc)
    /\ device.state # "closed" /\ device.tx = attempt.route

(* The profile presented is what the rules give for the document presented   *)
(* and the choices in force, after every change of any of them               *)
(* (evaluate_profile() and the members reset with the document).             *)
MatchCurrent == Matched(session)

(* The page is never left waiting: each command is answered, also when the   *)
(* connection is closed under an attempt, and its buttons work again.        *)
ActionAnswered == pending ~> ~pending

(* Once the user is done the page comes to show the session as it is,        *)
(* whatever overtaken refresh it showed in between.                          *)
EventuallyAccurate == <>[](shown = Snapshot(session))

(* SysExTransferPanel.cpp:370: "A user action queued after this snapshot     *)
(* owns the next visible state."                                             *)
OlderRefreshNeverShown == ~stale

=============================================================================
