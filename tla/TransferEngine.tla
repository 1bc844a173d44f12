--------------------------- MODULE TransferEngine ---------------------------
(***************************************************************************)
(* One TransferEngine (src/src/core/transfer/TransferEngine.cpp): an owner *)
(* thread that starts, waits for and destroys the engine, other threads    *)
(* that request cancellation, and the worker thread that submits the       *)
(* messages one by one with optional pacing and an optional deadline.      *)
(*                                                                         *)
(* A critical section under mutex_ is one action.  The worker's pacing     *)
(* wait is the exception: it holds mutex_ while it tests the predicate of  *)
(* the condition variable and gives it up only as it blocks, so it is      *)
(* split into steps and MutexFree says when another thread may enter.  The *)
(* store to cancel_requested_ happens outside mutex_ and is its own step.  *)
(* Payload bytes are not modelled: bytes_accepted follows                  *)
(* messages_accepted.  A progress handler that cancels from the worker     *)
(* thread behaves as one more canceller.                                   *)
(***************************************************************************)
EXTENDS Naturals, Sequences

CONSTANTS
  Totals,        \* the sizes of the message lists an owner may submit
  Cancellers,    \* threads other than the owner that may call request_cancel
  Owner          \* the thread that starts, waits and destroys

ASSUME TotalsAssumption == Totals \subseteq Nat
ASSUME OwnerAssumption  == Owner \notin Cancellers

VARIABLES
  progress,       \* progress_: state and counters, guarded by mutex_
  result,         \* result_
  cancel,         \* cancel_requested_, an atomic
  wpc,            \* where the worker thread is
  index,          \* the worker's loop index, 0-based
  outcome,        \* the arguments of the finish() the worker is about to call
  woken,          \* changed_ was notified since the worker blocked on it
  options,        \* TransferOptions: a pacing delay, a timeout
  expired,        \* the attempt's deadline has passed
  open,           \* transport.state() = open
  delivered,      \* the messages the transport accepted, in order (history)
  shown,          \* the last snapshot the progress handler was given
  late,           \* sends accepted after cancellation was requested (history)
  owner,          \* the owner's phase: "using", "destroying", "destroyed"
  call            \* where each thread is inside request_cancel

workerVars == <<wpc, index, outcome, woken>>
sharedVars == <<progress, result, cancel>>
worldVars  == <<expired, open, delivered, shown, late>>
vars == <<workerVars, sharedVars, worldVars, options, owner, call>>

Terminal == {"completed", "cancelled", "failed"}
States   == {"idle", "preparing", "running", "cancelling"} \cup Terminal
Errors   == {"none", "cancelled", "timeout", "disconnected", "send"}
Callers  == Cancellers \cup {Owner}

NoWorker == {"none", "exited"}     \* worker_ is not joinable, or its join returns

(* worker_main holds mutex_ between its pacing_intervals_applied update and  *)
(* the block inside wait_until.                                              *)
MutexFree == wpc \notin {"predicate", "block"}

Stop(state, error) == [state |-> state, error |-> error]

Init ==
  /\ progress = [state |-> "idle", total |-> 0, accepted |-> 0, paced |-> 0]
  /\ result = [state |-> "idle", accepted |-> 0, error |-> "none"]
  /\ cancel = FALSE
  /\ wpc = "none"
  /\ index = 0
  /\ outcome = Stop("idle", "none")
  /\ woken = FALSE
  /\ options = [paced |-> FALSE, timed |-> FALSE]
  /\ expired = FALSE
  /\ open \in BOOLEAN
  /\ delivered = <<>>
  /\ shown = progress
  /\ late = 0
  /\ owner = "using"
  /\ call = [c \in Callers |-> "out"]

-----------------------------------------------------------------------------
(* The owner. *)

OwnerFree == owner = "using" /\ call[Owner] = "out"

StartUnlessRunning(n, paced, timed) ==
  /\ OwnerFree
  /\ MutexFree
  /\ wpc = "none"
  /\ progress' = [state |-> "preparing", total |-> n, accepted |-> 0, paced |-> 0]
  /\ result' = [state |-> "preparing", accepted |-> 0, error |-> "none"]
  /\ options' = [paced |-> paced, timed |-> timed]
  /\ wpc' = "spawned"
  /\ UNCHANGED <<cancel, index, outcome, woken, worldVars, owner, call>>

(* start(): refused unless the engine is idle and has no worker. *)
Start(n, paced, timed) ==
  /\ OwnerFree
  /\ MutexFree
  /\ wpc = "none"
  /\ progress.state = "idle"
  /\ progress' = [state |-> "preparing", total |-> n, accepted |-> 0, paced |-> 0]
  /\ result' = [state |-> "preparing", accepted |-> 0, error |-> "none"]
  /\ options' = [paced |-> paced, timed |-> timed]
  /\ wpc' = "spawned"
  /\ UNCHANGED <<cancel, index, outcome, woken, worldVars, owner, call>>

(* wait(): joins the worker; the join leaves nothing joinable behind. *)
Wait ==
  /\ OwnerFree
  /\ wpc = "exited"
  /\ wpc' = "joined"
  /\ UNCHANGED <<sharedVars, index, outcome, woken, worldVars, options, owner, call>>

(* The atomic store that opens request_cancel(). *)
StoreCancel(c) ==
  /\ call[c] = "out"
  /\ cancel' = TRUE
  /\ call' = [call EXCEPT ![c] = "lock"]

(* The destructor is the owner's request_cancel() followed by a join.  The   *)
(* contract asks every other call to have returned.                          *)
Destroy ==
  /\ OwnerFree
  /\ \A c \in Cancellers : call[c] = "out"
  /\ StoreCancel(Owner)
  /\ owner' = "destroying"
  /\ UNCHANGED <<progress, result, workerVars, worldVars, options>>

DestroyJoin ==
  /\ owner = "destroying"
  /\ call[Owner] = "out"
  /\ wpc \in NoWorker \cup {"joined"}
  /\ owner' = "destroyed"
  /\ UNCHANGED <<sharedVars, workerVars, worldVars, options, call>>

-----------------------------------------------------------------------------
(* request_cancel(), from any thread. *)

RequestCancel(c) ==
  /\ owner = "using"
  /\ StoreCancel(c)
  /\ UNCHANGED <<progress, result, workerVars, worldVars, options, owner>>

(* What request_cancel() does to the state: an active attempt is marked, an  *)
(* idle engine is finished for good, a finished one is left alone.           *)
CancelledState ==
  \/ /\ progress.state \in {"running", "preparing"}
     /\ progress' = [progress EXCEPT !.state = "cancelling"]
     /\ UNCHANGED result
  \/ /\ progress.state = "idle"
     /\ progress' = [progress EXCEPT !.state = "cancelled"]
     /\ result' = [state |-> "cancelled", accepted |-> progress.accepted,
                   error |-> "cancelled"]
  \/ /\ progress.state \in {"cancelling"} \cup Terminal
     /\ UNCHANGED <<progress, result>>

CancelWithoutMutex(c) ==
  /\ call[c] = "lock"
  /\ CancelledState
  /\ call' = [call EXCEPT ![c] = "notify"]
  /\ UNCHANGED <<cancel, workerVars, worldVars, options, owner>>

CancelLocked(c) ==
  /\ call[c] = "lock"
  /\ MutexFree
  /\ CancelledState
  /\ call' = [call EXCEPT ![c] = "notify"]
  /\ UNCHANGED <<cancel, workerVars, worldVars, options, owner>>

(* changed_.notify_all(): it reaches a worker that is blocked at this moment. *)
CancelNotify(c) ==
  /\ call[c] = "notify"
  /\ woken' = (woken \/ wpc = "waiting")
  /\ call' = [call EXCEPT ![c] = "out"]
  /\ UNCHANGED <<sharedVars, wpc, index, outcome, worldVars, options, owner>>

-----------------------------------------------------------------------------
(* The worker thread. *)

Goto(label) ==
  /\ wpc' = label
  /\ UNCHANGED <<index, outcome, woken>>

FinishWith(state, error) ==
  /\ wpc' = "finish"
  /\ outcome' = Stop(state, error)
  /\ UNCHANGED <<index, woken>>

(* The head of the for loop. *)
LoopFrom(i) ==
  /\ index' = i
  /\ IF i < progress.total
       THEN wpc' = "checkCancel" /\ UNCHANGED outcome
       ELSE wpc' = "finish" /\ outcome' = Stop("completed", "none")
  /\ UNCHANGED woken

(* running is stored whatever request_cancel() left there. *)
BeginRun ==
  /\ wpc = "spawned"
  /\ progress' = [progress EXCEPT !.state = "running"]
  /\ Goto("announce")
  /\ UNCHANGED <<result, cancel, worldVars, options, owner, call>>

(* publish(): the handler gets the state as it is under mutex_. *)
Publish == shown' = progress

Announce ==
  /\ wpc = "announce"
  /\ Publish
  /\ LoopFrom(0)
  /\ UNCHANGED <<sharedVars, expired, open, delivered, late, options, owner, call>>

SkipCancelCheck ==
  /\ wpc = "checkCancel"
  /\ Goto("checkDeadline")
  /\ UNCHANGED <<sharedVars, worldVars, options, owner, call>>

CheckCancel ==
  /\ wpc = "checkCancel"
  /\ IF cancel THEN FinishWith("cancelled", "cancelled") ELSE Goto("checkDeadline")
  /\ UNCHANGED <<sharedVars, worldVars, options, owner, call>>

CheckDeadline ==
  /\ wpc = "checkDeadline"
  /\ IF expired THEN FinishWith("failed", "timeout") ELSE Goto("checkOpen")
  /\ UNCHANGED <<sharedVars, worldVars, options, owner, call>>

CheckOpen ==
  /\ wpc = "checkOpen"
  /\ IF open THEN Goto("send") ELSE FinishWith("failed", "disconnected")
  /\ UNCHANGED <<sharedVars, worldVars, options, owner, call>>

SendAgain ==
  /\ wpc = "send"
  /\ open
  /\ delivered' = Append(delivered, index)
  /\ late' = late + (IF cancel THEN 1 ELSE 0)
  /\ Goto("account")
  /\ UNCHANGED <<sharedVars, expired, open, shown, options, owner, call>>

(* transport.send() returns success: only an open transport accepts. *)
SendAccepted ==
  /\ wpc = "send"
  /\ open
  /\ delivered' = Append(delivered, index + 1)
  /\ late' = late + (IF cancel THEN 1 ELSE 0)
  /\ Goto("account")
  /\ UNCHANGED <<sharedVars, expired, open, shown, options, owner, call>>

SendFailureIgnored ==
  /\ wpc = "send"
  /\ Goto("account")
  /\ UNCHANGED <<sharedVars, worldVars, options, owner, call>>

SendFailed ==
  /\ wpc = "send"
  /\ FinishWith("failed", "send")
  /\ UNCHANGED <<sharedVars, worldVars, options, owner, call>>

Account ==
  /\ wpc = "account"
  /\ progress' = [progress EXCEPT !.accepted = @ + 1]
  /\ Goto("report")
  /\ UNCHANGED <<result, cancel, worldVars, options, owner, call>>

(* The last message, and every message of an unpaced attempt, loops at once. *)
Report ==
  /\ wpc = "report"
  /\ Publish
  /\ IF index + 1 = progress.total \/ ~options.paced
       THEN LoopFrom(index + 1)
       ELSE Goto("pace")
  /\ UNCHANGED <<sharedVars, expired, open, delivered, late, options, owner, call>>

EnterPacing ==
  /\ wpc = "pace"
  /\ progress' = [progress EXCEPT !.paced = @ + 1]
  /\ Goto("predicate")
  /\ UNCHANGED <<result, cancel, worldVars, options, owner, call>>

(* wait_until tests its predicate with mutex_ held. *)
TestPredicate ==
  /\ wpc = "predicate"
  /\ Goto(IF cancel THEN "afterPacing" ELSE "block")
  /\ UNCHANGED <<sharedVars, worldVars, options, owner, call>>

(* It releases mutex_ and blocks in one step. *)
Block ==
  /\ wpc = "block"
  /\ wpc' = "waiting"
  /\ woken' = FALSE
  /\ UNCHANGED <<index, outcome, sharedVars, worldVars, options, owner, call>>

WakeNotified ==
  /\ wpc = "waiting"
  /\ woken
  /\ Goto("predicate")
  /\ UNCHANGED <<sharedVars, worldVars, options, owner, call>>

(* The pacing interval or the deadline ends the wait. *)
PacingElapses ==
  /\ wpc = "waiting"
  /\ Goto("afterPacing")
  /\ UNCHANGED <<sharedVars, worldVars, options, owner, call>>

AfterPacing ==
  /\ wpc = "afterPacing"
  /\ IF cancel THEN FinishWith("cancelled", "cancelled") ELSE Goto("afterDeadline")
  /\ UNCHANGED <<sharedVars, worldVars, options, owner, call>>

AfterDeadline ==
  /\ wpc = "afterDeadline"
  /\ IF expired THEN FinishWith("failed", "timeout") ELSE LoopFrom(index + 1)
  /\ UNCHANGED <<sharedVars, worldVars, options, owner, call>>

(* The locked part of finish(). *)
Finish ==
  /\ wpc = "finish"
  /\ progress' = [progress EXCEPT !.state = outcome.state]
  /\ result' = [state |-> outcome.state, accepted |-> progress.accepted,
                error |-> outcome.error]
  /\ Goto("announceEnd")
  /\ UNCHANGED <<cancel, worldVars, options, owner, call>>

EndUnannounced ==
  /\ wpc = "announceEnd"
  /\ Goto("exited")
  /\ UNCHANGED <<sharedVars, worldVars, options, owner, call>>

AnnounceEnd ==
  /\ wpc = "announceEnd"
  /\ Publish
  /\ Goto("exited")
  /\ UNCHANGED <<sharedVars, expired, open, delivered, late, options, owner, call>>

Worker ==
  \/ BeginRun \/ Announce \/ CheckCancel \/ CheckDeadline \/ CheckOpen
  \/ SendAccepted \/ SendFailed \/ Account \/ Report
  \/ EnterPacing \/ TestPredicate \/ Block \/ WakeNotified
  \/ AfterPacing \/ AfterDeadline \/ Finish \/ AnnounceEnd

-----------------------------------------------------------------------------
(* The world: time, and a transport that others open and close. *)

DeadlinePasses ==
  /\ options.timed /\ ~expired
  /\ wpc \notin {"none", "spawned"}
  /\ expired' = TRUE
  /\ UNCHANGED <<sharedVars, workerVars, open, delivered, shown, late, options, owner, call>>

TransportChanges ==
  /\ owner # "destroyed"
  /\ open' = ~open
  /\ UNCHANGED <<sharedVars, workerVars, expired, delivered, shown, late, options, owner, call>>

Next ==
  \/ \E n \in Totals, paced, timed \in BOOLEAN : Start(n, paced, timed)
  \/ Wait \/ Destroy \/ DestroyJoin
  \/ \E c \in Callers : RequestCancel(c) \/ CancelLocked(c) \/ CancelNotify(c)
  \/ Worker \/ PacingElapses
  \/ DeadlinePasses \/ TransportChanges

Spec == Init /\ [][Next]_vars

(* Threads that can run do run, and a send returns.  Nobody has to start,    *)
(* cancel or destroy; no pacing interval or deadline has to end.             *)
Fairness ==
  /\ WF_vars(Worker)
  /\ \A c \in Callers : WF_vars(CancelLocked(c)) /\ WF_vars(CancelNotify(c))
  /\ WF_vars(DestroyJoin)

FairSpec == Spec /\ Fairness

-----------------------------------------------------------------------------
(* Properties.  Operators named as bugs above (StartUnlessRunning,           *)
(* SendAgain, EndUnannounced, ...) are not part of Next: they are the        *)
(* plausible mistakes the properties below are tested against.               *)

WorkerPlaces ==
  {"none", "spawned", "announce", "checkCancel", "checkDeadline", "checkOpen",
   "send", "account", "report", "pace", "predicate", "block", "waiting",
   "afterPacing", "afterDeadline", "finish", "announceEnd", "exited", "joined"}

Snapshots == [state : States, total : Nat, accepted : Nat, paced : Nat]

(* Every variable has its type; result_ never holds a state that only an     *)
(* attempt in progress can have, because finish() copies its own argument.   *)
TypeOK ==
  /\ progress \in Snapshots
  /\ shown \in Snapshots
  /\ result \in [state : {"idle", "preparing"} \cup Terminal,
                 accepted : Nat, error : Errors]
  /\ cancel \in BOOLEAN
  /\ wpc \in WorkerPlaces
  /\ index \in Nat
  /\ outcome \in [state : {"idle"} \cup Terminal, error : Errors]
  /\ woken \in BOOLEAN
  /\ options \in [paced : BOOLEAN, timed : BOOLEAN]
  /\ expired \in BOOLEAN
  /\ open \in BOOLEAN
  /\ delivered \in Seq(Nat)
  /\ late \in Nat
  /\ owner \in {"using", "destroying", "destroyed"}
  /\ call \in [Callers -> {"out", "lock", "notify"}]

(* The transport accepts the messages of the attempt in order, none twice    *)
(* and none skipped, and messages_accepted counts exactly those, but for the *)
(* one the worker has sent and not yet accounted for.                        *)
AcceptedPrefix ==
  /\ \A i \in 1..Len(delivered) : delivered[i] = i
  /\ Len(delivered) = progress.accepted + (IF wpc = "account" THEN 1 ELSE 0)
  /\ Len(delivered) <= progress.total

(* A result tells the truth: completed means that the transport took every   *)
(* message, cancelled that somebody asked for it, a timeout that the         *)
(* deadline passed; in every case it counts what the transport took.         *)
ResultTruthful ==
  result.state \in Terminal =>
    /\ result.state = progress.state
    /\ result.accepted = Len(delivered)
    /\ result.state = "completed" =>
         Len(delivered) = progress.total /\ result.error = "none"
    /\ result.state = "cancelled" => cancel /\ result.error = "cancelled"
    /\ result.state = "failed" =>
         /\ result.error \in {"timeout", "disconnected", "send"}
         /\ result.error = "timeout" => expired

(* Once cancellation is requested at most the send already under way still   *)
(* reaches the transport, however the request races the worker's checks.     *)
CancelStopsSending == late <= 1

(* The progress handler's last snapshot is the final one, whichever calls    *)
(* raced finish(): a handler never ends on a stale state.                    *)
HandlerSeesEnd ==
  wpc \in {"exited", "joined"} =>
    shown = progress /\ shown.state = result.state /\ shown.state \in Terminal

(* No worker outlives the engine: the object is gone only after the join.    *)
NoOrphanWorker == owner = "destroyed" => wpc \in {"none", "exited", "joined"}

(* A terminal state, its result and what was delivered never change again,   *)
(* whatever start() or request_cancel() is called later.                     *)
EndIsFinal ==
  [][progress.state \in Terminal =>
       UNCHANGED <<progress, result, delivered>>]_vars

(* Cancellation ends an attempt without waiting for a pacing interval or the *)
(* deadline to end, although cancel_requested_ is stored outside mutex_: no  *)
(* wakeup of the pacing wait is lost.                                        *)
CancelEndsAttempt == cancel ~> wpc \in {"none", "exited", "joined"}

(* The threads, locks and checks of the engine implement a one-shot attempt. *)
Phase == IF progress.state \in {"preparing", "running", "cancelling"}
           THEN "active" ELSE progress.state

Abstract == INSTANCE OneShotTransfer
              WITH phase <- Phase, total <- progress.total,
                   accepted <- progress.accepted

ImplementsOneShot == Abstract!AbsSpec
=============================================================================
