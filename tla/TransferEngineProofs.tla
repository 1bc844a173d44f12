------------------------ MODULE TransferEngineProofs ------------------------
(***************************************************************************)
(* Proofs about TransferEngine for every set of list sizes and every set   *)
(* of cancelling threads.  The argument ties the worker's place in         *)
(* worker_main to the counters, the history of accepted messages and the   *)
(* two state fields; every safety property of the model-checked run is a   *)
(* consequence of that one inductive invariant.                            *)
(***************************************************************************)
EXTENDS TransferEngine, TLAPS

(* Places by what the loop has done with message `index' when it is there.  *)
Before  == {"none", "spawned", "announce"}
Unsent  == {"checkCancel", "checkDeadline", "checkOpen", "send"}
Pacing  == {"pace", "predicate", "block", "waiting", "afterPacing", "afterDeadline"}
Ending  == {"finish", "announceEnd", "exited", "joined"}
Over    == {"announceEnd", "exited", "joined"}

(* The loop index, the counters and the history agree at every place.        *)
CountInv ==
  /\ \A i \in 1..Len(delivered) : delivered[i] = i
  /\ wpc \in Before => progress.accepted = 0 /\ Len(delivered) = 0
  /\ wpc \in Unsent =>
       /\ index < progress.total
       /\ progress.accepted = index /\ Len(delivered) = index
  /\ wpc = "account" =>
       /\ index < progress.total
       /\ progress.accepted = index /\ Len(delivered) = index + 1
  /\ wpc = "report" =>
       /\ index < progress.total
       /\ progress.accepted = index + 1 /\ Len(delivered) = index + 1
  /\ wpc \in Pacing =>
       /\ index + 1 < progress.total
       /\ progress.accepted = index + 1 /\ Len(delivered) = index + 1
  /\ wpc \in Ending =>
       /\ progress.accepted <= progress.total
       /\ Len(delivered) = progress.accepted

(* The two state fields follow the worker.                                   *)
StateInv ==
  /\ wpc = "none" =>
       /\ progress.state \in {"idle", "cancelled"}
       /\ result.state = progress.state
       /\ progress.state = "cancelled" =>
            cancel /\ result.error = "cancelled" /\ result.accepted = 0
  /\ wpc \notin Over \cup {"none"} =>
       /\ progress.state \in {"preparing", "running", "cancelling"}
       /\ result.state = "preparing"
  /\ wpc \in Over =>
       /\ progress.state \in Terminal
       /\ result.state = progress.state
       /\ result.accepted = Len(delivered)
  /\ wpc \in {"exited", "joined"} => shown = progress

(* What justifies a terminal state, before and after finish() stores it.     *)
Justified(state, error) ==
  \/ state = "completed" /\ error = "none" /\ Len(delivered) = progress.total
  \/ state = "cancelled" /\ error = "cancelled" /\ cancel
  \/ state = "failed" /\ error = "timeout" /\ expired
  \/ state = "failed" /\ error \in {"disconnected", "send"}

ReasonInv ==
  /\ wpc = "finish" => Justified(outcome.state, outcome.error)
  /\ wpc \in Over => Justified(result.state, result.error)

LateInv ==
  \/ late = 0
  \/ late = 1 /\ cancel /\ wpc \notin {"checkDeadline", "checkOpen", "send"}

(* A thread past its store to cancel_requested_ finds it set.                *)
CallInv == \A c \in Callers : call[c] # "out" => cancel

OwnerInv == owner = "destroyed" => wpc \in {"none", "exited", "joined"}

PlaceInv == CountInv /\ StateInv /\ ReasonInv /\ LateInv
            /\ CallInv /\ OwnerInv

IInv == TypeOK /\ PlaceInv

-----------------------------------------------------------------------------
(* Types.                                                                    *)

LEMMA TypeInit == Init => TypeOK
<1> SUFFICES ASSUME Init PROVE TypeOK
  OBVIOUS
<1>1. /\ open \in BOOLEAN /\ expired \in BOOLEAN
      /\ woken \in BOOLEAN /\ cancel \in BOOLEAN
      /\ options \in [paced : BOOLEAN, timed : BOOLEAN]
  BY Zenon DEF Init
<1>2. late \in Nat /\ index \in Nat /\ delivered \in Seq(Nat)
  BY DEF Init
<1>3. /\ progress \in Snapshots /\ shown \in Snapshots
      /\ outcome \in [state : {"idle"} \cup Terminal, error : Errors]
      /\ result \in [state : {"idle", "preparing"} \cup Terminal,
                     accepted : Nat, error : Errors]
  BY DEF Init, Snapshots, States, Terminal, Errors, Stop
<1>4. /\ wpc \in WorkerPlaces
      /\ owner \in {"using", "destroying", "destroyed"}
      /\ call \in [Callers -> {"out", "lock", "notify"}]
  BY DEF Init, WorkerPlaces
<1> QED
  BY <1>1, <1>2, <1>3, <1>4 DEF TypeOK

LEMMA TypeNext == TypeOK /\ [Next]_vars => TypeOK'
<1> USE DEF TypeOK
<1>1. ASSUME NEW n \in Totals, NEW paced \in BOOLEAN, NEW timed \in BOOLEAN, TypeOK,
             Start(n, paced, timed)
      PROVE  TypeOK'
  <2>1. options' \in [paced : BOOLEAN, timed : BOOLEAN]
    BY <1>1, Zenon DEF Start
  <2>2. progress' \in Snapshots
    BY <1>1, TotalsAssumption DEF Start, Snapshots, States
  <2>3. result' \in [state : {"idle", "preparing"} \cup Terminal,
                     accepted : Nat, error : Errors]
    BY <1>1 DEF Start, Errors
  <2> QED
    BY <1>1, <2>1, <2>2, <2>3 DEF Start, worldVars, WorkerPlaces
<1>2. ASSUME TypeOK, Wait PROVE TypeOK'
  BY <1>2 DEF Wait, sharedVars, worldVars, WorkerPlaces
<1>3. ASSUME TypeOK, Destroy PROVE TypeOK'
  BY <1>3 DEF Destroy, StoreCancel, workerVars, worldVars
<1>4. ASSUME TypeOK, DestroyJoin PROVE TypeOK'
  BY <1>4 DEF DestroyJoin, NoWorker, sharedVars, workerVars, worldVars
<1>5. ASSUME NEW c \in Callers, TypeOK, RequestCancel(c) PROVE TypeOK'
  BY <1>5 DEF RequestCancel, StoreCancel, workerVars, worldVars
<1>6. ASSUME NEW c \in Callers, TypeOK, CancelLocked(c) PROVE TypeOK'
  <2>1. CASE progress.state \in {"running", "preparing"}
    BY <1>6, <2>1 DEF CancelLocked, CancelledState, workerVars, worldVars, Snapshots, States, Terminal, Errors
  <2>2. CASE progress.state = "idle"
    BY <1>6, <2>2 DEF CancelLocked, CancelledState, workerVars, worldVars, Snapshots, States, Terminal, Errors
  <2>3. CASE progress.state \in {"cancelling"} \cup Terminal
    BY <1>6, <2>3 DEF CancelLocked, CancelledState, workerVars, worldVars, Snapshots, States, Terminal, Errors
  <2> QED
    BY <1>6, <2>1, <2>2, <2>3 DEF CancelLocked, CancelledState
<1>7. ASSUME NEW c \in Callers, TypeOK, CancelNotify(c) PROVE TypeOK'
  BY <1>7 DEF CancelNotify, sharedVars, worldVars
<1>8. ASSUME TypeOK, BeginRun PROVE TypeOK'
  BY <1>8 DEF BeginRun, Goto, worldVars, Snapshots, States, WorkerPlaces
<1>9. ASSUME TypeOK, Announce PROVE TypeOK'
  BY <1>9 DEF Announce, Publish, LoopFrom, Stop, sharedVars, Terminal, Errors,
              WorkerPlaces, Snapshots
<1>10. ASSUME TypeOK, CheckCancel PROVE TypeOK'
  BY <1>10 DEF CheckCancel, Goto, FinishWith, Stop, sharedVars, worldVars, Terminal,
              Errors, WorkerPlaces
<1>11. ASSUME TypeOK, CheckDeadline PROVE TypeOK'
  BY <1>11 DEF CheckDeadline, Goto, FinishWith, Stop, sharedVars, worldVars,
              Terminal, Errors, WorkerPlaces
<1>12. ASSUME TypeOK, CheckOpen PROVE TypeOK'
  BY <1>12 DEF CheckOpen, Goto, FinishWith, Stop, sharedVars, worldVars, Terminal,
              Errors, WorkerPlaces
<1>13. ASSUME TypeOK, SendAccepted PROVE TypeOK'
  BY <1>13 DEF SendAccepted, Goto, sharedVars, WorkerPlaces
<1>14. ASSUME TypeOK, SendFailed PROVE TypeOK'
  BY <1>14 DEF SendFailed, FinishWith, Stop, sharedVars, worldVars, Terminal,
              Errors, WorkerPlaces
<1>15. ASSUME TypeOK, Account PROVE TypeOK'
  <2>1. progress' = [progress EXCEPT !.accepted = progress.accepted + 1]
    BY <1>15 DEF Account
  <2>2. progress.accepted + 1 \in Nat
    BY <1>15 DEF Snapshots
  <2>3. progress' \in Snapshots
    BY <1>15, <2>1, <2>2 DEF Snapshots
  <2> QED
    BY <1>15, <2>3 DEF Account, Goto, worldVars, WorkerPlaces
<1>16. ASSUME TypeOK, Report PROVE TypeOK'
  BY <1>16 DEF Report, Goto, Publish, LoopFrom, Stop, sharedVars, Terminal, Errors,
              WorkerPlaces, Snapshots
<1>17. ASSUME TypeOK, EnterPacing PROVE TypeOK'
  <2>1. progress' = [progress EXCEPT !.paced = progress.paced + 1]
    BY <1>17 DEF EnterPacing
  <2>2. progress.paced + 1 \in Nat
    BY <1>17 DEF Snapshots
  <2>3. progress' \in Snapshots
    BY <1>17, <2>1, <2>2 DEF Snapshots
  <2> QED
    BY <1>17, <2>3 DEF EnterPacing, Goto, worldVars, WorkerPlaces
<1>18. ASSUME TypeOK, TestPredicate PROVE TypeOK'
  BY <1>18 DEF TestPredicate, Goto, sharedVars, worldVars, WorkerPlaces
<1>19. ASSUME TypeOK, Block PROVE TypeOK'
  BY <1>19 DEF Block, sharedVars, worldVars, WorkerPlaces
<1>20. ASSUME TypeOK, WakeNotified PROVE TypeOK'
  BY <1>20 DEF WakeNotified, Goto, sharedVars, worldVars, WorkerPlaces
<1>21. ASSUME TypeOK, AfterPacing PROVE TypeOK'
  BY <1>21 DEF AfterPacing, Goto, FinishWith, Stop, sharedVars, worldVars, Terminal,
              Errors, WorkerPlaces
<1>22. ASSUME TypeOK, AfterDeadline PROVE TypeOK'
  BY <1>22 DEF AfterDeadline, FinishWith, LoopFrom, Stop, sharedVars, worldVars,
              Terminal, Errors, WorkerPlaces
<1>23. ASSUME TypeOK, Finish PROVE TypeOK'
  BY <1>23 DEF Finish, Goto, worldVars, Snapshots, States, Terminal, WorkerPlaces
<1>24. ASSUME TypeOK, AnnounceEnd PROVE TypeOK'
  BY <1>24 DEF AnnounceEnd, Goto, Publish, sharedVars, WorkerPlaces
<1>25. ASSUME TypeOK, PacingElapses PROVE TypeOK'
  BY <1>25 DEF PacingElapses, Goto, sharedVars, worldVars, WorkerPlaces
<1>26. ASSUME TypeOK, DeadlinePasses PROVE TypeOK'
  BY <1>26 DEF DeadlinePasses, sharedVars, workerVars
<1>27. ASSUME TypeOK, TransportChanges PROVE TypeOK'
  BY <1>27 DEF TransportChanges, sharedVars, workerVars
<1>28. ASSUME TypeOK, UNCHANGED vars PROVE TypeOK'
  BY <1>28 DEF vars, workerVars, sharedVars, worldVars
<1> HIDE DEF TypeOK
<1> QED
  BY <1>1, <1>2, <1>3, <1>4, <1>5, <1>6, <1>7, <1>8, <1>9, <1>10, <1>11, <1>12,
     <1>13, <1>14, <1>15, <1>16, <1>17, <1>18, <1>19, <1>20, <1>21, <1>22, <1>23,
     <1>24, <1>25, <1>26, <1>27, <1>28
     DEF Next, Worker

(* Every variable keeps its type in every behaviour of the engine.           *)
THEOREM TypeCorrect == Spec => []TypeOK
<1>1. Init => TypeOK
  BY TypeInit
<1>2. TypeOK /\ [Next]_vars => TypeOK'
  BY TypeNext
<1> QED
  BY <1>1, <1>2, PTL DEF Spec

-----------------------------------------------------------------------------
(* The worker's place.                                                       *)

LEMMA PlaceInit == Init => PlaceInv
BY DEF Init, PlaceInv, CountInv, StateInv, ReasonInv, LateInv, CallInv, OwnerInv,
       Before, Unsent, Pacing, Ending, Over

LEMMA CountNext == TypeOK /\ CountInv /\ [Next]_vars => CountInv'
<1> USE DEF TypeOK, CountInv, Snapshots, Before, Unsent, Pacing, Ending
<1>1. ASSUME NEW n \in Totals, NEW paced \in BOOLEAN,
             NEW timed \in BOOLEAN, TypeOK, CountInv,
             Start(n, paced, timed)
      PROVE  CountInv'
  <2>1. /\ wpc' = "spawned" /\ progress'.accepted = 0
        /\ delivered' = delivered /\ Len(delivered) = 0
    BY <1>1 DEF Start, worldVars
  <2> QED
    BY <1>1, <2>1
<1>2. ASSUME TypeOK, CountInv, Wait \/ Destroy \/ DestroyJoin PROVE CountInv'
  BY <1>2 DEF Wait, sharedVars, worldVars, Destroy, StoreCancel, workerVars,
              DestroyJoin, NoWorker
<1>3. ASSUME NEW c \in Callers, TypeOK, CountInv,
             RequestCancel(c) \/ CancelNotify(c)
      PROVE  CountInv'
  BY <1>3 DEF RequestCancel, StoreCancel, workerVars, worldVars, CancelNotify,
              sharedVars
<1>4. ASSUME NEW c \in Callers, TypeOK, CountInv, CancelLocked(c) PROVE CountInv'
  BY <1>4 DEF CancelLocked, CancelledState, workerVars, worldVars
<1>5. ASSUME TypeOK, CountInv, BeginRun PROVE CountInv'
  BY <1>5 DEF BeginRun, Goto, worldVars
<1>6. ASSUME TypeOK, CountInv, Announce PROVE CountInv'
  BY <1>6 DEF Announce, Publish, LoopFrom, Stop, sharedVars
<1>7. ASSUME TypeOK, CountInv, CheckCancel PROVE CountInv'
  <2>1. CASE cancel
    BY <1>7, <2>1 DEF CheckCancel, Goto, FinishWith, Stop, sharedVars, worldVars
  <2>2. CASE ~(cancel)
    BY <1>7, <2>2 DEF CheckCancel, Goto, FinishWith, Stop, sharedVars, worldVars
  <2> QED
    BY <2>1, <2>2
<1>8. ASSUME TypeOK, CountInv, CheckDeadline PROVE CountInv'
  <2>1. CASE expired
    BY <1>8, <2>1 DEF CheckDeadline, Goto, FinishWith, Stop, sharedVars, worldVars
  <2>2. CASE ~(expired)
    BY <1>8, <2>2 DEF CheckDeadline, Goto, FinishWith, Stop, sharedVars, worldVars
  <2> QED
    BY <2>1, <2>2
<1>9. ASSUME TypeOK, CountInv, CheckOpen PROVE CountInv'
  <2>1. CASE open
    BY <1>9, <2>1 DEF CheckOpen, Goto, FinishWith, Stop, sharedVars, worldVars
  <2>2. CASE ~(open)
    BY <1>9, <2>2 DEF CheckOpen, Goto, FinishWith, Stop, sharedVars, worldVars
  <2> QED
    BY <2>1, <2>2
<1>10. ASSUME TypeOK, CountInv, SendAccepted PROVE CountInv'
  BY <1>10 DEF SendAccepted, Goto, sharedVars
<1>11. ASSUME TypeOK, CountInv, SendFailed PROVE CountInv'
  BY <1>11 DEF SendFailed, FinishWith, Stop, sharedVars, worldVars
<1>12. ASSUME TypeOK, CountInv, Account PROVE CountInv'
  BY <1>12 DEF Account, Goto, worldVars
<1>13. ASSUME TypeOK, CountInv, Report PROVE CountInv'
  <2>1. CASE index + 1 = progress.total \/ ~options.paced
    BY <1>13, <2>1 DEF Report, Goto, Publish, LoopFrom, Stop, sharedVars
  <2>2. CASE ~(index + 1 = progress.total \/ ~options.paced)
    BY <1>13, <2>2 DEF Report, Goto, Publish, LoopFrom, Stop, sharedVars
  <2> QED
    BY <2>1, <2>2
<1>14. ASSUME TypeOK, CountInv, EnterPacing PROVE CountInv'
  BY <1>14 DEF EnterPacing, Goto, worldVars
<1>15. ASSUME TypeOK, CountInv, TestPredicate PROVE CountInv'
  <2>1. CASE cancel
    BY <1>15, <2>1 DEF TestPredicate, Goto, sharedVars, worldVars
  <2>2. CASE ~(cancel)
    BY <1>15, <2>2 DEF TestPredicate, Goto, sharedVars, worldVars
  <2> QED
    BY <2>1, <2>2
<1>16. ASSUME TypeOK, CountInv,
             Block \/ WakeNotified \/ PacingElapses
      PROVE  CountInv'
  BY <1>16 DEF Block, sharedVars, worldVars, WakeNotified, Goto, PacingElapses
<1>17. ASSUME TypeOK, CountInv, AfterPacing PROVE CountInv'
  <2>1. CASE cancel
    BY <1>17, <2>1 DEF AfterPacing, Goto, FinishWith, Stop, sharedVars, worldVars
  <2>2. CASE ~(cancel)
    BY <1>17, <2>2 DEF AfterPacing, Goto, FinishWith, Stop, sharedVars, worldVars
  <2> QED
    BY <2>1, <2>2
<1>18. ASSUME TypeOK, CountInv, AfterDeadline PROVE CountInv'
  <2>1. CASE expired
    BY <1>18, <2>1 DEF AfterDeadline, FinishWith, LoopFrom, Stop, sharedVars,
                      worldVars
  <2>2. CASE ~(expired)
    BY <1>18, <2>2 DEF AfterDeadline, FinishWith, LoopFrom, Stop, sharedVars,
                      worldVars
  <2> QED
    BY <2>1, <2>2
<1>19. ASSUME TypeOK, CountInv, Finish PROVE CountInv'
  BY <1>19 DEF Finish, Goto, worldVars
<1>20. ASSUME TypeOK, CountInv, AnnounceEnd PROVE CountInv'
  BY <1>20 DEF AnnounceEnd, Goto, Publish, sharedVars
<1>21. ASSUME TypeOK, CountInv,
             DeadlinePasses \/ TransportChanges \/ UNCHANGED vars
      PROVE  CountInv'
  BY <1>21 DEF DeadlinePasses, sharedVars, workerVars, TransportChanges, vars,
               worldVars
<1> HIDE DEF TypeOK, CountInv
<1> QED
  BY <1>1, <1>2, <1>3, <1>4, <1>5, <1>6, <1>7, <1>8, <1>9, <1>10, <1>11, <1>12,
     <1>13, <1>14, <1>15, <1>16, <1>17, <1>18, <1>19, <1>20, <1>21
     DEF Next, Worker

LEMMA CallNext == TypeOK /\ CallInv /\ [Next]_vars => CallInv'
<1> USE DEF TypeOK, CallInv
<1>1. ASSUME NEW n \in Totals, NEW paced \in BOOLEAN,
             NEW timed \in BOOLEAN, TypeOK, CallInv,
             Start(n, paced, timed)
      PROVE  CallInv'
  BY <1>1 DEF Start, worldVars
<1>2. ASSUME TypeOK, CallInv, Wait \/ Destroy \/ DestroyJoin PROVE CallInv'
  BY <1>2 DEF Wait, sharedVars, worldVars, Destroy, StoreCancel, workerVars,
              DestroyJoin, NoWorker
<1>3. ASSUME NEW c \in Callers, TypeOK, CallInv, RequestCancel(c) PROVE CallInv'
  BY <1>3 DEF RequestCancel, StoreCancel, workerVars, worldVars
<1>4. ASSUME NEW c \in Callers, TypeOK, CallInv,
             CancelLocked(c) \/ CancelNotify(c)
      PROVE  CallInv'
  BY <1>4 DEF CancelLocked, CancelledState, workerVars, worldVars, CancelNotify,
              sharedVars
<1>5. ASSUME TypeOK, CallInv,
             BeginRun \/ Announce \/ Account \/ Report
      PROVE  CallInv'
  BY <1>5 DEF BeginRun, Goto, worldVars, Announce, Publish, LoopFrom, Stop,
              sharedVars, Account, Report
<1>6. ASSUME TypeOK, CallInv,
             CheckCancel \/ CheckDeadline \/ CheckOpen
      PROVE  CallInv'
  BY <1>6 DEF CheckCancel, Goto, FinishWith, Stop, sharedVars, worldVars,
              CheckDeadline, CheckOpen
<1>7. ASSUME TypeOK, CallInv,
             SendAccepted \/ SendFailed \/ Finish \/ AnnounceEnd
      PROVE  CallInv'
  BY <1>7 DEF SendAccepted, Goto, sharedVars, SendFailed, FinishWith, Stop,
              worldVars, Finish, AnnounceEnd, Publish
<1>8. ASSUME TypeOK, CallInv,
             EnterPacing \/ TestPredicate \/ Block \/ WakeNotified \/ PacingElapses
      PROVE  CallInv'
  BY <1>8 DEF EnterPacing, Goto, worldVars, TestPredicate, sharedVars, Block,
              WakeNotified, PacingElapses
<1>9. ASSUME TypeOK, CallInv, AfterPacing \/ AfterDeadline PROVE CallInv'
  BY <1>9 DEF AfterPacing, Goto, FinishWith, Stop, sharedVars, worldVars,
              AfterDeadline, LoopFrom
<1>10. ASSUME TypeOK, CallInv,
             DeadlinePasses \/ TransportChanges \/ UNCHANGED vars
      PROVE  CallInv'
  BY <1>10 DEF DeadlinePasses, sharedVars, workerVars, TransportChanges, vars,
               worldVars
<1> HIDE DEF TypeOK, CallInv
<1> QED
  BY <1>1, <1>2, <1>3, <1>4, <1>5, <1>6, <1>7, <1>8, <1>9, <1>10
     DEF Next, Worker

LEMMA StateNext ==
  TypeOK /\ CountInv /\ StateInv /\ ReasonInv /\ CallInv /\ [Next]_vars => StateInv'
<1> USE DEF TypeOK, CountInv, StateInv, ReasonInv, Justified, Snapshots, Over, Ending, Terminal, Before
<1>1. ASSUME NEW n \in Totals, NEW paced \in BOOLEAN,
             NEW timed \in BOOLEAN, TypeOK, CountInv, StateInv,
             ReasonInv, CallInv,
             Start(n, paced, timed)
      PROVE  StateInv'
  BY <1>1 DEF Start, worldVars
<1>2. ASSUME TypeOK, CountInv, StateInv, ReasonInv, CallInv,
             Wait \/ Destroy \/ DestroyJoin
      PROVE  StateInv'
  BY <1>2 DEF Wait, sharedVars, worldVars, Destroy, StoreCancel, workerVars,
              DestroyJoin, NoWorker
<1>3. ASSUME NEW c \in Callers, TypeOK, CountInv, StateInv, ReasonInv, CallInv,
             RequestCancel(c) \/ CancelNotify(c)
      PROVE  StateInv'
  BY <1>3 DEF RequestCancel, StoreCancel, workerVars, worldVars, CancelNotify,
              sharedVars
<1>4. ASSUME NEW c \in Callers, TypeOK, CountInv, StateInv, ReasonInv, CallInv,
             CancelLocked(c)
      PROVE  StateInv'
  <2>1. CASE progress.state \in {"running", "preparing"}
    BY <1>4, <2>1 DEF CancelLocked, CancelledState, workerVars, worldVars
  <2>2. CASE progress.state = "idle"
    BY <1>4, <2>2 DEF CancelLocked, CancelledState, CallInv, workerVars, worldVars
  <2>3. CASE progress.state \in {"cancelling"} \cup Terminal
    BY <1>4, <2>3 DEF CancelLocked, CancelledState, workerVars, worldVars
  <2> QED
    BY <1>4, <2>1, <2>2, <2>3 DEF CancelLocked, CancelledState
<1>5. ASSUME TypeOK, CountInv, StateInv, ReasonInv, CallInv,
             BeginRun
      PROVE  StateInv'
  BY <1>5 DEF BeginRun, Goto, worldVars
<1>6. ASSUME TypeOK, CountInv, StateInv, ReasonInv, CallInv,
             Announce
      PROVE  StateInv'
  BY <1>6 DEF Announce, Publish, LoopFrom, Stop, sharedVars
<1>7. ASSUME TypeOK, CountInv, StateInv, ReasonInv, CallInv,
             CheckCancel
      PROVE  StateInv'
  <2>1. CASE cancel
    BY <1>7, <2>1 DEF CheckCancel, Goto, FinishWith, Stop, sharedVars, worldVars
  <2>2. CASE ~(cancel)
    BY <1>7, <2>2 DEF CheckCancel, Goto, FinishWith, Stop, sharedVars, worldVars
  <2> QED
    BY <2>1, <2>2
<1>8. ASSUME TypeOK, CountInv, StateInv, ReasonInv, CallInv,
             CheckDeadline
      PROVE  StateInv'
  <2>1. CASE expired
    BY <1>8, <2>1 DEF CheckDeadline, Goto, FinishWith, Stop, sharedVars, worldVars
  <2>2. CASE ~(expired)
    BY <1>8, <2>2 DEF CheckDeadline, Goto, FinishWith, Stop, sharedVars, worldVars
  <2> QED
    BY <2>1, <2>2
<1>9. ASSUME TypeOK, CountInv, StateInv, ReasonInv, CallInv,
             CheckOpen
      PROVE  StateInv'
  <2>1. CASE open
    BY <1>9, <2>1 DEF CheckOpen, Goto, FinishWith, Stop, sharedVars, worldVars
  <2>2. CASE ~(open)
    BY <1>9, <2>2 DEF CheckOpen, Goto, FinishWith, Stop, sharedVars, worldVars
  <2> QED
    BY <2>1, <2>2
<1>10. ASSUME TypeOK, CountInv, StateInv, ReasonInv, CallInv,
             SendAccepted
      PROVE  StateInv'
  BY <1>10 DEF SendAccepted, Goto, sharedVars
<1>11. ASSUME TypeOK, CountInv, StateInv, ReasonInv, CallInv,
             SendFailed
      PROVE  StateInv'
  BY <1>11 DEF SendFailed, FinishWith, Stop, sharedVars, worldVars
<1>12. ASSUME TypeOK, CountInv, StateInv, ReasonInv, CallInv,
             Account
      PROVE  StateInv'
  BY <1>12 DEF Account, Goto, worldVars
<1>13. ASSUME TypeOK, CountInv, StateInv, ReasonInv, CallInv, Report PROVE StateInv'
  <2>1. CASE index + 1 = progress.total \/ ~options.paced
    BY <1>13, <2>1 DEF Report, Goto, Publish, LoopFrom, Stop, sharedVars
  <2>2. CASE ~(index + 1 = progress.total \/ ~options.paced)
    BY <1>13, <2>2 DEF Report, Goto, Publish, LoopFrom, Stop, sharedVars
  <2> QED
    BY <2>1, <2>2
<1>14. ASSUME TypeOK, CountInv, StateInv, ReasonInv, CallInv,
             EnterPacing
      PROVE  StateInv'
  BY <1>14 DEF EnterPacing, Goto, worldVars
<1>15. ASSUME TypeOK, CountInv, StateInv, ReasonInv, CallInv,
             TestPredicate
      PROVE  StateInv'
  <2>1. CASE cancel
    BY <1>15, <2>1 DEF TestPredicate, Goto, sharedVars, worldVars
  <2>2. CASE ~(cancel)
    BY <1>15, <2>2 DEF TestPredicate, Goto, sharedVars, worldVars
  <2> QED
    BY <2>1, <2>2
<1>16. ASSUME TypeOK, CountInv, StateInv, ReasonInv, CallInv,
             Block \/ WakeNotified \/ PacingElapses
      PROVE  StateInv'
  BY <1>16 DEF Block, sharedVars, worldVars, WakeNotified, Goto, PacingElapses
<1>17. ASSUME TypeOK, CountInv, StateInv, ReasonInv, CallInv,
             AfterPacing
      PROVE  StateInv'
  <2>1. CASE cancel
    BY <1>17, <2>1 DEF AfterPacing, Goto, FinishWith, Stop, sharedVars, worldVars
  <2>2. CASE ~(cancel)
    BY <1>17, <2>2 DEF AfterPacing, Goto, FinishWith, Stop, sharedVars, worldVars
  <2> QED
    BY <2>1, <2>2
<1>18. ASSUME TypeOK, CountInv, StateInv, ReasonInv, CallInv,
             AfterDeadline
      PROVE  StateInv'
  <2>1. CASE expired
    BY <1>18, <2>1 DEF AfterDeadline, FinishWith, LoopFrom, Stop, sharedVars,
                      worldVars
  <2>2. CASE ~(expired)
    BY <1>18, <2>2 DEF AfterDeadline, FinishWith, LoopFrom, Stop, sharedVars,
                      worldVars
  <2> QED
    BY <2>1, <2>2
<1>19. ASSUME TypeOK, CountInv, StateInv, ReasonInv, CallInv, Finish PROVE StateInv'
  BY <1>19 DEF Finish, Goto, worldVars
<1>20. ASSUME TypeOK, CountInv, StateInv, ReasonInv, CallInv,
             AnnounceEnd
      PROVE  StateInv'
  BY <1>20 DEF AnnounceEnd, Goto, Publish, sharedVars
<1>21. ASSUME TypeOK, CountInv, StateInv, ReasonInv, CallInv,
             DeadlinePasses \/ TransportChanges \/ UNCHANGED vars
      PROVE  StateInv'
  BY <1>21 DEF DeadlinePasses, sharedVars, workerVars, TransportChanges, vars,
               worldVars
<1> HIDE DEF TypeOK, CountInv, StateInv, ReasonInv
<1> QED
  BY <1>1, <1>2, <1>3, <1>4, <1>5, <1>6, <1>7, <1>8, <1>9, <1>10, <1>11, <1>12,
     <1>13, <1>14, <1>15, <1>16, <1>17, <1>18, <1>19, <1>20, <1>21
     DEF Next, Worker

LEMMA ReasonNext == TypeOK /\ CountInv /\ StateInv /\ ReasonInv /\ [Next]_vars => ReasonInv'
<1> USE DEF TypeOK, CountInv, StateInv, ReasonInv, Justified, Snapshots, Over, Terminal, Before, Unsent, Pacing
<1>1. ASSUME NEW n \in Totals, NEW paced \in BOOLEAN,
             NEW timed \in BOOLEAN, TypeOK, CountInv, StateInv,
             ReasonInv,
             Start(n, paced, timed)
      PROVE  ReasonInv'
  BY <1>1 DEF Start, worldVars
<1>2. ASSUME TypeOK, CountInv, StateInv, ReasonInv,
             Wait \/ Destroy \/ DestroyJoin
      PROVE  ReasonInv'
  BY <1>2 DEF Wait, sharedVars, worldVars, Destroy, StoreCancel, workerVars,
              DestroyJoin, NoWorker
<1>3. ASSUME NEW c \in Callers, TypeOK, CountInv, StateInv, ReasonInv,
             RequestCancel(c) \/ CancelNotify(c)
      PROVE  ReasonInv'
  BY <1>3 DEF RequestCancel, StoreCancel, workerVars, worldVars, CancelNotify,
              sharedVars
<1>4. ASSUME NEW c \in Callers, TypeOK, CountInv, StateInv, ReasonInv,
             CancelLocked(c)
      PROVE  ReasonInv'
  BY <1>4 DEF CancelLocked, CancelledState, workerVars, worldVars
<1>5. ASSUME TypeOK, CountInv, StateInv, ReasonInv, BeginRun PROVE ReasonInv'
  BY <1>5 DEF BeginRun, Goto, worldVars
<1>6. ASSUME TypeOK, CountInv, StateInv, ReasonInv, Announce PROVE ReasonInv'
  BY <1>6 DEF Announce, Publish, LoopFrom, Stop, sharedVars
<1>7. ASSUME TypeOK, CountInv, StateInv, ReasonInv, CheckCancel PROVE ReasonInv'
  <2>1. CASE cancel
    BY <1>7, <2>1 DEF CheckCancel, Goto, FinishWith, Stop, sharedVars, worldVars
  <2>2. CASE ~(cancel)
    BY <1>7, <2>2 DEF CheckCancel, Goto, FinishWith, Stop, sharedVars, worldVars
  <2> QED
    BY <2>1, <2>2
<1>8. ASSUME TypeOK, CountInv, StateInv, ReasonInv, CheckDeadline PROVE ReasonInv'
  <2>1. CASE expired
    BY <1>8, <2>1 DEF CheckDeadline, Goto, FinishWith, Stop, sharedVars, worldVars
  <2>2. CASE ~(expired)
    BY <1>8, <2>2 DEF CheckDeadline, Goto, FinishWith, Stop, sharedVars, worldVars
  <2> QED
    BY <2>1, <2>2
<1>9. ASSUME TypeOK, CountInv, StateInv, ReasonInv, CheckOpen PROVE ReasonInv'
  <2>1. CASE open
    BY <1>9, <2>1 DEF CheckOpen, Goto, FinishWith, Stop, sharedVars, worldVars
  <2>2. CASE ~(open)
    BY <1>9, <2>2 DEF CheckOpen, Goto, FinishWith, Stop, sharedVars, worldVars
  <2> QED
    BY <2>1, <2>2
<1>10. ASSUME TypeOK, CountInv, StateInv, ReasonInv, SendAccepted PROVE ReasonInv'
  BY <1>10 DEF SendAccepted, Goto, sharedVars
<1>11. ASSUME TypeOK, CountInv, StateInv, ReasonInv, SendFailed PROVE ReasonInv'
  BY <1>11 DEF SendFailed, FinishWith, Stop, sharedVars, worldVars
<1>12. ASSUME TypeOK, CountInv, StateInv, ReasonInv, Account PROVE ReasonInv'
  BY <1>12 DEF Account, Goto, worldVars
<1>13. ASSUME TypeOK, CountInv, StateInv, ReasonInv, Report PROVE ReasonInv'
  <2>1. CASE index + 1 = progress.total \/ ~options.paced
    BY <1>13, <2>1 DEF Report, Goto, Publish, LoopFrom, Stop, sharedVars
  <2>2. CASE ~(index + 1 = progress.total \/ ~options.paced)
    BY <1>13, <2>2 DEF Report, Goto, Publish, LoopFrom, Stop, sharedVars
  <2> QED
    BY <2>1, <2>2
<1>14. ASSUME TypeOK, CountInv, StateInv, ReasonInv, EnterPacing PROVE ReasonInv'
  BY <1>14 DEF EnterPacing, Goto, worldVars
<1>15. ASSUME TypeOK, CountInv, StateInv, ReasonInv, TestPredicate PROVE ReasonInv'
  <2>1. CASE cancel
    BY <1>15, <2>1 DEF TestPredicate, Goto, sharedVars, worldVars
  <2>2. CASE ~(cancel)
    BY <1>15, <2>2 DEF TestPredicate, Goto, sharedVars, worldVars
  <2> QED
    BY <2>1, <2>2
<1>16. ASSUME TypeOK, CountInv, StateInv, ReasonInv,
             Block \/ WakeNotified \/ PacingElapses
      PROVE  ReasonInv'
  BY <1>16 DEF Block, sharedVars, worldVars, WakeNotified, Goto, PacingElapses
<1>17. ASSUME TypeOK, CountInv, StateInv, ReasonInv, AfterPacing PROVE ReasonInv'
  <2>1. CASE cancel
    BY <1>17, <2>1 DEF AfterPacing, Goto, FinishWith, Stop, sharedVars, worldVars
  <2>2. CASE ~(cancel)
    BY <1>17, <2>2 DEF AfterPacing, Goto, FinishWith, Stop, sharedVars, worldVars
  <2> QED
    BY <2>1, <2>2
<1>18. ASSUME TypeOK, CountInv, StateInv, ReasonInv, AfterDeadline PROVE ReasonInv'
  <2>1. CASE expired
    BY <1>18, <2>1 DEF AfterDeadline, FinishWith, LoopFrom, Stop, sharedVars,
                      worldVars
  <2>2. CASE ~(expired)
    BY <1>18, <2>2 DEF AfterDeadline, FinishWith, LoopFrom, Stop, sharedVars,
                      worldVars
  <2> QED
    BY <2>1, <2>2
<1>19. ASSUME TypeOK, CountInv, StateInv, ReasonInv, Finish PROVE ReasonInv'
  BY <1>19 DEF Finish, Goto, worldVars
<1>20. ASSUME TypeOK, CountInv, StateInv, ReasonInv, AnnounceEnd PROVE ReasonInv'
  BY <1>20 DEF AnnounceEnd, Goto, Publish, sharedVars
<1>21. ASSUME TypeOK, CountInv, StateInv, ReasonInv,
             DeadlinePasses \/ TransportChanges \/ UNCHANGED vars
      PROVE  ReasonInv'
  BY <1>21 DEF DeadlinePasses, sharedVars, workerVars, TransportChanges, vars,
               worldVars
<1> HIDE DEF TypeOK, CountInv, StateInv, ReasonInv
<1> QED
  BY <1>1, <1>2, <1>3, <1>4, <1>5, <1>6, <1>7, <1>8, <1>9, <1>10, <1>11, <1>12,
     <1>13, <1>14, <1>15, <1>16, <1>17, <1>18, <1>19, <1>20, <1>21
     DEF Next, Worker

LEMMA LateNext == TypeOK /\ LateInv /\ [Next]_vars => LateInv'
<1> USE DEF TypeOK, LateInv
<1>1. ASSUME NEW n \in Totals, NEW paced \in BOOLEAN,
             NEW timed \in BOOLEAN, TypeOK, LateInv,
             Start(n, paced, timed)
      PROVE  LateInv'
  BY <1>1 DEF Start, worldVars
<1>2. ASSUME TypeOK, LateInv, Wait \/ Destroy \/ DestroyJoin PROVE LateInv'
  BY <1>2 DEF Wait, sharedVars, worldVars, Destroy, StoreCancel, workerVars,
              DestroyJoin, NoWorker
<1>3. ASSUME NEW c \in Callers, TypeOK, LateInv,
             RequestCancel(c) \/ CancelLocked(c) \/ CancelNotify(c)
      PROVE  LateInv'
  BY <1>3 DEF RequestCancel, StoreCancel, workerVars, worldVars, CancelLocked,
              CancelledState, CancelNotify, sharedVars
<1>4. ASSUME TypeOK, LateInv,
             BeginRun \/ Announce \/ Account \/ Report
      PROVE  LateInv'
  BY <1>4 DEF BeginRun, Goto, worldVars, Announce, Publish, LoopFrom, Stop,
              sharedVars, Account, Report
<1>5. ASSUME TypeOK, LateInv, CheckCancel PROVE LateInv'
  <2>1. CASE cancel
    BY <1>5, <2>1 DEF CheckCancel, Goto, FinishWith, Stop, sharedVars, worldVars
  <2>2. CASE ~(cancel)
    BY <1>5, <2>2 DEF CheckCancel, Goto, FinishWith, Stop, sharedVars, worldVars
  <2> QED
    BY <2>1, <2>2
<1>6. ASSUME TypeOK, LateInv, CheckDeadline \/ CheckOpen PROVE LateInv'
  BY <1>6 DEF CheckDeadline, Goto, FinishWith, Stop, sharedVars, worldVars,
              CheckOpen
<1>7. ASSUME TypeOK, LateInv, SendAccepted PROVE LateInv'
  BY <1>7 DEF SendAccepted, Goto, sharedVars
<1>8. ASSUME TypeOK, LateInv, SendFailed \/ Finish \/ AnnounceEnd PROVE LateInv'
  BY <1>8 DEF SendFailed, FinishWith, Stop, sharedVars, worldVars, Finish, Goto,
              AnnounceEnd, Publish
<1>9. ASSUME TypeOK, LateInv,
             EnterPacing \/ TestPredicate \/ Block \/ WakeNotified \/ PacingElapses
      PROVE  LateInv'
  BY <1>9 DEF EnterPacing, Goto, worldVars, TestPredicate, sharedVars, Block,
              WakeNotified, PacingElapses
<1>10. ASSUME TypeOK, LateInv, AfterPacing \/ AfterDeadline PROVE LateInv'
  BY <1>10 DEF AfterPacing, Goto, FinishWith, Stop, sharedVars, worldVars,
               AfterDeadline, LoopFrom
<1>11. ASSUME TypeOK, LateInv,
             DeadlinePasses \/ TransportChanges \/ UNCHANGED vars
      PROVE  LateInv'
  BY <1>11 DEF DeadlinePasses, sharedVars, workerVars, TransportChanges, vars,
               worldVars
<1> HIDE DEF TypeOK, LateInv
<1> QED
  BY <1>1, <1>2, <1>3, <1>4, <1>5, <1>6, <1>7, <1>8, <1>9, <1>10, <1>11
     DEF Next, Worker

LEMMA OwnerNext == TypeOK /\ OwnerInv /\ [Next]_vars => OwnerInv'
<1> USE DEF TypeOK, OwnerInv, OwnerFree
<1>1. ASSUME NEW n \in Totals, NEW paced \in BOOLEAN,
             NEW timed \in BOOLEAN, TypeOK, OwnerInv,
             Start(n, paced, timed)
      PROVE  OwnerInv'
  BY <1>1 DEF Start, worldVars
<1>2. ASSUME TypeOK, OwnerInv, Wait PROVE OwnerInv'
  BY <1>2 DEF Wait, sharedVars, worldVars
<1>3. ASSUME TypeOK, OwnerInv, Destroy PROVE OwnerInv'
  BY <1>3 DEF Destroy, StoreCancel, workerVars, worldVars
<1>4. ASSUME TypeOK, OwnerInv, DestroyJoin PROVE OwnerInv'
  BY <1>4 DEF DestroyJoin, NoWorker, sharedVars, workerVars, worldVars
<1>5. ASSUME NEW c \in Callers, TypeOK, OwnerInv,
             RequestCancel(c) \/ CancelLocked(c) \/ CancelNotify(c)
      PROVE  OwnerInv'
  BY <1>5 DEF RequestCancel, StoreCancel, workerVars, worldVars, CancelLocked,
              CancelledState, CancelNotify, sharedVars
<1>6. ASSUME TypeOK, OwnerInv,
             BeginRun \/ Announce \/ Account \/ Report
      PROVE  OwnerInv'
  BY <1>6 DEF BeginRun, Goto, worldVars, Announce, Publish, LoopFrom, Stop,
              sharedVars, Account, Report
<1>7. ASSUME TypeOK, OwnerInv,
             CheckCancel \/ CheckDeadline \/ CheckOpen
      PROVE  OwnerInv'
  BY <1>7 DEF CheckCancel, Goto, FinishWith, Stop, sharedVars, worldVars,
              CheckDeadline, CheckOpen
<1>8. ASSUME TypeOK, OwnerInv,
             SendAccepted \/ SendFailed \/ Finish \/ AnnounceEnd
      PROVE  OwnerInv'
  BY <1>8 DEF SendAccepted, Goto, sharedVars, SendFailed, FinishWith, Stop,
              worldVars, Finish, AnnounceEnd, Publish
<1>9. ASSUME TypeOK, OwnerInv,
             EnterPacing \/ TestPredicate \/ Block \/ WakeNotified \/ PacingElapses
      PROVE  OwnerInv'
  BY <1>9 DEF EnterPacing, Goto, worldVars, TestPredicate, sharedVars, Block,
              WakeNotified, PacingElapses
<1>10. ASSUME TypeOK, OwnerInv, AfterPacing \/ AfterDeadline PROVE OwnerInv'
  BY <1>10 DEF AfterPacing, Goto, FinishWith, Stop, sharedVars, worldVars,
               AfterDeadline, LoopFrom
<1>11. ASSUME TypeOK, OwnerInv,
             DeadlinePasses \/ TransportChanges \/ UNCHANGED vars
      PROVE  OwnerInv'
  BY <1>11 DEF DeadlinePasses, sharedVars, workerVars, TransportChanges, vars,
               worldVars
<1> HIDE DEF TypeOK, OwnerInv
<1> QED
  BY <1>1, <1>2, <1>3, <1>4, <1>5, <1>6, <1>7, <1>8, <1>9, <1>10, <1>11
     DEF Next, Worker

(* The invariant holds throughout every behaviour.                           *)
THEOREM Inductive == Spec => []IInv
<1>1. Init => IInv
  BY TypeInit, PlaceInit DEF IInv
<1>2. IInv /\ [Next]_vars => IInv'
  BY TypeNext, CountNext, StateNext, ReasonNext, LateNext, CallNext,
     OwnerNext
     DEF IInv, PlaceInv
<1> QED
  BY <1>1, <1>2, PTL DEF Spec

-----------------------------------------------------------------------------
(* What the invariant gives.                                                 *)

LEMMA InvGivesSafety ==
  IInv => /\ AcceptedPrefix /\ ResultTruthful /\ CancelStopsSending
          /\ HandlerSeesEnd /\ NoOrphanWorker
<1> SUFFICES ASSUME IInv
             PROVE  /\ AcceptedPrefix /\ ResultTruthful /\ CancelStopsSending
                    /\ HandlerSeesEnd /\ NoOrphanWorker
  OBVIOUS
<1> USE DEF IInv, PlaceInv
<1>1. AcceptedPrefix
  BY DEF AcceptedPrefix, TypeOK, CountInv, Snapshots, WorkerPlaces, Before, Unsent,
         Pacing, Ending
<1>2. ResultTruthful
  <2> SUFFICES ASSUME result.state \in Terminal
               PROVE  /\ result.state = progress.state
                      /\ result.accepted = Len(delivered)
                      /\ \/ wpc = "none" /\ result.state = "cancelled"
                            /\ result.error = "cancelled" /\ cancel
                         \/ Justified(result.state, result.error)
    BY DEF ResultTruthful, Justified
  <2>1. wpc \in Over \cup {"none"}
    BY DEF StateInv, Terminal
  <2> QED
    BY <2>1 DEF StateInv, ReasonInv, CountInv, Before, Terminal
<1>3. CancelStopsSending
  BY DEF CancelStopsSending, LateInv
<1>4. HandlerSeesEnd
  BY DEF HandlerSeesEnd, StateInv, Over
<1>5. NoOrphanWorker
  BY DEF NoOrphanWorker, OwnerInv
<1> QED
  BY <1>1, <1>2, <1>3, <1>4, <1>5

(* The transport accepts messages in order, and the count is exact.          *)
THEOREM AcceptedInOrder == Spec => []AcceptedPrefix
BY Inductive, InvGivesSafety, PTL

(* A result never claims more, or another end, than what happened.           *)
THEOREM TruthfulResults == Spec => []ResultTruthful
BY Inductive, InvGivesSafety, PTL

(* A requested cancellation lets at most one more message out.               *)
THEOREM PromptCancellation == Spec => []CancelStopsSending
BY Inductive, InvGivesSafety, PTL

(* The handler's last snapshot is the result's.                              *)
THEOREM FinalSnapshot == Spec => []HandlerSeesEnd
BY Inductive, InvGivesSafety, PTL

(* The destructor returns only once the worker is gone.                      *)
THEOREM JoinedBeforeGone == Spec => []NoOrphanWorker
BY Inductive, InvGivesSafety, PTL

LEMMA TerminalPlaces ==
  IInv /\ progress.state \in Terminal => wpc \in Over \cup {"none"}
BY DEF IInv, PlaceInv, StateInv, Terminal

LEMMA TerminalStep ==
  ASSUME IInv, progress.state \in Terminal, [Next]_vars
  PROVE  UNCHANGED <<progress, result, delivered>>
<1>1. wpc \in Over \cup {"none"}
  BY TerminalPlaces
<1>2. progress.state \notin {"idle", "preparing", "running"}
  BY DEF Terminal
<1>3. CASE Worker
  <2>1. AnnounceEnd
    BY <1>1, <1>3
       DEF Over, Worker, BeginRun, Announce, CheckCancel, CheckDeadline, CheckOpen,
           SendAccepted, SendFailed, Account, Report, EnterPacing, TestPredicate,
           Block, WakeNotified, AfterPacing, AfterDeadline, Finish
  <2> QED
    BY <2>1 DEF AnnounceEnd, sharedVars
<1>4. ASSUME NEW n \in Totals, NEW paced \in BOOLEAN, NEW timed \in BOOLEAN,
             Start(n, paced, timed)
      PROVE  FALSE
  BY <1>2, <1>4 DEF Start
<1>5. CASE Wait \/ Destroy \/ DestroyJoin
  BY <1>5 DEF Wait, Destroy, DestroyJoin, sharedVars, worldVars
<1>6. ASSUME NEW c \in Callers, RequestCancel(c) \/ CancelNotify(c)
      PROVE  UNCHANGED <<progress, result, delivered>>
  BY <1>6 DEF RequestCancel, CancelNotify, sharedVars, worldVars
<1>7. ASSUME NEW c \in Callers, CancelLocked(c)
      PROVE  UNCHANGED <<progress, result, delivered>>
  BY <1>2, <1>7 DEF CancelLocked, CancelledState, worldVars
<1>8. CASE PacingElapses
  BY <1>1, <1>8 DEF PacingElapses, Over
<1>9. CASE DeadlinePasses \/ TransportChanges \/ UNCHANGED vars
  BY <1>9 DEF DeadlinePasses, TransportChanges, vars, sharedVars, worldVars
<1> QED
  BY <1>3, <1>4, <1>5, <1>6, <1>7, <1>8, <1>9 DEF Next

(* A terminal state is final: no later call changes it, its result or what   *)
(* was delivered.                                                            *)
THEOREM TerminalIsFinal == Spec => EndIsFinal
<1>1. IInv /\ [Next]_vars =>
        [progress.state \in Terminal => UNCHANGED <<progress, result, delivered>>]_vars
  BY TerminalStep
<1> QED
  BY <1>1, Inductive, PTL DEF Spec, EndIsFinal

-----------------------------------------------------------------------------
(* The engine implements the one-shot attempt.                               *)

Active == {"preparing", "running", "cancelling"}

LEMMA PhaseUnchanged ==
  ASSUME progress' = progress
  PROVE  UNCHANGED <<Phase, progress.total, progress.accepted>>
BY DEF Phase

LEMMA ActiveUnchanged ==
  ASSUME progress.state \in Active, progress'.state \in Active,
         progress'.total = progress.total, progress'.accepted = progress.accepted
  PROVE  UNCHANGED <<Phase, progress.total, progress.accepted>>
BY DEF Phase, Active

LEMMA StepSimulation ==
  ASSUME IInv, [Next]_vars
  PROVE  [Abstract!AbsNext]_(Abstract!absVars)
<1> USE DEF Abstract!absVars, Abstract!AbsNext
<1>1. ASSUME NEW n \in Totals, NEW paced \in BOOLEAN, NEW timed \in BOOLEAN,
             Start(n, paced, timed)
      PROVE  Abstract!Begin
  BY <1>1 DEF Start, Abstract!Begin, Phase
<1>2. ASSUME progress' = progress
      PROVE  UNCHANGED Abstract!absVars
  BY <1>2, PhaseUnchanged
<1>3. ASSUME NEW c \in Callers, CancelLocked(c)
      PROVE  Abstract!CancelIdle \/ UNCHANGED Abstract!absVars
  <2>1. CASE progress.state \in {"running", "preparing"}
    <3>1. progress' = [progress EXCEPT !.state = "cancelling"]
      BY <1>3, <2>1 DEF CancelLocked, CancelledState, Terminal
    <3> QED
      BY <2>1, <3>1, ActiveUnchanged DEF Active, IInv, TypeOK, Snapshots
  <2>2. CASE progress.state = "idle"
    <3>1. progress' = [progress EXCEPT !.state = "cancelled"]
      BY <1>3, <2>2 DEF CancelLocked, CancelledState, Terminal
    <3> QED
      BY <2>2, <3>1 DEF Abstract!CancelIdle, Phase, IInv, TypeOK, Snapshots
  <2>3. CASE progress.state \in {"cancelling"} \cup Terminal
    BY <1>2, <1>3, <2>3 DEF CancelLocked, CancelledState, Terminal
  <2> QED
    BY <1>3, <2>1, <2>2, <2>3 DEF CancelLocked, CancelledState
<1>4. CASE BeginRun \/ EnterPacing
  <2>1. progress.state \in Active
    BY <1>4 DEF BeginRun, EnterPacing, IInv, PlaceInv, StateInv, Over, Active
  <2> QED
    BY <1>4, <2>1, ActiveUnchanged
       DEF BeginRun, EnterPacing, Active, IInv, TypeOK, Snapshots
<1>5. CASE Account
  <2>1. progress.state \in Active /\ progress.accepted < progress.total
    BY <1>5 DEF Account, IInv, PlaceInv, StateInv, CountInv, Over, Active
  <2>2. progress' = [progress EXCEPT !.accepted = progress.accepted + 1]
    BY <1>5 DEF Account
  <2> QED
    BY <2>1, <2>2 DEF Abstract!Accept, Phase, Active, IInv, TypeOK, Snapshots
<1>6. CASE Finish
  <2>1. progress.state \in Active /\ Justified(outcome.state, outcome.error)
        /\ Len(delivered) = progress.accepted
    BY <1>6 DEF Finish, IInv, PlaceInv, StateInv, ReasonInv, CountInv, Over, Ending,
                Active
  <2>2. progress' = [progress EXCEPT !.state = outcome.state]
    BY <1>6 DEF Finish
  <2> QED
    BY <2>1, <2>2
       DEF Abstract!End, Phase, Active, Justified, IInv, TypeOK, Snapshots
<1>7. CASE Wait \/ Destroy \/ DestroyJoin
  BY <1>2, <1>7 DEF Wait, Destroy, DestroyJoin, sharedVars
<1>8. ASSUME NEW c \in Callers, RequestCancel(c) \/ CancelNotify(c)
      PROVE  UNCHANGED Abstract!absVars
  BY <1>2, <1>8 DEF RequestCancel, CancelNotify, sharedVars
<1>9. CASE \/ Announce \/ CheckCancel \/ CheckDeadline \/ CheckOpen \/ SendAccepted
           \/ SendFailed \/ Report \/ TestPredicate \/ Block \/ WakeNotified
           \/ AfterPacing \/ AfterDeadline \/ AnnounceEnd \/ PacingElapses
           \/ DeadlinePasses \/ TransportChanges \/ UNCHANGED vars
  BY <1>2, <1>9
     DEF Announce, CheckCancel, CheckDeadline, CheckOpen, SendAccepted, SendFailed,
         Report, TestPredicate, Block, WakeNotified, AfterPacing, AfterDeadline,
         AnnounceEnd, PacingElapses, DeadlinePasses, TransportChanges, vars, sharedVars
<1> QED
  BY <1>1, <1>3, <1>4, <1>5, <1>6, <1>7, <1>8, <1>9 DEF Next, Worker

(* Threads, locks and races included, the engine is a one-shot attempt.      *)
THEOREM Refinement == Spec => ImplementsOneShot
<1>1. Init => Abstract!AbsInit
  BY DEF Init, Abstract!AbsInit, Phase
<1>2. IInv /\ [Next]_vars => [Abstract!AbsNext]_(Abstract!absVars)
  BY StepSimulation
<1> QED
  BY <1>1, <1>2, Inductive, PTL DEF Spec, ImplementsOneShot, Abstract!AbsSpec

=============================================================================
